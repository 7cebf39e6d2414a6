---------------------------- MODULE WorkbenchProofs ----------------------------
(***************************************************************************)
(* Workbench, for any tracks, options, catalogs and requests: the list is  *)
(* whole unless requests crossed, what is selected is shown and has a      *)
(* quality of its own menu, no row is left loading, and what is sent to    *)
(* the queue is sound.                                                     *)
(***************************************************************************)
EXTENDS Workbench, TLAPS

USE WorkbenchAssumption DEF Loads, Lists, submission

\* The preferred one of some options is one of them.
LEMMA PreferredIsOne ==
    ASSUME NEW S \in SUBSET Options, S # {}
    PROVE  Preferred(S) \in S /\ Preferred(S) # None
BY DEF Preferred

\* What ensurePreferredQuality leaves chosen is an option of the menu.
LEMMA EnsureFits ==
    ASSUME NEW t \in Tracks, NEW S \in SUBSET Options, S # {}
    PROVE  Ensure(t, S) \in S /\ Ensure(t, S) # None
BY PreferredIsOne DEF Ensure

\* While no requests crossed, at most one is on its way, and if it is for a page,
\* then for the next one of the list that is shown.
Orderly ==
    /\ \A s \in Slots : ~Free(s) /\ load[s].more => list # None
    /\ ~crossed =>
          /\ list # None => list.whole
          /\ \A s1, s2 \in Slots : ~Free(s1) /\ ~Free(s2) => s1 = s2
          /\ \A s \in Slots : ~Free(s) /\ load[s].more =>
                load[s].of = list.of /\ load[s].page = list.page + 1

\* A menu is never empty.
ReadyHasOptions == \A t \in Tracks : Ready(t) => quality[t].options # {}

\* The inductive invariant.
WorkbenchInv ==
    WorkbenchTypeOK /\ ReadyHasOptions /\ Orderly /\ PickedAreShown /\ ReadyIsChosen /\ LoadingIsAsked


Qualities == [status : Statuses, options : SUBSET Options]

\* Rows that come to the screen keep the types of what is asked and answered.
LEMMA MountedTypes ==
    ASSUME WorkbenchTypeOK, NEW R \in SUBSET Tracks, NEW before \in [Tracks -> Qualities]
    PROVE  Mounted(R, before) \in [Tracks -> Qualities] /\ AskedFor(R, before) \in [Tracks -> Nat]
<1>1. Asked \in Qualities BY DEF Asked, Quality, Qualities, Statuses
<1>2. Mounted(R, before) \in [Tracks -> Qualities] BY <1>1 DEF Mounted
<1>3. AskedFor(R, before) \in [Tracks -> Nat] BY DEF AskedFor, WorkbenchTypeOK
<1>4. QED BY <1>2, <1>3

LEMMA OpenedTypes ==
    ASSUME WorkbenchTypeOK, NEW s \in Slots, NEW R \in SUBSET Tracks, NEW more \in BOOLEAN,
           Opened(s, R, more)
    PROVE  WorkbenchTypeOK'
<1> DEFINE blank == [t \in Tracks |-> Quality("idle")]
<1>1. blank \in [Tracks -> Qualities] BY DEF Quality, Qualities, Statuses
<1>2. quality' \in [Tracks -> Qualities] /\ asks' \in [Tracks -> Nat]
  <2>1. quality' = Mounted(R, blank) /\ asks' = AskedFor(R, blank) BY DEF Opened
  <2> HIDE DEF blank
  <2>2. QED BY <1>1, <2>1, MountedTypes
<1>3. load[s].of \in Catalogs BY DEF Opened, Free, WorkbenchTypeOK
<1>4. mode' \in Modes \cup {"search"} /\ query' \in Texts \cup {Title, None}
  BY <1>3 DEF Opened, Catalogs, WorkbenchTypeOK
<1>5. list' \in Lists BY <1>3 DEF Opened
<1>6. load' \in [Slots -> Loads \cup {None}]
  BY DEF Opened, WorkbenchTypeOK
<1>7. choice' \in [Tracks -> Options \cup {None}] BY DEF Opened, Reset, NoChoice
<1>8. QED BY <1>2, <1>4, <1>5, <1>6, <1>7 DEF Opened, Reset, WorkbenchTypeOK, Qualities, Alone

LEMMA AppendedTypes ==
    ASSUME WorkbenchTypeOK, Orderly, NEW s \in Slots, NEW R \in SUBSET Tracks, NEW more \in BOOLEAN,
           Appended(s, R, more)
    PROVE  WorkbenchTypeOK'
<1>1. quality \in [Tracks -> Qualities] BY DEF WorkbenchTypeOK, Qualities
<1>2. quality' \in [Tracks -> Qualities] /\ asks' \in [Tracks -> Nat]
  BY <1>1, MountedTypes DEF Appended
<1>3. list # None /\ load[s].page \in Nat BY DEF Orderly, Appended, Free, WorkbenchTypeOK
<1>4. list' \in Lists
  <2>1. list \in Lists
    BY <1>3 DEF WorkbenchTypeOK
  <2>2. QED BY <1>3, <2>1 DEF Appended
<1>5. load' \in [Slots -> Loads \cup {None}]
  BY DEF Appended, WorkbenchTypeOK
<1>6. QED BY <1>2, <1>4, <1>5 DEF Appended, WorkbenchTypeOK, Qualities

\* A step of the lists keeps the types.
LEMMA CatalogTypes ==
    ASSUME WorkbenchTypeOK, Orderly, CatalogStep
    PROVE  WorkbenchTypeOK'
<1>1. ASSUME NEW s \in Slots, NEW c \in Catalogs, Open(s, c), mode' \in Modes \cup {"search"},
             ref' \in Refs \cup {None}, sort' \in Sorts
      PROVE  WorkbenchTypeOK'
  <2>1. load' \in [Slots -> Loads \cup {None}]
    BY <1>1 DEF Open, WorkbenchTypeOK
  <2>2. QED BY <1>1, <2>1 DEF Open, Busy, WorkbenchTypeOK, rowVars
<1>2. ASSUME NEW s \in Slots, Search(s) PROVE WorkbenchTypeOK'
  <2>1. [mode |-> "search", ref |-> query] \in Catalogs BY DEF Catalogs, WorkbenchTypeOK
  <2>2. QED BY <1>1, <1>2, <2>1 DEF Search, WorkbenchTypeOK
<1>3. ASSUME NEW s \in Slots, NEW m \in Modes \cap {"liked", "play_record"}, OpenAccount(s, m)
      PROVE  WorkbenchTypeOK'
  <2>1. [mode |-> m, ref |-> IF m = "liked" THEN sort ELSE None] \in Catalogs
    BY DEF Catalogs, WorkbenchTypeOK
  <2>2. QED BY <1>1, <1>3, <2>1 DEF OpenAccount, WorkbenchTypeOK
<1>4. ASSUME NEW s \in Slots, NEW m \in Modes \cap {"artist", "album"}, NEW r \in Refs,
             OpenPage(s, m, r)
      PROVE  WorkbenchTypeOK'
  <2>1. [mode |-> m, ref |-> r] \in Catalogs BY DEF Catalogs
  <2>2. QED BY <1>1, <1>4, <2>1 DEF OpenPage, WorkbenchTypeOK
<1>5. ASSUME NEW s \in Slots, LoadMore(s) PROVE WorkbenchTypeOK'
  <2>1. Heading \in Catalogs BY DEF Heading, Catalogs, WorkbenchTypeOK
  <2>2. list.page + 1 \in Nat BY <1>5 DEF LoadMore, WorkbenchTypeOK
  <2>3. load' \in [Slots -> Loads \cup {None}]
    BY <1>5, <2>1, <2>2 DEF LoadMore, WorkbenchTypeOK
  <2>4. QED BY <1>5, <2>3 DEF LoadMore, Busy, WorkbenchTypeOK, rowVars
<1>6. ASSUME NEW s \in Slots, LoadFailed(s) PROVE WorkbenchTypeOK'
  BY <1>6 DEF LoadFailed, Free, WorkbenchTypeOK, rowVars
<1>7. ASSUME NEW q \in Texts, Edit(q) PROVE WorkbenchTypeOK'
  BY <1>7 DEF Edit, WorkbenchTypeOK, rowVars
<1>8. ASSUME NEW s \in Slots, NEW o \in Sorts, SetSort(s, o) PROVE WorkbenchTypeOK'
  <2>1. [mode |-> "liked", ref |-> o] \in Catalogs \/ ~loggedIn
    BY <1>8 DEF SetSort, Catalogs, WorkbenchTypeOK
  <2>2. CASE ~loggedIn BY <1>8, <2>2 DEF SetSort, WorkbenchTypeOK, rowVars, Open
  <2>3. CASE loggedIn BY <1>1, <1>8, <2>1, <2>3 DEF SetSort, WorkbenchTypeOK
  <2>4. QED BY <2>2, <2>3 DEF WorkbenchTypeOK
<1>9. QED
  BY <1>2, <1>3, <1>4, <1>5, <1>6, <1>7, <1>8, OpenedTypes, AppendedTypes DEF CatalogStep

\* An answer to a question about a quality keeps the types of a row.
LEMMA SettleTypes ==
    ASSUME WorkbenchTypeOK, NEW t \in Tracks, NEW o \in Outcomes \cup {Quality("loading")},
           Settle(t, o)
    PROVE  /\ quality' \in [Tracks -> Qualities] /\ lapsed' \in SUBSET Tracks
           /\ choice' \in [Tracks -> Options \cup {None}]
<1>1. o \in Qualities /\ (o.status = "ready" => o.options # {})
  BY DEF Outcomes, Quality, Qualities, Statuses
<1>2. o.status = "ready" => Ensure(t, o.options) \in Options BY <1>1, EnsureFits DEF Qualities
<1>3. QED BY <1>1, <1>2 DEF Settle, WorkbenchTypeOK, Qualities

\* A step of the rows keeps the types.
LEMMA RowTypes ==
    ASSUME WorkbenchTypeOK, ReadyHasOptions, RowStep
    PROVE  WorkbenchTypeOK'
<1> USE DEF catalogVars, rowVars
<1>1. ASSUME NEW t \in Tracks, Ask(t, TRUE) \/ Ask(t, FALSE)
      PROVE  /\ quality' \in [Tracks -> Qualities] /\ lapsed' \in SUBSET Tracks
             /\ asks' \in [Tracks -> Nat]
  <2>1. Asked \in Qualities /\ Quality("loading") \in Qualities
    BY DEF Asked, Quality, Qualities, Statuses
  <2>2. quality' \in [Tracks -> Qualities] BY <1>1, <2>1 DEF Ask, WorkbenchTypeOK, Qualities
  <2>3. asks' \in [Tracks -> Nat] /\ lapsed' \in SUBSET Tracks BY <1>1 DEF Ask, WorkbenchTypeOK
  <2>4. QED BY <2>2, <2>3
<1>2. ASSUME NEW t \in Tracks, Retry(t) PROVE WorkbenchTypeOK'
  BY <1>1, <1>2 DEF Retry, WorkbenchTypeOK, Qualities
<1>3. ASSUME NEW t \in Tracks, Ready(t) PROVE Ensure(t, quality[t].options) \in Options
  BY <1>3, EnsureFits DEF ReadyHasOptions, Ready, WorkbenchTypeOK
<1>4. ASSUME NEW t \in Tracks, Pick(t) PROVE WorkbenchTypeOK'
  <2>1. CASE MustAsk(t) BY <1>1, <1>4, <2>1 DEF Pick, ChosenAgain, WorkbenchTypeOK, Qualities
  <2>2. CASE ~MustAsk(t)
    <3>1. choice' \in [Tracks -> Options \cup {None}] BY <1>3, <1>4, <2>2 DEF Pick, ChosenAgain, WorkbenchTypeOK
    <3>2. picked' \in SUBSET Tracks /\ UNCHANGED <<quality, lapsed, asks>>
      BY <1>4, <2>2 DEF Pick, ChosenAgain, WorkbenchTypeOK
    <3>3. QED BY <1>4, <3>1, <3>2 DEF Pick, ChosenAgain, WorkbenchTypeOK
  <2>3. QED BY <2>1, <2>2
<1>5. ASSUME NEW t \in Tracks, Download(t) PROVE WorkbenchTypeOK'
  <2>1. Asked \in Qualities /\ Quality("loading") \in Qualities
    BY DEF Asked, Quality, Qualities, Statuses
  <2>2. quality' \in [Tracks -> Qualities] BY <1>5, <2>1 DEF Download, WorkbenchTypeOK, Qualities
  <2>3. choice' \in [Tracks -> Options \cup {None}] BY <1>3, <1>5 DEF Download, WorkbenchTypeOK
  <2>4. click' \in [Tracks -> {"idle", "first", "again", "sent"}] /\ lapsed' \in SUBSET Tracks
    BY <1>5 DEF Download, WorkbenchTypeOK
  <2>5. QED BY <1>5, <2>2, <2>3, <2>4 DEF Download, WorkbenchTypeOK, Qualities
<1>6. ASSUME NEW t \in Tracks, NEW o \in Outcomes, RowAnswered(t, o) PROVE WorkbenchTypeOK'
  <2>1. asks' \in [Tracks -> Nat] BY <1>6 DEF RowAnswered, WorkbenchTypeOK
  <2>2. QED BY <1>6, <2>1, SettleTypes DEF RowAnswered, WorkbenchTypeOK, Qualities
<1>7. ASSUME NEW t \in Tracks, NEW o \in Outcomes, ClickAnswered(t, o) PROVE WorkbenchTypeOK'
  <2>1. PICK p \in Outcomes \cup {Quality("loading")} : Settle(t, p) BY <1>7 DEF ClickAnswered
  <2>2. click' \in [Tracks -> {"idle", "first", "again", "sent"}]
    BY <1>7 DEF ClickAnswered, WorkbenchTypeOK
  <2>3. QED BY <1>7, <2>1, <2>2, SettleTypes DEF ClickAnswered, WorkbenchTypeOK, Qualities
<1>8. ASSUME NEW t \in Tracks, Unpick(t) \/ Lapse(t) \/ Created(t) \/ CreateFailed(t)
      PROVE  WorkbenchTypeOK'
  BY <1>8 DEF Unpick, Lapse, Created, CreateFailed, WorkbenchTypeOK
<1>9. ASSUME NEW t \in Tracks, NEW o \in Options, SetQuality(t, o) PROVE WorkbenchTypeOK'
  BY <1>9 DEF SetQuality, WorkbenchTypeOK
<1>10. CASE SubmitStale
  <2>1. quality' \in [Tracks -> Qualities]
    BY <1>10 DEF SubmitStale, Quality, Statuses, Qualities, WorkbenchTypeOK
  <2>2. QED BY <1>10, <2>1 DEF SubmitStale, WorkbenchTypeOK, Qualities
<1>11. CASE ClearSelection \/ Submit \/ Submitted \/ SubmitFailed \/ SessionChanges
  <2>1. batches' \in Nat
    BY <1>11 DEF ClearSelection, Submit, Submitted, SubmitFailed, SessionChanges, WorkbenchTypeOK
  <2>2. choice' \in [Tracks -> Options \cup {None}] /\ picked' \in SUBSET Tracks
    BY <1>11 DEF ClearSelection, Submit, Submitted, SubmitFailed, SessionChanges, NoChoice,
                 WorkbenchTypeOK
  <2>3. submitting' \in BOOLEAN /\ loggedIn' \in BOOLEAN
    BY <1>11 DEF ClearSelection, Submit, Submitted, SubmitFailed, SessionChanges, WorkbenchTypeOK
  <2>4. UNCHANGED <<catalogVars, shown, quality, lapsed, asks, click>>
    BY <1>11 DEF ClearSelection, Submit, Submitted, SubmitFailed, SessionChanges
  <2>5. QED BY <2>1, <2>2, <2>3, <2>4 DEF WorkbenchTypeOK
<1>12. QED
  BY <1>2, <1>4, <1>5, <1>6, <1>7, <1>8, <1>9, <1>10, <1>11 DEF RowStep

\* Requests on their way belong to the list that is shown, unless they crossed.
LEMMA OrderlyStep ==
    ASSUME WorkbenchTypeOK, Orderly, Next
    PROVE  Orderly'
<1> USE DEF Free
<1>1. ASSUME NEW s \in Slots, NEW c \in Catalogs, Open(s, c) PROVE Orderly'
  BY <1>1 DEF Open, Busy, Orderly, WorkbenchTypeOK
<1>2. ASSUME NEW s \in Slots, LoadMore(s) PROVE Orderly'
  BY <1>2 DEF LoadMore, Busy, Orderly, WorkbenchTypeOK
<1>3. ASSUME NEW s \in Slots, LoadFailed(s) PROVE Orderly'
  BY <1>3 DEF LoadFailed, Orderly, WorkbenchTypeOK
<1>4. ASSUME NEW s \in Slots, NEW R \in SUBSET Tracks, NEW more \in BOOLEAN, Opened(s, R, more)
      PROVE  Orderly'
  <2>1. load[s].of \in Catalogs BY <1>4 DEF Opened, WorkbenchTypeOK
  <2>2. list' \in Lists /\ list'.whole BY <1>4, <2>1 DEF Opened
  <2>3. list' # None BY <2>2
  <2>4. /\ load' = [load EXCEPT ![s] = None]
        /\ crossed' = ~(\A s2 \in Slots \ {s} : load[s2] = None)
    BY <1>4 DEF Opened, Alone
  <2>5. ~crossed' => \A s2 \in Slots : load'[s2] = None BY <2>4 DEF WorkbenchTypeOK
  <2>6. QED BY <2>2, <2>3, <2>5 DEF Orderly
<1>5. ASSUME NEW s \in Slots, NEW R \in SUBSET Tracks, NEW more \in BOOLEAN, Appended(s, R, more)
      PROVE  Orderly'
  <2>1. list \in Lists
    BY <1>5 DEF Appended, Orderly, WorkbenchTypeOK
  <2>2. /\ list' = [list EXCEPT !.page = load[s].page, !.more = more,
                     !.whole = @ /\ load[s].of = list.of /\ load[s].page = list.page + 1]
        /\ load' = [load EXCEPT ![s] = None] /\ crossed' = crossed
        /\ load[s] # None /\ load[s].more /\ load[s] \in Loads /\ more \in BOOLEAN
    BY <1>5 DEF Appended, WorkbenchTypeOK
  <2>3. list' \in Lists /\ list' # None
    BY <2>1, <2>2 DEF WorkbenchTypeOK
  <2>4. QED BY <2>1, <2>2, <2>3 DEF Orderly, WorkbenchTypeOK
<1>6. ASSUME UNCHANGED <<list, load, crossed>> PROVE Orderly' BY <1>6 DEF Orderly
<1>7. CASE CatalogStep
  <2>1. ASSUME NEW s \in Slots, Search(s) PROVE Orderly'
    <3>1. [mode |-> "search", ref |-> query] \in Catalogs BY DEF Catalogs, WorkbenchTypeOK
    <3>2. QED BY <1>1, <2>1, <3>1 DEF Search
  <2>2. ASSUME NEW s \in Slots, NEW m \in Modes \cap {"liked", "play_record"}, OpenAccount(s, m)
        PROVE  Orderly'
    <3>1. [mode |-> m, ref |-> IF m = "liked" THEN sort ELSE None] \in Catalogs
      BY DEF Catalogs, WorkbenchTypeOK
    <3>2. QED BY <1>1, <2>2, <3>1 DEF OpenAccount
  <2>3. ASSUME NEW s \in Slots, NEW m \in Modes \cap {"artist", "album"}, NEW r \in Refs,
               OpenPage(s, m, r)
        PROVE  Orderly'
    <3>1. [mode |-> m, ref |-> r] \in Catalogs BY DEF Catalogs
    <3>2. QED BY <1>1, <2>3, <3>1 DEF OpenPage
  <2>4. ASSUME NEW q \in Texts, Edit(q) PROVE Orderly' BY <1>6, <2>4 DEF Edit
  <2>5. ASSUME NEW s \in Slots, NEW o \in Sorts, SetSort(s, o) PROVE Orderly'
    <3>1. mode = "liked" => [mode |-> "liked", ref |-> o] \in Catalogs
      BY DEF Catalogs, WorkbenchTypeOK
    <3>2. QED BY <1>1, <1>6, <2>5, <3>1 DEF SetSort
  <2>6. QED BY <1>2, <1>3, <1>4, <1>5, <1>7, <2>1, <2>2, <2>3, <2>4, <2>5 DEF CatalogStep
<1>8. CASE RowStep
  <2>1. UNCHANGED <<list, load, crossed>>
    BY <1>8 DEF RowStep, Retry, Pick, ChosenAgain, Unpick, Lapse, Download, Created, CreateFailed, RowAnswered,
                ClickAnswered, SetQuality, ClearSelection, SubmitStale, Submit, Submitted,
                SubmitFailed, SessionChanges, catalogVars
  <2>2. QED BY <1>6, <2>1
<1>9. QED BY <1>7, <1>8 DEF Next

\* What a row that is loading, ready or selected needs.
RowsInv == ReadyHasOptions /\ PickedAreShown /\ ReadyIsChosen /\ LoadingIsAsked

\* What one row's step must keep for the rows to stay sound.
LEMMA OneRow ==
    ASSUME RowsInv, NEW t \in Tracks, shown \subseteq Tracks, shown' = shown,
           picked' \subseteq shown,
           picked' \subseteq picked \cup {t},
           \A u \in Tracks \ {t} : /\ quality'[u] = quality[u] /\ choice'[u] = choice[u]
                                   /\ asks'[u] = asks[u] /\ click'[u] = click[u],
           quality'[t].status = "ready" =>
              quality'[t].options # {} /\ (t \in picked' => choice'[t] \in quality'[t].options),
           quality'[t].status = "loading" => asks'[t] > 0 \/ click'[t] \in {"first", "again"}
    PROVE  RowsInv'
<1> USE DEF RowsInv, ReadyHasOptions, PickedAreShown, ReadyIsChosen, LoadingIsAsked, Ready
<1>1. ReadyHasOptions' OBVIOUS
<1>2. ReadyIsChosen'
  <2> SUFFICES ASSUME NEW u \in picked', Ready(u)'
               PROVE  choice'[u] \in quality'[u].options
    OBVIOUS
  <2>1. CASE u = t BY <2>1
  <2>2. CASE u # t BY <2>2
  <2>3. QED BY <2>1, <2>2
<1>3. LoadingIsAsked'
  <2> SUFFICES ASSUME NEW u \in Tracks, quality'[u].status = "loading"
               PROVE  asks'[u] > 0 \/ click'[u] \in {"first", "again"}
    OBVIOUS
  <2>1. CASE u = t BY <2>1
  <2>2. CASE u # t BY <2>2
  <2>3. QED BY <2>1, <2>2
<1>4. QED BY <1>1, <1>2, <1>3

\* A list that comes, or grows, brings rows that ask.
LEMMA ListsKeepRows ==
    ASSUME WorkbenchTypeOK, RowsInv, CatalogStep
    PROVE  RowsInv'
<1> USE DEF RowsInv, ReadyHasOptions, PickedAreShown, ReadyIsChosen, LoadingIsAsked, Ready
<1>1. ASSUME NEW s \in Slots, NEW R \in SUBSET Tracks, NEW more \in BOOLEAN, Opened(s, R, more)
      PROVE  RowsInv'
  BY <1>1 DEF Opened, Reset, Mounted, AskedFor, Asked, Quality, WorkbenchTypeOK
<1>2. ASSUME NEW s \in Slots, NEW R \in SUBSET Tracks, NEW more \in BOOLEAN, Appended(s, R, more)
      PROVE  RowsInv'
  BY <1>2 DEF Appended, Mounted, AskedFor, Asked, Quality, WorkbenchTypeOK
<1>3. ASSUME UNCHANGED <<rowVars, click>> PROVE RowsInv' BY <1>3 DEF rowVars
<1>4. QED
  BY <1>1, <1>2, <1>3 DEF CatalogStep, Search, LoadMore, LoadFailed, OpenAccount, SetSort, OpenPage, Open,
                          Edit

\* An answer, or a choice, leaves every other row alone and its own sound.
LEMMA RowsKeepRows ==
    ASSUME WorkbenchTypeOK, RowsInv, RowStep
    PROVE  RowsInv'
<1> USE DEF RowsInv, ReadyHasOptions, PickedAreShown, ReadyIsChosen, LoadingIsAsked, Ready, catalogVars
<1>1. ASSUME NEW t \in Tracks, NEW o \in Outcomes \cup {Quality("loading")}, Settle(t, o)
      PROVE  /\ \A u \in Tracks \ {t} : quality'[u] = quality[u] /\ choice'[u] = choice[u]
             /\ quality'[t] = o
             /\ o.status = "ready" => choice'[t] \in o.options /\ o.options # {}
             /\ o.status = "loading" => o = Quality("loading")
  <2>1. o.status = "ready" => o.options \in SUBSET Options /\ o.options # {}
    BY DEF Outcomes, Quality
  <2>2. o.status = "ready" => Ensure(t, o.options) \in o.options BY <2>1, EnsureFits
  <2>3. QED BY <1>1, <2>1, <2>2 DEF Settle, WorkbenchTypeOK, Outcomes, Quality
<1>2. ASSUME NEW t \in Tracks, NEW o \in Outcomes, RowAnswered(t, o) PROVE RowsInv'
  <2>1. o.status # "loading" BY DEF Outcomes, Quality
  <2>2. \A u \in Tracks \ {t} : asks'[u] = asks[u] BY <1>2 DEF RowAnswered, WorkbenchTypeOK
  <2>3. /\ Settle(t, o) /\ o \in Outcomes \cup {Quality("loading")}
        /\ UNCHANGED <<shown, picked, click>>
    BY <1>2 DEF RowAnswered
  <2>4. QED BY <1>1, <2>1, <2>2, <2>3, OneRow DEF WorkbenchTypeOK
<1>3. ASSUME NEW t \in Tracks, NEW o \in Outcomes, ClickAnswered(t, o) PROVE RowsInv'
  <2> DEFINE again == o.status = "stale" /\ click[t] = "first"
             p == IF again THEN Quality("loading") ELSE o
  <2>1. Settle(t, p) /\ p \in Outcomes \cup {Quality("loading")} BY <1>3 DEF ClickAnswered
  <2>2. p.status = "loading" => click'[t] = "again"
    BY <1>3 DEF ClickAnswered, Outcomes, Quality, WorkbenchTypeOK
  <2>3. \A u \in Tracks \ {t} : click'[u] = click[u] BY <1>3 DEF ClickAnswered, WorkbenchTypeOK
  <2>4. asks' = asks /\ picked' = picked /\ shown' = shown BY <1>3 DEF ClickAnswered
  <2> HIDE DEF p
  <2>5. QED BY <1>1, <2>1, <2>2, <2>3, <2>4, OneRow DEF WorkbenchTypeOK
<1>4. ASSUME NEW t \in Tracks, Ready(t) PROVE Ensure(t, quality[t].options) \in quality[t].options
  BY <1>4, EnsureFits DEF WorkbenchTypeOK
<1>5. ASSUME NEW t \in Tracks, Ask(t, TRUE) \/ Ask(t, FALSE)
      PROVE  /\ \A u \in Tracks \ {t} : quality'[u] = quality[u] /\ asks'[u] = asks[u]
             /\ quality'[t].status # "ready"
             /\ quality'[t].status = "loading" => asks'[t] > 0
  BY <1>5 DEF Ask, Asked, Quality, WorkbenchTypeOK
<1>6. ASSUME NEW t \in Tracks, Retry(t) PROVE RowsInv'
  <2>1. UNCHANGED <<shown, picked, choice, click>> /\ Ask(t, TRUE) BY <1>6 DEF Retry
  <2>2. QED BY <1>5, <2>1, OneRow DEF WorkbenchTypeOK
<1>7. ASSUME NEW t \in Tracks, Pick(t) PROVE RowsInv'
  <2>1. picked' = picked \cup {t} /\ t \in shown /\ shown' = shown /\ click' = click
    BY <1>7 DEF Pick, ChosenAgain
  <2>2. CASE MustAsk(t)
    <3>1. Ask(t, FALSE) /\ UNCHANGED choice BY <1>7, <2>2 DEF Pick, ChosenAgain
    <3>2. QED BY <1>5, <2>1, <3>1, OneRow DEF WorkbenchTypeOK
  <2>3. CASE ~MustAsk(t)
    <3>1. UNCHANGED <<quality, asks>> BY <1>7, <2>3 DEF Pick, ChosenAgain
    <3>2. \A u \in Tracks \ {t} : choice'[u] = choice[u] BY <1>7, <2>3 DEF Pick, ChosenAgain, WorkbenchTypeOK
    <3>3. Ready(t) => choice'[t] \in quality[t].options
      BY <1>4, <1>7, <2>3 DEF Pick, ChosenAgain, WorkbenchTypeOK
    <3>4. QED BY <2>1, <3>1, <3>2, <3>3, OneRow DEF WorkbenchTypeOK
  <2>4. QED BY <2>2, <2>3
<1>8. ASSUME NEW t \in Tracks, Download(t) PROVE RowsInv'
  <2>1. UNCHANGED <<shown, picked, asks>> BY <1>8 DEF Download
  <2>2. \A u \in Tracks \ {t} :
           quality'[u] = quality[u] /\ choice'[u] = choice[u] /\ click'[u] = click[u]
    BY <1>8 DEF Download, WorkbenchTypeOK
  <2>3. Ready(t)' => Ready(t) /\ quality'[t] = quality[t] /\ choice'[t] \in quality[t].options
    BY <1>4, <1>8 DEF Download, WorkbenchTypeOK, Asked, Quality, MustAsk
  <2>4. quality'[t].status = "loading" => click'[t] \in {"first", "again"} \/ quality'[t] = quality[t]
    BY <1>8 DEF Download, WorkbenchTypeOK, Asked, Quality
  <2>5. click[t] = "idle" BY <1>8 DEF Download
  <2>6. QED BY <2>1, <2>2, <2>3, <2>4, <2>5, OneRow DEF WorkbenchTypeOK
<1>9. ASSUME NEW t \in Tracks, Unpick(t) \/ Lapse(t) PROVE RowsInv'
  BY <1>9 DEF Unpick, Lapse
<1>10. ASSUME NEW t \in Tracks, Created(t) \/ CreateFailed(t) PROVE RowsInv'
  BY <1>10 DEF Created, CreateFailed, rowVars, WorkbenchTypeOK
<1>11. ASSUME NEW t \in Tracks, NEW o \in Options, SetQuality(t, o) PROVE RowsInv'
  BY <1>11 DEF SetQuality, WorkbenchTypeOK
<1>12. CASE SubmitStale BY <1>12 DEF SubmitStale, Quality, WorkbenchTypeOK
<1>13. CASE ClearSelection \/ Submit \/ Submitted \/ SubmitFailed \/ SessionChanges
  BY <1>13 DEF ClearSelection, Submit, Submitted, SubmitFailed, SessionChanges, NoChoice, rowVars
<1>14. QED
  BY <1>2, <1>3, <1>6, <1>7, <1>8, <1>9, <1>10, <1>11, <1>12, <1>13 DEF RowStep

\* The inductive invariant, and with it the types: for any tracks and requests,
\* a row that loads has asked, a menu is not empty, and requests on their way
\* belong to the list that is shown unless they crossed.
THEOREM WorkbenchInvariant == Spec => []WorkbenchInv
<1>1. Init => WorkbenchInv
  <2> SUFFICES ASSUME Init PROVE WorkbenchInv
    OBVIOUS
  <2>1. WorkbenchTypeOK BY DEF Init, WorkbenchTypeOK, NoChoice, Quality, Statuses
  <2>2. Orderly BY DEF Init, Orderly, Free
  <2>3. RowsInv
    BY DEF Init, RowsInv, ReadyHasOptions, PickedAreShown, ReadyIsChosen, LoadingIsAsked, Ready, Quality
  <2>4. QED BY <2>1, <2>2, <2>3 DEF WorkbenchInv, RowsInv
<1>2. WorkbenchInv /\ [Next]_vars => WorkbenchInv'
  <2> SUFFICES ASSUME WorkbenchInv, [Next]_vars PROVE WorkbenchInv'
    OBVIOUS
  <2>1. CASE Next
    <3>1. WorkbenchTypeOK /\ Orderly /\ RowsInv BY DEF WorkbenchInv, RowsInv
    <3>2. WorkbenchTypeOK' BY <2>1, <3>1, CatalogTypes, RowTypes DEF Next, RowsInv
    <3>3. Orderly' BY <2>1, <3>1, OrderlyStep
    <3>4. RowsInv' BY <2>1, <3>1, ListsKeepRows, RowsKeepRows DEF Next
    <3>5. QED BY <3>2, <3>3, <3>4 DEF WorkbenchInv, RowsInv
  <2>2. CASE UNCHANGED vars
    BY <2>2 DEF WorkbenchInv, vars, catalogVars, rowVars, WorkbenchTypeOK, ReadyHasOptions, Orderly,
                PickedAreShown, ReadyIsChosen, LoadingIsAsked, Free, Ready
  <2>3. QED BY <2>1, <2>2
<1>3. QED BY <1>1, <1>2, PTL DEF Spec

\* Every variable has its type, for any constants.
THEOREM WorkbenchTypes == Spec => []WorkbenchTypeOK
BY WorkbenchInvariant, PTL DEF WorkbenchInv

\* The list on the screen is the first pages of one catalog unless requests
\* crossed or the tab was headed elsewhere.
THEOREM ListsAreWhole == Spec => []ListIsWhole
<1>1. WorkbenchInv => ListIsWhole BY DEF WorkbenchInv, Orderly, ListIsWhole
<1>2. QED BY <1>1, WorkbenchInvariant, PTL

\* No selection of an earlier list survives.
THEOREM SelectionIsShown == Spec => []PickedAreShown
BY WorkbenchInvariant, PTL DEF WorkbenchInv

\* A selected track with a menu has an entry of this menu chosen.
THEOREM MenusAreChosen == Spec => []ReadyIsChosen
BY WorkbenchInvariant, PTL DEF WorkbenchInv

\* No row is left loading without a question on its way.
THEOREM RowsAsk == Spec => []LoadingIsAsked
BY WorkbenchInvariant, PTL DEF WorkbenchInv

\* What the two buttons send is an option of a snapshot that has not expired.
THEOREM SentItemsAreSound == Spec => SendsSoundItems
<1> DEFINE Sends == /\ \A t \in Tracks : click[t] # "sent" /\ click'[t] = "sent" => Sound(t)'
                    /\ batches' > batches => \A t \in picked' : Sound(t)'
<1>1. WorkbenchInv /\ [Next]_vars => [Sends]_vars
  <2> SUFFICES ASSUME WorkbenchInv, Next PROVE Sends
    OBVIOUS
  <2> USE DEF WorkbenchInv, Sound, Ready, catalogVars, rowVars
  <2>1. ASSUME UNCHANGED <<click, batches>>, batches \in Nat PROVE Sends BY <2>1
  <2>2. ASSUME NEW t \in Tracks, Download(t) PROVE Sends
    <3>1. Ready(t) => Ensure(t, quality[t].options) \in quality[t].options
      BY EnsureFits DEF ReadyHasOptions, WorkbenchTypeOK
    <3>2. /\ \A u \in Tracks \ {t} : click'[u] = click[u]
          /\ batches' = batches /\ batches \in Nat
          /\ click'[t] = "sent" => /\ Ready(t) /\ t \notin lapsed
                                   /\ choice'[t] = Ensure(t, quality[t].options)
                                   /\ quality' = quality /\ lapsed' = lapsed
      BY <2>2 DEF Download, WorkbenchTypeOK
    <3>3. QED BY <3>1, <3>2
  <2>3. ASSUME NEW t \in Tracks, NEW o \in Outcomes, ClickAnswered(t, o) PROVE Sends
    <3>1. /\ \A u \in Tracks \ {t} : click'[u] = click[u]
          /\ batches' = batches /\ batches \in Nat
      BY <2>3 DEF ClickAnswered, WorkbenchTypeOK
    <3>2. ASSUME click'[t] = "sent" PROVE o.status = "ready" /\ Settle(t, o)
      BY <2>3, <3>2 DEF ClickAnswered, WorkbenchTypeOK
    <3>3. o.status = "ready" => o.options \in SUBSET Options /\ o.options # {}
      BY DEF Outcomes, Quality
    <3>4. ASSUME click'[t] = "sent" PROVE Sound(t)'
      BY <3>2, <3>3, <3>4, EnsureFits DEF Settle, WorkbenchTypeOK
    <3>5. QED BY <3>1, <3>4
  <2>4. CASE Submit BY <2>4 DEF Submit, AllReady, ReadyIsChosen, WorkbenchTypeOK
  <2>5. ASSUME NEW t \in Tracks, Created(t) \/ CreateFailed(t) PROVE Sends
    BY <2>5 DEF Created, CreateFailed, WorkbenchTypeOK
  <2>6. CASE Submitted \/ SubmitFailed BY <2>6 DEF Submitted, SubmitFailed, WorkbenchTypeOK
  <2>7. CASE CatalogStep
    BY <2>1, <2>7 DEF WorkbenchTypeOK, CatalogStep, Search, LoadMore, LoadFailed, OpenAccount, SetSort, OpenPage, Open, Opened,
                      Appended, Edit
  <2>8. CASE RowStep
    BY <2>1, <2>2, <2>3, <2>4, <2>5, <2>6, <2>8
       DEF WorkbenchTypeOK, RowStep, Retry, Pick, ChosenAgain, Unpick, Lapse, RowAnswered, SetQuality, ClearSelection, SubmitStale,
           SessionChanges
  <2>9. QED BY <2>7, <2>8 DEF Next
<1>2. QED BY <1>1, WorkbenchInvariant, PTL DEF Spec, SendsSoundItems
=============================================================================
