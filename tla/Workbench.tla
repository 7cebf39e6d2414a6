------------------------------ MODULE Workbench ------------------------------
(***************************************************************************)
(* The workbench of one tab: frontend/src/composables/useWorkbench.ts with *)
(* the guards of its buttons.  The tab has no sequence numbers: an answer  *)
(* is used whenever it comes, whatever was asked or chosen meanwhile.      *)
(*                                                                         *)
(* The tracks of one source are a set, a list of results is the catalog    *)
(* and the page it came from.  Not here: the titles, the messages, the     *)
(* second source's list, the hearts and the task panels.                   *)
(***************************************************************************)
EXTENDS Naturals, FiniteSets

CONSTANTS
    Tracks,
    Options,      \* exact qualities, a higher number is the preferred one
    Texts,        \* what the operator types
    Title,        \* what a list that is no search writes into the query
    Refs,         \* ids of artists and albums
    Sorts,        \* orders of the liked list
    Modes,        \* subset of {"search", "liked", "play_record", "artist", "album"}
    Slots,        \* bound: catalog requests on their way at once
    MaxPage,      \* bound: pages of a list
    MaxAsks,      \* bound: questions of a row on their way at once
    MaxBatches,   \* bound: batches of the selection on their way at once
    None

\* What a list can be asked for, a request on its way, and a list.
Catalogs ==
    [mode : {"search"}, ref : Texts \cup {Title, None}]
        \cup [mode : Modes \cap {"liked"}, ref : Sorts]
        \cup [mode : Modes \cap {"play_record"}, ref : {None}]
        \cup [mode : Modes \cap {"artist", "album"}, ref : Refs]
Loads == [of : Catalogs, page : Nat, more : BOOLEAN]
Lists == [of : Catalogs, page : Nat, more : BOOLEAN, whole : BOOLEAN]

ASSUME WorkbenchAssumption ==
    /\ Options \subseteq Nat
    /\ \A S \in (SUBSET Options) \ {{}} : \E o \in S : \A p \in S : p <= o
    /\ None \notin Options \cup Texts \cup Refs \cup {Title}
    /\ None \notin Loads /\ None \notin Lists
    /\ MaxPage \in Nat /\ MaxAsks \in Nat /\ MaxBatches \in Nat

VARIABLES
    mode, ref, query,   \* catalogMode, catalogRef, query
    sort,               \* likedSort
    searching,          \* searchState = 'loading'
    list,               \* groups: of, page, more (hasMore), and whole (history)
    load,               \* the catalog request in each slot
    crossed,            \* history: a request was sent beside another one, or
                        \* for another list than the one shown
    shown,              \* the tracks of groups
    quality,            \* qualities: status and the options of the snapshot
    lapsed,             \* tracks whose snapshot has expired
    choice, picked,     \* selectedQualityIds, selectedTracks
    asks,               \* getQualities calls of the rows on their way
    click,              \* how far downloadTrack has come
    submitting,         \* submitState = 'submitting'
    batches,            \* createBatch calls of submit on their way
    loggedIn            \* the session the tab knows of

catalogVars == <<mode, ref, query, sort, searching, list, load, crossed>>
rowVars == <<shown, quality, lapsed, choice, picked, asks>>
submission == <<submitting, batches>>
vars == <<catalogVars, rowVars, click, submission, loggedIn>>

Statuses == {"idle", "loading", "ready", "session_required", "stale", "unavailable"}
Quality(status) == [status |-> status, options |-> {}]
NoChoice == [t \in Tracks |-> None]

\* What getQualities may answer: options, or one of the failures of qualityError.
Outcomes ==
    [status : {"ready"}, options : (SUBSET Options) \ {{}}]
        \cup {Quality(s) : s \in {"stale", "session_required", "unavailable"}}

-----------------------------------------------------------------------------
(* The preferred quality of a row. *)

Preferred(S) == CHOOSE o \in S : \A p \in S : p <= o

\* ensurePreferredQuality: a choice the new options still have is kept.
Ensure(t, S) == IF choice[t] \in S THEN choice[t] ELSE Preferred(S)

Ready(t) == quality[t].status = "ready"

\* requestQuality settles what is neither idle nor stale without asking.
MustAsk(t) == quality[t].status \in {"idle", "stale"}

\* What a row shows while it asks: nobody is asked without a session.
Asked == Quality(IF loggedIn THEN "loading" ELSE "session_required")

\* An answer of getQualities to a row or to downloadTrack.
SettleReady(t, o) ==
    /\ quality' = IF o.status = "ready" THEN [quality EXCEPT ![t] = o] ELSE quality
    /\ lapsed' = lapsed \ {t}
    /\ choice' = IF o.status = "ready" THEN [choice EXCEPT ![t] = Ensure(t, o.options)]
                                       ELSE choice

Settle(t, o) ==
    /\ quality' = [quality EXCEPT ![t] = o]
    /\ lapsed' = lapsed \ {t}
    /\ choice' = IF o.status = "ready" THEN [choice EXCEPT ![t] = Ensure(t, o.options)]
                                       ELSE choice

\* requestQuality asks on behalf of a row; force skips the session check.
Ask(t, force) ==
    /\ asks[t] < MaxAsks
    /\ quality' = [quality EXCEPT ![t] = IF force THEN Quality("loading") ELSE Asked]
    /\ lapsed' = lapsed \ {t}
    /\ asks' = IF force \/ loggedIn THEN [asks EXCEPT ![t] = @ + 1] ELSE asks

-----------------------------------------------------------------------------
(* Lists of results. *)

Free(s) == load[s] = None
Busy == \E s \in Slots : ~Free(s)
Alone(s) == \A s2 \in Slots \ {s} : Free(s2)

\* The catalog loadMore asks for a page of: the one the tab is headed for, which
\* need not be the one it shows.
Heading ==
    CASE mode = "liked" -> [mode |-> mode, ref |-> sort]
      [] mode = "play_record" -> [mode |-> mode, ref |-> None]
      [] mode \in {"artist", "album"} /\ ref # None -> [mode |-> mode, ref |-> ref]
      [] OTHER -> [mode |-> "search", ref |-> query]

Open(s, c) ==
    /\ Free(s)
    /\ load' = [load EXCEPT ![s] = [of |-> c, page |-> 1, more |-> FALSE]]
    /\ crossed' = (crossed \/ Busy)
    /\ searching' = TRUE
    /\ UNCHANGED <<query, list, rowVars, click, submission, loggedIn>>

\* search: its button rests while a list is loading, and an empty query is refused.
Search(s) ==
    /\ ~searching /\ query # None
    /\ mode' = "search" /\ ref' = None
    /\ UNCHANGED sort
    /\ Open(s, [mode |-> "search", ref |-> query])

\* loadLiked and loadPlayRecord: their buttons rest as the one of search does.
OpenAccount(s, m) ==
    /\ loggedIn /\ ~searching
    /\ ref' = None
    /\ UNCHANGED <<mode, sort>>
    /\ Open(s, [mode |-> m, ref |-> IF m = "liked" THEN sort ELSE None])

\* setLikedSort: a control that never rests, and that keeps the new order
\* whether or not the list can be loaded.
SetSort(s, o) ==
    /\ mode = "liked"
    /\ sort' = o
    /\ UNCHANGED mode
    /\ \/ /\ loggedIn
          /\ ref' = None
          /\ Open(s, [mode |-> "liked", ref |-> o])
       \/ /\ ~loggedIn
          /\ searching' = FALSE
          /\ UNCHANGED <<ref, query, list, load, crossed, rowVars, click, submission, loggedIn>>

\* openArtist, openAlbum: the links of a row never rest.
OpenPage(s, m, r) ==
    /\ shown # {}
    /\ ref' = r
    /\ UNCHANGED <<mode, sort>>
    /\ Open(s, [mode |-> m, ref |-> r])

\* Rows that come to the screen ask for their quality (TrackRow: requestIfNeeded).
Mounted(R, before) ==
    [t \in Tracks |-> IF t \in R /\ before[t].status = "idle" THEN Asked ELSE before[t]]

AskedFor(R, before) ==
    [t \in Tracks |-> IF t \in R /\ before[t].status = "idle" /\ loggedIn
                      THEN asks[t] + 1 ELSE asks[t]]

\* resetResultSelection, qualities apart.
ResetKeepingPicks == lapsed' = {} /\ choice' = NoChoice /\ UNCHANGED picked
Reset == lapsed' = {} /\ choice' = NoChoice /\ picked' = {}

\* applyCatalogResponse: the list, the heading, and nothing selected.
Opened(s, R, more) ==
    /\ ~Free(s) /\ ~load[s].more
    /\ \A t \in R : asks[t] < MaxAsks
    /\ load' = [load EXCEPT ![s] = None]
    /\ mode' = load[s].of.mode
    /\ query' = IF load[s].of.mode = "search" THEN query ELSE Title
    /\ list' = [of |-> load[s].of, page |-> 1, more |-> more, whole |-> TRUE]
    /\ crossed' = ~Alone(s)
    /\ searching' = FALSE
    /\ shown' = R
    /\ quality' = Mounted(R, [t \in Tracks |-> Quality("idle")])
    /\ asks' = AskedFor(R, [t \in Tracks |-> Quality("idle")])
    /\ Reset
    /\ UNCHANGED <<ref, sort, click, submission, loggedIn>>

LoadAgain(s) ==
    /\ list # None /\ list.more
    /\ Free(s)
    /\ load' = [load EXCEPT ![s] = [of |-> Heading, page |-> list.page, more |-> TRUE]]
    /\ crossed' = (crossed \/ Busy \/ Heading # list.of)
    /\ UNCHANGED <<mode, ref, query, sort, searching, list, rowVars, click, submission, loggedIn>>

LoadMore(s) ==
    /\ list # None /\ list.more /\ list.page < MaxPage
    /\ Free(s)
    /\ load' = [load EXCEPT ![s] = [of |-> Heading, page |-> list.page + 1, more |-> TRUE]]
    /\ crossed' = (crossed \/ Busy \/ Heading # list.of)
    /\ UNCHANGED <<mode, ref, query, sort, searching, list, rowVars, click, submission, loggedIn>>

\* The page is appended to the list that is shown now.
Appended(s, R, more) ==
    /\ ~Free(s) /\ load[s].more
    /\ \A t \in R : asks[t] < MaxAsks
    /\ load' = [load EXCEPT ![s] = None]
    /\ list' = [list EXCEPT !.page = load[s].page, !.more = more,
                            !.whole = @ /\ load[s].of = list.of /\ load[s].page = list.page + 1]
    /\ shown' = shown \cup R
    /\ quality' = Mounted(R, quality)
    /\ asks' = AskedFor(R, quality)
    /\ UNCHANGED <<mode, ref, query, sort, searching, crossed, lapsed, choice, picked,
                   click, submission, loggedIn>>

\* A catalog request fails or its answer is lost.
LoadFailed(s) ==
    /\ ~Free(s)
    /\ load' = [load EXCEPT ![s] = None]
    /\ searching' = (searching /\ load[s].more)
    /\ UNCHANGED <<mode, ref, query, sort, list, crossed, rowVars, click, submission, loggedIn>>

Edit(q) ==
    /\ query' = q
    /\ UNCHANGED <<mode, ref, sort, searching, list, load, crossed, rowVars, click, submission, loggedIn>>

-----------------------------------------------------------------------------
(* Rows: the quality that was asked for, the choice, the selection. *)

\* The answer to a row's question, used whatever happened to the row meanwhile.
RowAnswered(t, o) ==
    /\ asks[t] > 0
    /\ asks' = [asks EXCEPT ![t] = @ - 1]
    /\ Settle(t, o)
    /\ UNCHANGED <<catalogVars, shown, picked, click, submission, loggedIn>>

\* The button beside a quality that is stale or unavailable.
Retry(t) ==
    /\ t \in shown /\ quality[t].status \in {"stale", "unavailable"}
    /\ Ask(t, TRUE)
    /\ UNCHANGED <<catalogVars, shown, choice, picked, click, submission, loggedIn>>

Unpick(t) ==
    /\ t \in picked
    /\ picked' = picked \ {t}
    /\ UNCHANGED <<catalogVars, shown, quality, lapsed, choice, asks, click, submission, loggedIn>>

\* toggleTrack asks for the quality of the track it selects, and a menu that is
\* there already is given a choice again: clearing the selection had taken it.
NotChosenAgain(t) == choice
ChosenAgain(t) ==
    IF Ready(t) THEN [choice EXCEPT ![t] = Ensure(t, quality[t].options)] ELSE choice

Pick(t) ==
    /\ t \in shown \ picked
    /\ picked' = picked \cup {t}
    /\ \/ /\ MustAsk(t)
          /\ Ask(t, FALSE)
          /\ UNCHANGED choice
       \/ /\ ~MustAsk(t)
          /\ choice' = ChosenAgain(t)
          /\ UNCHANGED <<quality, lapsed, asks>>
    /\ UNCHANGED <<catalogVars, shown, click, submission, loggedIn>>

SetQuality(t, o) ==
    /\ t \in shown /\ Ready(t) /\ o \in quality[t].options
    /\ choice' = [choice EXCEPT ![t] = o]
    /\ UNCHANGED <<catalogVars, shown, quality, lapsed, picked, asks, click, submission, loggedIn>>

ClearSelection ==
    /\ picked # {}
    /\ picked' = {} /\ choice' = NoChoice
    /\ UNCHANGED <<catalogVars, shown, quality, lapsed, asks, click, submission, loggedIn>>

\* The expiry of a snapshot passes.
Lapse(t) ==
    /\ Ready(t)
    /\ lapsed' = lapsed \cup {t}
    /\ UNCHANGED <<catalogVars, shown, quality, choice, picked, asks, click, submission, loggedIn>>

\* A login, a logout, or the news of one (importSession, clearSession, refreshShell).
SessionChanges ==
    /\ loggedIn' = ~loggedIn
    /\ UNCHANGED <<catalogVars, rowVars, click, submission>>

-----------------------------------------------------------------------------
(* The download button of a row: downloadTrack, its key in rowDownloadKeys  *)
(* while click[t] is not "idle".                                            *)

\* A fresh snapshot is used at once; one that expired is asked for again,
\* without a session check; a stale one is asked for with it.
Download(t) ==
    /\ t \in shown /\ click[t] = "idle"
    /\ \/ /\ Ready(t) /\ t \notin lapsed
          /\ choice' = [choice EXCEPT ![t] = Ensure(t, quality[t].options)]
          /\ click' = [click EXCEPT ![t] = "sent"]
          /\ UNCHANGED <<quality, lapsed>>
       \/ /\ Ready(t) /\ t \in lapsed
          /\ choice' = [choice EXCEPT ![t] = Ensure(t, quality[t].options)]
          /\ quality' = [quality EXCEPT ![t] = Quality("loading")]
          /\ lapsed' = lapsed \ {t}
          /\ click' = [click EXCEPT ![t] = "again"]
       \/ /\ MustAsk(t)
          /\ quality' = [quality EXCEPT ![t] = Asked]
          /\ click' = [click EXCEPT ![t] = IF loggedIn THEN "first" ELSE "idle"]
          /\ UNCHANGED <<lapsed, choice>>
    /\ UNCHANGED <<catalogVars, shown, picked, asks, submission, loggedIn>>

\* The answer downloadTrack waits for: it sends the item, asks once more after
\* a stale one, or gives up.
ClickAnswered(t, o) ==
    /\ click[t] \in {"first", "again"}
    /\ LET again == o.status = "stale" /\ click[t] = "first" IN
       /\ Settle(t, IF again THEN Quality("loading") ELSE o)
       /\ click' = [click EXCEPT ![t] = IF o.status = "ready" THEN "sent"
                                        ELSE IF again THEN "again" ELSE "idle"]
    /\ UNCHANGED <<catalogVars, shown, picked, asks, submission, loggedIn>>

\* createBatch of a row's button answers: submitState becomes 'success', also that
\* of a batch of the selection that is still on its way.
Created(t) ==
    /\ click[t] = "sent"
    /\ click' = [click EXCEPT ![t] = "idle"]
    /\ submitting' = FALSE
    /\ UNCHANGED <<catalogVars, rowVars, batches, loggedIn>>

\* It fails.
CreateFailed(t) ==
    /\ click[t] = "sent"
    /\ click' = [click EXCEPT ![t] = "idle"]
    /\ UNCHANGED <<catalogVars, rowVars, submission, loggedIn>>

-----------------------------------------------------------------------------
(* The button of the selection: submit. *)

\* readyCount = selectedCount: each selected track has options and a choice.
AllReady == picked # {} /\ \A t \in picked : Ready(t) /\ choice[t] # None

\* Expired snapshots are found out before anything is sent.
SubmitStale ==
    /\ ~submitting /\ AllReady /\ picked \cap lapsed # {}
    /\ quality' = [t \in Tracks |-> IF t \in picked \cap lapsed THEN Quality("stale")
                                                               ELSE quality[t]]
    /\ lapsed' = lapsed \ picked
    /\ UNCHANGED <<catalogVars, shown, choice, picked, asks, click, submission, loggedIn>>

SubmitUnchecked ==
    /\ ~submitting /\ AllReady /\ batches < MaxBatches
    /\ submitting' = TRUE /\ batches' = batches + 1
    /\ UNCHANGED <<catalogVars, rowVars, click, loggedIn>>

Submit ==
    /\ ~submitting /\ AllReady /\ picked \cap lapsed = {}
    /\ batches < MaxBatches
    /\ submitting' = TRUE /\ batches' = batches + 1
    /\ UNCHANGED <<catalogVars, rowVars, click, loggedIn>>

\* A batch was created: the selection is cleared, what was selected while it was on
\* its way as well.
Submitted ==
    /\ batches > 0
    /\ submitting' = FALSE /\ batches' = batches - 1
    /\ picked' = {} /\ choice' = NoChoice
    /\ UNCHANGED <<catalogVars, shown, quality, lapsed, asks, click, loggedIn>>

SubmitFailed ==
    /\ batches > 0
    /\ submitting' = FALSE /\ batches' = batches - 1
    /\ UNCHANGED <<catalogVars, rowVars, click, loggedIn>>

-----------------------------------------------------------------------------
Init ==
    /\ mode = "search" /\ ref = None /\ query = None /\ sort \in Sorts /\ searching = FALSE
    /\ list = None /\ load = [s \in Slots |-> None] /\ crossed = FALSE
    /\ shown = {} /\ quality = [t \in Tracks |-> Quality("idle")] /\ lapsed = {}
    /\ choice = NoChoice /\ picked = {}
    /\ asks = [t \in Tracks |-> 0] /\ click = [t \in Tracks |-> "idle"]
    /\ submitting = FALSE /\ batches = 0 /\ loggedIn \in BOOLEAN

CatalogStep ==
    \/ \E s \in Slots :
          \/ Search(s) \/ LoadMore(s) \/ LoadFailed(s)
          \/ \E m \in Modes \cap {"liked", "play_record"} : OpenAccount(s, m)
          \/ \E o \in Sorts : SetSort(s, o)
          \/ \E m \in Modes \cap {"artist", "album"}, r \in Refs : OpenPage(s, m, r)
          \/ \E R \in SUBSET Tracks, more \in BOOLEAN : Opened(s, R, more) \/ Appended(s, R, more)
    \/ \E q \in Texts : Edit(q)

RowStep ==
    \/ \E t \in Tracks :
          \/ Retry(t) \/ Pick(t) \/ Unpick(t) \/ Lapse(t) \/ Download(t)
          \/ Created(t) \/ CreateFailed(t)
          \/ \E o \in Outcomes : RowAnswered(t, o) \/ ClickAnswered(t, o)
          \/ \E o \in Options : SetQuality(t, o)
    \/ ClearSelection \/ SubmitStale \/ Submit \/ Submitted \/ SubmitFailed \/ SessionChanges

Next == CatalogStep \/ RowStep

Spec == Init /\ [][Next]_vars

-----------------------------------------------------------------------------
(* Properties. *)

\* Every variable has its type.
WorkbenchTypeOK ==
    /\ mode \in Modes \cup {"search"}
    /\ ref \in Refs \cup {None} /\ query \in Texts \cup {Title, None} /\ sort \in Sorts
    /\ list \in Lists \cup {None} /\ load \in [Slots -> Loads \cup {None}]
    /\ searching \in BOOLEAN /\ crossed \in BOOLEAN
    /\ shown \in SUBSET Tracks /\ lapsed \in SUBSET Tracks /\ picked \in SUBSET Tracks
    /\ quality \in [Tracks -> [status : Statuses, options : SUBSET Options]]
    /\ choice \in [Tracks -> Options \cup {None}]
    /\ asks \in [Tracks -> Nat]
    /\ click \in [Tracks -> {"idle", "first", "again", "sent"}]
    /\ submitting \in BOOLEAN /\ batches \in Nat /\ loggedIn \in BOOLEAN

\* The list on the screen is the first pages of one catalog, in order and once
\* each, unless a page was asked for beside another request or while the tab was
\* headed elsewhere (a query edited, a catalog that failed to open).
ListIsWhole == list # None /\ ~crossed => list.whole

\* Only tracks on the screen are selected: no answer, however late, leaves a
\* selection of an earlier list behind.
PickedAreShown == picked \subseteq shown

\* A selected track with a quality menu has an entry of this very menu chosen,
\* whichever answers came, were overtaken or were reset in between.
ReadyIsChosen ==
    \A t \in picked : Ready(t) => choice[t] \in quality[t].options

\* No row is left loading: a question about it is still on its way.
LoadingIsAsked ==
    \A t \in Tracks : quality[t].status = "loading" =>
        asks[t] > 0 \/ click[t] \in {"first", "again"}

\* What is sent to the queue, by a row's button or for the selection, is an
\* option of the track's current snapshot, and this one has not expired; also when
\* the same selection is sent again beside a batch that is still on its way.
Sound(t) == Ready(t) /\ t \notin lapsed /\ choice[t] \in quality[t].options

SendsSoundItems ==
    [][/\ \A t \in Tracks : click[t] # "sent" /\ click'[t] = "sent" => Sound(t)'
       /\ batches' > batches => \A t \in picked' : Sound(t)']_vars
=============================================================================
