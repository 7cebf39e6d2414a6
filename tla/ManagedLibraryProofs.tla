-------------------------- MODULE ManagedLibraryProofs --------------------------
(***************************************************************************)
(* ManagedLibrary, for any songs, qualities, jobs, failures and crashes,   *)
(* whatever the operator places at any moment, and deletes between         *)
(* publications: a registered song stays playable, the index names the     *)
(* song, no foreign file the program could see is touched, each song has   *)
(* one copy but for what an interrupted publication left, and the best     *)
(* copy stays.                                                             *)
(***************************************************************************)
EXTENDS ManagedLibrary, TLAPS

-----------------------------------------------------------------------------
(* Types. *)

Writing == {"stage", "sidecars", "replace"}
Publishing == Writing \union {"register", "remove"}

LEMMA DestinationIsPath ==
    ASSUME NEW s \in Songs, NEW q \in Qualities
    PROVE  Destination(s, q) \in Paths
  BY DEF Destination, PlainPath, OwnPath, Ext, Paths

\* The four reasons managed_decision lets a job through for.
LEMMA Reasons ==
    ASSUME NEW s \in Songs, NEW q \in Qualities, Allowed(s, q)
    PROVE  /\ Reason(s, q) \in {"new", "missing", "upgrade", "cover_missing"}
           /\ Reason(s, q) = "new" => index[s] = NoEntry
           /\ Reason(s, q) = "missing" => Missing(s)
           /\ Reason(s, q) = "upgrade" => index[s] # NoEntry /\ q > index[s].quality
<1>1. CASE index[s] = NoEntry BY <1>1 DEF Reason
<1>2. CASE index[s] # NoEntry /\ Missing(s) BY <1>2 DEF Reason
<1>3. CASE index[s] # NoEntry /\ ~Missing(s) /\ q > index[s].quality BY <1>3 DEF Reason
<1>4. CASE index[s] # NoEntry /\ ~Missing(s) /\ ~(q > index[s].quality)
  BY <1>4 DEF Reason, Allowed
<1> QED
  BY <1>1, <1>2, <1>3, <1>4

\* What a publication keeps in its locals when it starts.
LEMMA ResolvedTyped ==
    ASSUME LibraryTypeOK, NEW s \in Songs, NEW q \in Qualities, NEW art \in Covers,
           Allowed(s, q)
    PROVE  [song |-> s, quality |-> q, dest |-> Destination(s, q), old |-> Existing(s),
            was |-> index[s], reason |-> Reason(s, q), art |-> art] \in Publication
<1>1. Existing(s) \in Paths \union {NoFile} /\ index[s] \in Entries \union {NoEntry}
  BY DEF Existing, LibraryTypeOK, Entries
<1> QED
  BY <1>1, DestinationIsPath, Reasons, LibraryAssumption DEF Publication

\* Jobs come and go without the library: what they change is the job alone.
LEMMA JobsChange ==
    ASSUME NEW s \in Songs, NEW q \in Qualities,
           Submit(s, q) \/ Retry(s, q) \/ Spoil(s, q) \/ Forget(s, q)
    PROVE  JobOnly /\ \E o \in {"none", "queued", "failed"} : SetJob(s, q, o)
  BY DEF Submit, Retry, Spoil, Forget

\* The end of a publication, however it comes, keeps the types.
LEMMA EndTyped ==
    ASSUME LibraryTypeOK, Idle, NEW P \in SUBSET Paths, KeepStrays(P),
           file' \in [Paths -> Audio \union {NoFile, Foreign}], lyrics' \subseteq lyrics,
           UNCHANGED <<cover, index>>,
           job' \in [Songs -> [Qualities -> {"none", "queued", "failed"}]]
    PROVE  LibraryTypeOK'
<1>1. strays' \subseteq Paths
  BY DEF KeepStrays, LibraryTypeOK
<1>2. unseen' \subseteq Paths /\ gone' = gone /\ step' = "idle" /\ cur' = NoEntry
  BY DEF Idle, LibraryTypeOK
<1> QED
  BY <1>1, <1>2 DEF LibraryTypeOK

LEMMA FailTyped ==
    ASSUME LibraryTypeOK, step # "idle", Fail,
           file' \in [Paths -> Audio \union {NoFile, Foreign}], lyrics' \subseteq lyrics,
           UNCHANGED <<cover, index>>
    PROVE  LibraryTypeOK'
<1>1. InHand \in SUBSET Paths
  BY DEF InHand
<1>2. job' \in [Songs -> [Qualities -> {"none", "queued", "failed"}]]
  BY DEF LibraryTypeOK, Fail, SetJob, Publication
<1> QED
  BY <1>1, <1>2, EndTyped DEF Fail

\* Every effect of publish, its failure, and everything around it keep the types.
LEMMA TypesKept == LibraryTypeOK /\ [Next]_vars => LibraryTypeOK'
<1> SUFFICES ASSUME LibraryTypeOK, [Next]_vars PROVE LibraryTypeOK'
  OBVIOUS
<1>a. /\ file \in [Paths -> Audio \union {NoFile, Foreign}] /\ lyrics \subseteq lyrics
      /\ job \in [Songs -> [Qualities -> {"none", "queued", "failed"}]]
  BY DEF LibraryTypeOK
<1>1. ASSUME NEW s \in Songs, NEW q \in Qualities,
             Submit(s, q) \/ Retry(s, q) \/ Spoil(s, q) \/ Forget(s, q)
      PROVE  LibraryTypeOK'
  BY <1>1, JobsChange DEF JobOnly, SetJob, disk, history, LibraryTypeOK
<1>2. ASSUME NEW s \in Songs, NEW q \in Qualities, Resolve(s, q) PROVE LibraryTypeOK'
  <2>1. CASE SetJob(s, q, "failed") /\ UNCHANGED <<step, cur>>
    BY <1>2, <2>1 DEF Resolve, SetJob, disk, history, LibraryTypeOK
  <2>2. ASSUME NEW art \in Covers, step' = "stage", UNCHANGED job, Allowed(s, q),
               cur' = [song |-> s, quality |-> q, dest |-> Destination(s, q),
                       old |-> Existing(s), was |-> index[s],
                       reason |-> Reason(s, q), art |-> art]
        PROVE  LibraryTypeOK'
    <3>1. cur' \in Publication
      BY <2>2, ResolvedTyped
    <3> QED
      BY <1>2, <2>2, <3>1 DEF Resolve, disk, history, LibraryTypeOK
  <2> QED
    BY <1>2, <2>1, <2>2 DEF Resolve
<1>3. CASE Stage
  <2>1. CASE Fail
    BY <1>a, <1>3, <2>1, FailTyped DEF Stage, disk
  <2>2. CASE step' = "sidecars" /\ UNCHANGED <<job, cur, history>>
    BY <1>3, <2>2 DEF Stage, disk, history, LibraryTypeOK
  <2> QED
    BY <1>3, <2>1, <2>2 DEF Stage
<1>4. CASE Sidecars
  <2>1. CASE Raise /\ UNCHANGED cover
    BY <1>a, <1>4, <2>1, FailTyped DEF Sidecars, Raise
  <2>2. CASE cover' = (cover \/ cur.art) /\ step' = "replace" /\ UNCHANGED <<job, cur, history>>
    <3>1. cover' \in BOOLEAN
      BY <1>4, <2>2 DEF Sidecars, Publication, LibraryTypeOK
    <3> QED
      BY <1>4, <2>2, <3>1 DEF Sidecars, history, LibraryTypeOK
  <2> QED
    BY <1>4, <2>1, <2>2 DEF Sidecars
<1>5. CASE Replace
  <2>1. CASE Raise /\ UNCHANGED file
    BY <1>a, <1>5, <2>1, FailTyped DEF Replace, Raise
  <2>2. CASE /\ file' = [file EXCEPT ![cur.dest] = [song |-> cur.song, quality |-> cur.quality]]
             /\ step' = "register" /\ KeepStrays({}) /\ unseen' = unseen \ {cur.dest}
             /\ UNCHANGED <<job, cur, gone>>
    <3>1. cur.dest \in Paths /\ [song |-> cur.song, quality |-> cur.quality] \in Audio
      BY <1>5 DEF Replace, Publication, Audio, LibraryTypeOK
    <3>2. strays' \subseteq Paths /\ unseen' \subseteq Paths
      BY <2>2 DEF KeepStrays, LibraryTypeOK
    <3>3. file' \in [Paths -> Audio \union {NoFile, Foreign}]
      BY <2>2, <3>1 DEF LibraryTypeOK
    <3> QED
      BY <1>5, <2>2, <3>2, <3>3 DEF Replace, LibraryTypeOK
  <2> QED
    BY <1>5, <2>1, <2>2 DEF Replace
<1>6. CASE Register
  <2>1. CASE UNCHANGED index /\ Fail
    BY <1>a, <1>6, <2>1, FailTyped DEF Register, disk
  <2>2. CASE /\ index' = [index EXCEPT ![cur.song] = [quality |-> cur.quality, path |-> cur.dest]]
             /\ step' = "remove" /\ KeepStrays({}) /\ gone' = gone \ {cur.song}
             /\ UNCHANGED <<job, cur, unseen>>
    <3>1. [quality |-> cur.quality, path |-> cur.dest] \in Entries
      BY <1>6 DEF Register, Publication, Entries, LibraryTypeOK
    <3>2. strays' \subseteq Paths /\ gone' \subseteq Songs
      BY <2>2 DEF KeepStrays, LibraryTypeOK
    <3> QED
      BY <1>6, <2>2, <3>1, <3>2 DEF Register, disk, LibraryTypeOK
  <2> QED
    BY <1>6, <2>1, <2>2 DEF Register, Raise
<1>7. CASE Remove
  <2>1. file' \in [Paths -> Audio \union {NoFile, Foreign}] /\ lyrics' \subseteq lyrics
    BY <1>7 DEF Remove, RemoveOld, RemoveInPart, LibraryTypeOK
  <2>2. CASE Raise
    BY <1>7, <2>1, <2>2, FailTyped DEF Remove, Raise
  <2>3. CASE SetJob(cur.song, cur.quality, "none") /\ Idle /\ KeepStrays({})
    <3>1. job' \in [Songs -> [Qualities -> {"none", "queued", "failed"}]]
      BY <1>7, <2>3 DEF Remove, SetJob, Publication, LibraryTypeOK
    <3> QED
      BY <1>7, <2>1, <2>3, <3>1, EndTyped DEF Remove
  <2> QED
    BY <1>7, <2>2, <2>3 DEF Remove
<1>8. CASE Crash
  <2>1. InHand \in SUBSET Paths
    BY DEF InHand
  <2>2. job' \in [Songs -> [Qualities -> {"none", "queued", "failed"}]]
    BY <1>8 DEF Crash
  <2> QED
    BY <1>a, <1>8, <2>1, <2>2, EndTyped DEF Crash, disk
<1>9. CASE Operator
  <2>1. ASSUME NEW p \in Paths, Place(p) PROVE LibraryTypeOK'
    BY <2>1 DEF Place, LibraryTypeOK
  <2>2. ASSUME NEW p \in Paths, Delete(p) PROVE LibraryTypeOK'
    <3>1. strays' \subseteq Paths
      BY <2>2 DEF Delete, KeepStrays, LibraryTypeOK
    <3> QED
      BY <2>2, <3>1 DEF Delete, LibraryTypeOK
  <2>3. ASSUME NEW stem \in Songs \union {Plain}, PlaceLyrics(stem) PROVE LibraryTypeOK'
    BY <2>3 DEF PlaceLyrics, history, LibraryTypeOK
  <2> QED
    BY <1>9, <2>1, <2>2, <2>3 DEF Operator
<1>10. CASE UNCHANGED vars
  BY <1>10 DEF vars, disk, history, LibraryTypeOK
<1> QED
  BY <1>1, <1>2, <1>3, <1>4, <1>5, <1>6, <1>7, <1>8, <1>9, <1>10 DEF Next, PublishStep


-----------------------------------------------------------------------------
(* The inductive invariant. *)

\* UNIQUE(path): the index names no path twice.
PathRow ==
    \A s, t \in Songs : s # t /\ Existing(s) = Existing(t) => Existing(s) = NoFile

\* A publication writes where nothing is, over the song's own registered path, or
\* over a foreign file that came after it had looked; what it registers is there;
\* and what it will remove is the path its song has moved from and nobody else's.
DestRow ==
    /\ step \in Writing \union {"register"} =>
          cur.old = Existing(cur.song) /\ cur.was = index[cur.song]
    /\ step \in Writing =>
          \/ file[cur.dest] = NoFile
          \/ cur.dest = cur.old
          \/ file[cur.dest] = Foreign /\ cur.dest \in unseen
    /\ step \in {"register", "remove"} =>
          file[cur.dest] = [song |-> cur.song, quality |-> cur.quality]
    /\ step = "remove" =>
          /\ index[cur.song] = [quality |-> cur.quality, path |-> cur.dest]
          /\ OldIsElsewhere => \A s \in Songs : Existing(s) # cur.old

\* What managed_decision let the publication through for stays true of the version
\* it replaces.
ReasonRow ==
    step \in Publishing =>
       /\ cur.reason = "new" => cur.old = NoFile
       /\ cur.reason = "missing" =>
             /\ cur.old \in Paths
             /\ step \in Writing \/ OldIsElsewhere => file[cur.old] \notin Audio
       /\ cur.reason = "upgrade" => cur.was \in Entries /\ cur.was.quality < cur.quality

\* A foreign file at a registered path, or at the one a publication will remove,
\* is one that came unseen.
ForeignRow ==
    /\ \A p \in Paths : file[p] = Foreign /\ Registered(p) => p \in unseen
    /\ step = "remove" /\ OldIsElsewhere /\ file[cur.old] = Foreign => cur.old \in unseen

\* A copy nothing names was left by an interruption, or is in the publication's
\* hands.
StrayRow == \A p \in Paths : Stray(p) => p \in strays \union InHand

LibraryInv ==
    /\ LibraryTypeOK /\ PathRow /\ IndexNamesTheSong
    /\ DestRow /\ ReasonRow /\ ForeignRow /\ StrayRow

LEMMA LibraryInit == Init => LibraryInv
<1> SUFFICES ASSUME Init PROVE LibraryInv
  OBVIOUS
<1> USE LibraryAssumption DEF Init
<1>1. LibraryTypeOK
  BY DEF LibraryTypeOK
<1>2. PathRow /\ IndexNamesTheSong /\ DestRow /\ ReasonRow
  BY DEF PathRow, IndexNamesTheSong, DestRow, ReasonRow, Existing, Writing, Publishing
<1>3. ForeignRow /\ StrayRow
  BY DEF ForeignRow, StrayRow, Stray
<1> QED
  BY <1>1, <1>2, <1>3 DEF LibraryInv

\* Whatever ends a publication: the index stays, and a file goes at most at a path
\* no entry names.
Harmless ==
    \A p \in Paths :
       file'[p] = file[p] \/ (file'[p] = NoFile /\ \A s \in Songs : Existing(s) # p)

LEMMA EndKept ==
    ASSUME LibraryInv, LibraryTypeOK', Idle, index' = index, Harmless,
           NEW P, KeepStrays(P), \A p \in Paths : Stray(p)' => p \in strays \union P
    PROVE  LibraryInv'
<1>1. PathRow'
  BY DEF LibraryInv, PathRow, Existing
<1>2. IndexNamesTheSong'
  <2>1. ASSUME NEW s \in Songs, index[s] # NoEntry, s \notin gone
        PROVE  file'[index[s].path] \in Ours(s)
    <3>1. index[s].path \in Paths /\ Existing(s) = index[s].path /\ file[index[s].path] \in Ours(s)
      BY <2>1 DEF LibraryInv, LibraryTypeOK, IndexNamesTheSong, Entries, Existing
    <3> QED
      BY <3>1 DEF Harmless
  <2> QED
    BY <2>1 DEF IndexNamesTheSong, Idle, Ours
<1>3. DestRow' /\ ReasonRow'
  BY DEF Idle, DestRow, ReasonRow, Writing, Publishing
<1>4. ForeignRow'
  <2>1. ASSUME NEW p \in Paths, file'[p] = Foreign, Registered(p) PROVE p \in unseen'
    <3>1. file[p] = Foreign
      BY <2>1, LibraryAssumption DEF Harmless
    <3> QED
      BY <2>1, <3>1 DEF LibraryInv, ForeignRow, Idle
  <2> QED
    BY <2>1 DEF ForeignRow, Registered, Existing, Idle
<1>5. StrayRow'
  BY DEF StrayRow, KeepStrays
<1> QED
  BY <1>1, <1>2, <1>3, <1>4, <1>5 DEF LibraryInv

\* A publication that is interrupted leaves what it had in hand.
LEMMA CutKept ==
    ASSUME LibraryInv, LibraryTypeOK', Idle, index' = index, Harmless, KeepStrays(InHand)
    PROVE  LibraryInv'
<1>1. ASSUME NEW p \in Paths, Stray(p)' PROVE p \in strays \union InHand
  <2>1. Stray(p)
    BY <1>1, LibraryAssumption DEF Harmless, Stray, Existing
  <2> QED
    BY <2>1 DEF LibraryInv, StrayRow
<1> QED
  BY <1>1, EndKept

LEMMA FailKept ==
    ASSUME LibraryInv, step # "idle", Fail, Harmless, lyrics' \subseteq lyrics,
           file' \in [Paths -> Audio \union {NoFile, Foreign}], UNCHANGED <<cover, index>>
    PROVE  LibraryInv'
<1>1. LibraryTypeOK'
  BY FailTyped DEF LibraryInv
<1> QED
  BY <1>1, CutKept DEF Fail

\* Jobs, lyrics and the cover are outside the invariant.
LEMMA StillKept ==
    ASSUME LibraryInv, LibraryTypeOK', UNCHANGED <<file, index, step, cur, history>>
    PROVE  LibraryInv'
<1>1. PathRow' /\ IndexNamesTheSong' /\ ForeignRow' /\ StrayRow'
  BY DEF LibraryInv, PathRow, IndexNamesTheSong, ForeignRow, StrayRow, Stray, Existing,
     Registered, OldIsElsewhere, InHand, Ours, history
<1>2. DestRow' /\ ReasonRow'
  BY DEF LibraryInv, DestRow, ReasonRow, Existing, OldIsElsewhere, history
<1> QED
  BY <1>1, <1>2 DEF LibraryInv

\* The destination as _resolve_conflict finds it: nothing is there, or the song's
\* own registered file.
LEMMA DestinationIsOwn ==
    ASSUME NEW s \in Songs, NEW q \in Qualities, ~Occupied(s, q)
    PROVE  file[Destination(s, q)] = NoFile \/ Destination(s, q) = Existing(s)
<1>1. CASE ~Taken(PlainPath(q)) \/ Existing(s) = PlainPath(q)
  BY <1>1 DEF Destination, Taken
<1>2. CASE ~(~Taken(PlainPath(q)) \/ Existing(s) = PlainPath(q))
  BY <1>2 DEF Destination, Occupied, Taken
<1> QED
  BY <1>1, <1>2

LEMMA ResolveKept ==
    ASSUME LibraryInv, LibraryTypeOK', NEW s \in Songs, NEW q \in Qualities, Resolve(s, q)
    PROVE  LibraryInv'
<1>1. CASE SetJob(s, q, "failed") /\ UNCHANGED <<step, cur>>
  BY <1>1, StillKept DEF Resolve, disk
<1>2. ASSUME NEW art \in Covers, step = "idle", ~Occupied(s, q), Allowed(s, q),
             step' = "stage", UNCHANGED <<file, index, history>>,
             cur' = [song |-> s, quality |-> q, dest |-> Destination(s, q),
                     old |-> Existing(s), was |-> index[s],
                     reason |-> Reason(s, q), art |-> art]
      PROVE  LibraryInv'
  <2>1. /\ cur'.song = s /\ cur'.quality = q /\ cur'.dest = Destination(s, q)
        /\ cur'.old = Existing(s) /\ cur'.was = index[s] /\ cur'.reason = Reason(s, q)
    BY <1>2
  <2>2. PathRow' /\ IndexNamesTheSong' /\ ForeignRow'
    BY <1>2 DEF LibraryInv, PathRow, IndexNamesTheSong, ForeignRow, Existing, Registered,
       Ours, history
  <2>3. StrayRow'
    BY <1>2 DEF LibraryInv, StrayRow, Stray, Existing, InHand, history
  <2>4. DestRow'
    <3>1. (cur.old = Existing(cur.song) /\ cur.was = index[cur.song])'
      BY <1>2, <2>1 DEF Existing
    <3>2. file'[cur'.dest] = NoFile \/ cur'.dest = cur'.old
      BY <1>2, <2>1, DestinationIsOwn
    <3> QED
      BY <1>2, <3>1, <3>2 DEF DestRow, Writing
  <2>5. ReasonRow'
    <3>1. Reason(s, q) = "new" => Existing(s) = NoFile
      BY <1>2, Reasons DEF Existing
    <3>2. Reason(s, q) = "missing" => Existing(s) \in Paths /\ file[Existing(s)] \notin Audio
      BY <1>2, Reasons, LibraryAssumption
      DEF LibraryInv, LibraryTypeOK, Entries, Existing, Missing
    <3>3. Reason(s, q) = "upgrade" => index[s] \in Entries /\ index[s].quality < q
      <4>1. ASSUME Reason(s, q) = "upgrade" PROVE index[s] \in Entries /\ index[s].quality < q
        <5>1. index[s] # NoEntry /\ q > index[s].quality /\ index[s] \in Entries
          BY <1>2, <4>1, Reasons DEF LibraryInv, LibraryTypeOK
        <5>2. index[s].quality \in Nat /\ q \in Nat
          BY <5>1, LibraryAssumption DEF Entries
        <5> QED
          BY <5>1, <5>2
      <4> QED
        BY <4>1
    <3> QED
      BY <1>2, <2>1, <3>1, <3>2, <3>3 DEF ReasonRow
  <2> QED
    BY <2>2, <2>3, <2>4, <2>5 DEF LibraryInv
<1> QED
  BY <1>1, <1>2 DEF Resolve, disk

\* Before the replacement a publication changes nothing of the index and the songs.
LEMMA WritingKept ==
    ASSUME LibraryInv, LibraryTypeOK', step \in Writing, step' \in Writing,
           UNCHANGED <<file, index, cur, history>>
    PROVE  LibraryInv'
<1>1. PathRow' /\ IndexNamesTheSong' /\ ForeignRow'
  BY DEF LibraryInv, PathRow, IndexNamesTheSong, ForeignRow, Existing, Registered, Ours,
     history, Writing
<1>2. DestRow' /\ ReasonRow'
  BY DEF LibraryInv, DestRow, ReasonRow, Existing, OldIsElsewhere, history, Writing,
     Publishing
<1>3. StrayRow'
  BY DEF LibraryInv, StrayRow, Stray, Existing, InHand, history, Writing
<1> QED
  BY <1>1, <1>2, <1>3 DEF LibraryInv

LEMMA StageKept == LibraryInv /\ LibraryTypeOK' /\ Stage => LibraryInv'
<1> SUFFICES ASSUME LibraryInv, LibraryTypeOK', Stage PROVE LibraryInv'
  OBVIOUS
<1>1. CASE Fail
  BY <1>1, FailKept DEF Stage, disk, Harmless, LibraryInv, LibraryTypeOK
<1>2. CASE step' = "sidecars" /\ UNCHANGED <<job, cur, history>>
  BY <1>2, WritingKept DEF Stage, disk, Writing
<1> QED
  BY <1>1, <1>2 DEF Stage

LEMMA SidecarsKept == LibraryInv /\ LibraryTypeOK' /\ Sidecars => LibraryInv'
<1> SUFFICES ASSUME LibraryInv, LibraryTypeOK', Sidecars PROVE LibraryInv'
  OBVIOUS
<1>1. CASE Raise /\ UNCHANGED cover
  BY <1>1, FailKept DEF Sidecars, Raise, Harmless, LibraryInv, LibraryTypeOK
<1>2. CASE step' = "replace" /\ UNCHANGED <<job, cur, history>>
  BY <1>2, WritingKept DEF Sidecars, Writing
<1> QED
  BY <1>1, <1>2 DEF Sidecars

\* The song becomes visible, and no other entry's file is written over.
LEMMA ReplaceKept == LibraryInv /\ LibraryTypeOK' /\ Replace => LibraryInv'
<1> SUFFICES ASSUME LibraryInv, LibraryTypeOK', Replace PROVE LibraryInv'
  OBVIOUS
<1> DEFINE new == [song |-> cur.song, quality |-> cur.quality]
<1>1. CASE Raise /\ UNCHANGED file
  BY <1>1, FailKept DEF Replace, Raise, Harmless, LibraryInv, LibraryTypeOK
<1>2. CASE /\ file' = [file EXCEPT ![cur.dest] = new] /\ step' = "register"
           /\ KeepStrays({}) /\ unseen' = unseen \ {cur.dest} /\ UNCHANGED <<job, cur, gone>>
  <2>1. /\ step = "replace" /\ cur \in Publication /\ cur.dest \in Paths /\ cur.song \in Songs
        /\ new \in Audio /\ new \in Ours(cur.song) /\ new.song = cur.song /\ index' = index
        /\ new # Foreign /\ new # NoFile
    BY LibraryAssumption DEF LibraryInv, LibraryTypeOK, Replace, Publication, Audio, Ours
  <2> HIDE DEF new
  <2>2. file'[cur.dest] = new /\ \A p \in Paths : p # cur.dest => file'[p] = file[p]
    BY <1>2, <2>1 DEF LibraryInv, LibraryTypeOK
  <2>3. /\ cur.old = Existing(cur.song) /\ cur.was = index[cur.song]
        /\ \/ file[cur.dest] \in {NoFile, Foreign}
           \/ cur.dest = cur.old
    BY <2>1 DEF LibraryInv, DestRow, Writing
  <2>4. PathRow'
    BY <2>1 DEF LibraryInv, PathRow, Existing
  <2>5. IndexNamesTheSong'
    <3>1. ASSUME NEW s \in Songs, index[s] # NoEntry, s \notin gone
          PROVE  file'[index[s].path] \in Ours(s)
      <4>1. /\ index[s].path \in Paths /\ Existing(s) = index[s].path
            /\ file[index[s].path] \in Ours(s)
        BY <3>1 DEF LibraryInv, LibraryTypeOK, IndexNamesTheSong, Entries, Existing
      <4>2. CASE index[s].path = cur.dest
        <5>1. cur.dest = Existing(cur.song)
          BY <2>3, <4>1, <4>2, LibraryAssumption DEF Ours, Audio
        <5>2. s = cur.song
          BY <2>1, <4>1, <4>2, <5>1, LibraryAssumption DEF LibraryInv, PathRow
        <5> QED
          BY <2>1, <2>2, <4>2, <5>2
      <4> QED
        BY <2>2, <4>1, <4>2
    <3> QED
      BY <1>2, <2>1, <3>1 DEF IndexNamesTheSong, Ours
  <2>6. DestRow'
    BY <1>2, <2>1, <2>2, <2>3 DEF DestRow, Writing, Existing, new
  <2>7. ReasonRow'
    <3>1. OldIsElsewhere' => cur.old # cur.dest
      BY <1>2 DEF OldIsElsewhere
    <3> QED
      BY <1>2, <2>1, <2>2, <3>1 DEF LibraryInv, ReasonRow, Writing, Publishing
  <2>8. ForeignRow'
    BY <1>2, <2>1, <2>2 DEF LibraryInv, ForeignRow, Registered, Existing
  <2>9. StrayRow'
    BY <1>2, <2>1, <2>2 DEF LibraryInv, StrayRow, Stray, Existing, KeepStrays, InHand
  <2> QED
    BY <2>4, <2>5, <2>6, <2>7, <2>8, <2>9 DEF LibraryInv
<1> QED
  BY <1>1, <1>2 DEF Replace

\* The upsert names the new file, and the song's old path becomes nobody's.
LEMMA RegisterKept == LibraryInv /\ LibraryTypeOK' /\ Register => LibraryInv'
<1> SUFFICES ASSUME LibraryInv, LibraryTypeOK', Register PROVE LibraryInv'
  OBVIOUS
<1> DEFINE new == [quality |-> cur.quality, path |-> cur.dest]
<1>1. CASE UNCHANGED index /\ Fail
  BY <1>1, FailKept DEF Register, disk, Harmless, LibraryInv, LibraryTypeOK
<1>2. CASE /\ PathFree /\ index' = [index EXCEPT ![cur.song] = new] /\ step' = "remove"
           /\ KeepStrays({}) /\ gone' = gone \ {cur.song} /\ UNCHANGED <<job, cur, unseen>>
  <2>1. /\ step = "register" /\ cur \in Publication /\ cur.dest \in Paths /\ cur.song \in Songs
        /\ cur.quality \in Qualities /\ cur.old \in Paths \union {NoFile} /\ file' = file
        /\ new \in Entries /\ new # NoEntry /\ new.path = cur.dest
    BY LibraryAssumption
    DEF LibraryInv, LibraryTypeOK, Register, Publication, Entries, disk
  <2> HIDE DEF new
  <2>2. index'[cur.song] = new /\ \A s \in Songs : s # cur.song => index'[s] = index[s]
    BY <1>2, <2>1 DEF LibraryInv, LibraryTypeOK
  <2>3. \A s \in Songs : Existing(s)' = IF s = cur.song THEN cur.dest ELSE Existing(s)
    BY <1>2, <2>1, <2>2 DEF Existing
  <2>4. /\ cur.old = Existing(cur.song)
        /\ file[cur.dest] = [song |-> cur.song, quality |-> cur.quality]
    BY <2>1 DEF LibraryInv, DestRow
  <2>5. PathRow'
    BY <1>2, <2>1, <2>3 DEF LibraryInv, PathRow, PathFree
  <2>6. IndexNamesTheSong'
    BY <1>2, <2>1, <2>2, <2>4 DEF LibraryInv, IndexNamesTheSong, Ours
  <2>7. DestRow'
    <3>1. ASSUME OldIsElsewhere, NEW s \in Songs PROVE Existing(s)' # cur.old
      BY <2>1, <2>3, <2>4, <3>1 DEF LibraryInv, PathRow, OldIsElsewhere
    <3> QED
      BY <1>2, <2>1, <2>2, <2>4, <3>1 DEF DestRow, Writing, OldIsElsewhere, Existing, new
  <2>8. ReasonRow'
    BY <1>2, <2>1 DEF LibraryInv, ReasonRow, Writing, Publishing, OldIsElsewhere
  <2>9. ForeignRow'
    <3>1. ASSUME NEW p \in Paths, file[p] = Foreign, Registered(p)' PROVE p \in unseen
      <4>1. p # cur.dest
        BY <2>1, <2>4, <3>1, LibraryAssumption DEF Audio
      <4>2. Registered(p)
        BY <2>3, <3>1, <4>1 DEF Registered
      <4> QED
        BY <3>1, <4>2 DEF LibraryInv, ForeignRow
    <3>2. ASSUME OldIsElsewhere, file[cur.old] = Foreign PROVE cur.old \in unseen
      <4>1. cur.old \in Paths /\ Registered(cur.old)
        BY <2>1, <2>4, <3>2 DEF OldIsElsewhere, Registered
      <4> QED
        BY <3>2, <4>1 DEF LibraryInv, ForeignRow
    <3> QED
      BY <1>2, <2>1, <3>1, <3>2 DEF ForeignRow, OldIsElsewhere
  <2>10. StrayRow'
    <3>1. ASSUME NEW p \in Paths, Stray(p)' PROVE p \in strays \/ p = cur.old
      <4> DEFINE s == file[p].song
      <4>1. file[p] \in Audio /\ s \in Songs /\ Existing(s)' # p
        BY <2>1, <3>1 DEF Stray, Audio, Existing
      <4>2. p # cur.dest
        BY <2>1, <2>3, <2>4, <4>1
      <4>3. CASE file[p].song # cur.song
        <5>1. Stray(p)
          BY <2>1, <2>3, <4>1, <4>3 DEF Stray
        <5> QED
          BY <2>1, <4>2, <5>1 DEF LibraryInv, StrayRow, InHand
      <4>4. CASE file[p].song = cur.song /\ p # cur.old
        <5>1. Stray(p)
          BY <2>4, <4>1, <4>4 DEF Stray
        <5> QED
          BY <2>1, <4>2, <5>1 DEF LibraryInv, StrayRow, InHand
      <4> QED
        BY <4>3, <4>4
    <3> QED
      BY <1>2, <3>1 DEF StrayRow, KeepStrays, InHand
  <2> QED
    BY <2>5, <2>6, <2>7, <2>8, <2>9, <2>10 DEF LibraryInv
<1> QED
  BY <1>1, <1>2 DEF Register, Raise

\* The old path is nobody's, so what is removed there is missed by no entry.
LEMMA RemoveKept == LibraryInv /\ LibraryTypeOK' /\ Remove => LibraryInv'
<1> SUFFICES ASSUME LibraryInv, LibraryTypeOK', Remove PROVE LibraryInv'
  OBVIOUS
<1>1. /\ step = "remove" /\ index' = index /\ cover' = cover
      /\ cur.song \in Songs /\ cur.dest \in Paths
      /\ Existing(cur.song) = cur.dest
      /\ OldIsElsewhere => \A s \in Songs : Existing(s) # cur.old
  BY LibraryAssumption
  DEF Remove, LibraryInv, LibraryTypeOK, Publication, DestRow, Existing, Entries
<1>2. \/ file' = file
      \/ OldIsElsewhere /\ file' = [file EXCEPT ![cur.old] = NoFile]
  BY DEF Remove, RemoveOld, RemoveInPart
<1>3. Harmless
  BY <1>1, <1>2 DEF Harmless, LibraryInv, LibraryTypeOK
<1>4. CASE RemoveInPart /\ Raise
  <2>1. file' \in [Paths -> Audio \union {NoFile, Foreign}] /\ lyrics' \subseteq lyrics
    BY <1>2, <1>4 DEF RemoveInPart, LibraryInv, LibraryTypeOK
  <2> QED
    BY <1>1, <1>3, <1>4, <2>1, FailKept DEF Raise
<1>5. CASE RemoveOld /\ Idle /\ KeepStrays({})
  <2>1. ASSUME NEW p \in Paths, Stray(p)' PROVE p \in strays
    <3>1. Stray(p) /\ file'[p] = file[p]
      BY <1>1, <1>3, <2>1, LibraryAssumption DEF Harmless, Stray, Existing
    <3>2. p # cur.old
      <4>1. CASE OldIsElsewhere
        BY <1>5, <3>1, <4>1, LibraryAssumption
        DEF RemoveOld, LibraryInv, LibraryTypeOK, Stray
      <4>2. CASE ~OldIsElsewhere /\ p = cur.dest
        BY <1>1, <3>1, <4>2 DEF LibraryInv, DestRow, Stray
      <4>3. CASE ~OldIsElsewhere /\ p # cur.dest
        BY <4>3, LibraryAssumption DEF OldIsElsewhere
      <4> QED
        BY <4>1, <4>2, <4>3
    <3> QED
      BY <1>1, <3>1, <3>2 DEF LibraryInv, StrayRow, InHand
  <2> QED
    BY <1>1, <1>3, <1>5, <2>1, EndKept
<1> QED
  BY <1>4, <1>5 DEF Remove

LEMMA CrashKept == LibraryInv /\ LibraryTypeOK' /\ Crash => LibraryInv'
<1> SUFFICES ASSUME LibraryInv, LibraryTypeOK', Crash PROVE LibraryInv'
  OBVIOUS
<1>1. Harmless /\ index' = index
  BY DEF Crash, disk, Harmless
<1> QED
  BY <1>1, CutKept DEF Crash

\* A file of the operator's comes unseen when it comes at a registered path or
\* during a publication.
LEMMA PlaceKept ==
    ASSUME LibraryInv, LibraryTypeOK', NEW p \in Paths, Place(p)
    PROVE  LibraryInv'
<1>1. /\ file[p] = NoFile /\ file'[p] = Foreign
      /\ \A o \in Paths : o # p => file'[o] = file[o]
      /\ unseen \subseteq unseen' /\ (step # "idle" \/ Registered(p) => p \in unseen')
      /\ UNCHANGED <<index, step, cur, strays, gone>>
  BY DEF Place, LibraryInv, LibraryTypeOK
<1>2. step # "idle" => cur.dest \in Paths /\ cur.old \in Paths \union {NoFile} /\ cur.song \in Songs
  BY DEF LibraryInv, LibraryTypeOK, Publication
<1>3. PathRow'
  BY <1>1 DEF LibraryInv, PathRow, Existing
<1>4. IndexNamesTheSong'
  <2>1. ASSUME NEW s \in Songs, index[s] # NoEntry, s \notin gone
        PROVE  file'[index[s].path] \in Ours(s)
    <3>1. index[s].path \in Paths /\ file[index[s].path] \in Ours(s) /\ NoFile \notin Ours(s)
      BY <2>1, LibraryAssumption
      DEF LibraryInv, LibraryTypeOK, IndexNamesTheSong, Entries, Ours, Audio
    <3> QED
      BY <1>1, <3>1
  <2> QED
    BY <1>1, <2>1 DEF IndexNamesTheSong, Ours
<1>5. DestRow'
  <2>1. step \in {"register", "remove"} => file'[cur.dest] = file[cur.dest]
    <3>1. ASSUME step \in {"register", "remove"} PROVE cur.dest # p
      BY <1>1, <3>1, LibraryAssumption
      DEF LibraryInv, LibraryTypeOK, DestRow, Publication, Audio
    <3> QED
      BY <1>1, <1>2, <3>1
  <2>2. step \in Writing =>
           \/ file'[cur.dest] = NoFile
           \/ cur.dest = cur.old
           \/ file'[cur.dest] = Foreign /\ cur.dest \in unseen'
    BY <1>1, <1>2 DEF LibraryInv, DestRow, Writing
  <2> QED
    BY <1>1, <2>1, <2>2 DEF LibraryInv, DestRow, Existing, OldIsElsewhere, Writing
<1>6. ReasonRow'
  <2>1. \A o \in Paths : file[o] \notin Audio => file'[o] \notin Audio
    BY <1>1, LibraryAssumption
  <2> QED
    BY <1>1, <2>1 DEF LibraryInv, ReasonRow, OldIsElsewhere
<1>7. ForeignRow'
  <2>1. \A o \in Paths : file'[o] = Foreign /\ Registered(o) => o \in unseen'
    BY <1>1 DEF LibraryInv, ForeignRow
  <2>2. ASSUME step = "remove", OldIsElsewhere, file'[cur.old] = Foreign
        PROVE  cur.old \in unseen'
    BY <1>1, <1>2, <2>2 DEF LibraryInv, ForeignRow, OldIsElsewhere
  <2> QED
    BY <1>1, <2>1, <2>2 DEF ForeignRow, Registered, Existing, OldIsElsewhere
<1>8. StrayRow'
  BY <1>1, LibraryAssumption DEF LibraryInv, StrayRow, Stray, Existing, InHand
<1> QED
  BY <1>3, <1>4, <1>5, <1>6, <1>7, <1>8 DEF LibraryInv

\* Of a song whose file the operator deletes nothing is claimed until it is
\* registered again.
LEMMA DeleteKept ==
    ASSUME LibraryInv, LibraryTypeOK', NEW p \in Paths, Delete(p)
    PROVE  LibraryInv'
<1>1. /\ step = "idle" /\ file'[p] = NoFile /\ \A o \in Paths : o # p => file'[o] = file[o]
      /\ unseen' = unseen \ {p} /\ gone' = gone \union {s \in Songs : Existing(s) = p}
      /\ KeepStrays({}) /\ UNCHANGED <<index, step, cur>>
  BY DEF Delete, LibraryInv, LibraryTypeOK
<1>2. PathRow' /\ DestRow' /\ ReasonRow'
  BY <1>1 DEF LibraryInv, PathRow, DestRow, ReasonRow, Existing, Writing, Publishing
<1>3. IndexNamesTheSong'
  <2>1. ASSUME NEW s \in Songs, index[s] # NoEntry, s \notin gone, Existing(s) # p
        PROVE  file'[index[s].path] \in Ours(s)
    <3>1. /\ index[s].path \in Paths /\ Existing(s) = index[s].path
          /\ file[index[s].path] \in Ours(s)
      BY <2>1 DEF LibraryInv, LibraryTypeOK, IndexNamesTheSong, Entries, Existing
    <3> QED
      BY <1>1, <2>1, <3>1
  <2> QED
    BY <1>1, <2>1 DEF IndexNamesTheSong, Ours
<1>4. ForeignRow'
  BY <1>1, LibraryAssumption DEF LibraryInv, ForeignRow, Registered, Existing
<1>5. StrayRow'
  BY <1>1, LibraryAssumption
  DEF LibraryInv, StrayRow, Stray, Existing, InHand, KeepStrays
<1> QED
  BY <1>2, <1>3, <1>4, <1>5 DEF LibraryInv

LEMMA LibraryStep == LibraryInv /\ [Next]_vars => LibraryInv'
<1> SUFFICES ASSUME LibraryInv, [Next]_vars PROVE LibraryInv'
  OBVIOUS
<1>1. LibraryTypeOK'
  BY TypesKept DEF LibraryInv
<1>2. ASSUME NEW s \in Songs, NEW q \in Qualities,
             Submit(s, q) \/ Retry(s, q) \/ Spoil(s, q) \/ Forget(s, q)
      PROVE  LibraryInv'
  BY <1>1, <1>2, JobsChange, StillKept DEF JobOnly, disk
<1>3. CASE PublishStep
  BY <1>1, <1>3, ResolveKept, StageKept, SidecarsKept, ReplaceKept, RegisterKept, RemoveKept
  DEF PublishStep
<1>4. ASSUME NEW stem \in Songs \union {Plain}, PlaceLyrics(stem) PROVE LibraryInv'
  BY <1>1, <1>4, StillKept DEF PlaceLyrics
<1>5. CASE UNCHANGED vars
  BY <1>1, <1>5, StillKept DEF vars, disk
<1> QED
  BY <1>1, <1>2, <1>3, <1>4, <1>5, CrashKept, PlaceKept, DeleteKept DEF Next, Operator

\* The index, the directory and publish's locals stay consistent through every
\* effect of publish, its failure and a crash after it, whatever the operator
\* places and deletes: the inductive invariant.
THEOREM LibraryInvariant == Spec => []LibraryInv
  BY LibraryInit, LibraryStep, PTL DEF Spec

\* Every variable has its type, and publish's locals exist while it runs.
THEOREM LibraryTypes == Spec => []LibraryTypeOK
<1>1. LibraryInv => LibraryTypeOK
  BY DEF LibraryInv
<1> QED
  BY <1>1, LibraryInvariant, PTL

\* No song is published over, or registered at, the file of another one: an entry
\* names its song's file unless the operator deleted it.
THEOREM IndexIsTrue == Spec => []IndexNamesTheSong
<1>1. LibraryInv => IndexNamesTheSong
  BY DEF LibraryInv
<1> QED
  BY <1>1, LibraryInvariant, PTL

\* Between publications each song has one file, but for what a publication left
\* that a failure or a crash interrupted.
THEOREM SongsHaveOneCopy == Spec => []OneCopy
<1>1. LibraryInv => OneCopy
  BY DEF LibraryInv, StrayRow, OneCopy, InHand
<1> QED
  BY <1>1, LibraryInvariant, PTL

-----------------------------------------------------------------------------
(* What a step may do to the files. *)

\* The index changes at the registration only.
LEMMA IndexStays == Next /\ ~Register => index' = index
BY DEF Next, PublishStep, Submit, Retry, Spoil, Forget, JobOnly, Resolve, Stage, Sidecars,
   Replace, Remove, Crash, Operator, Place, Delete, PlaceLyrics, disk

\* The program changes the files at two moments of a publication, and the lyrics
\* at one of them.
LEMMA FilesChange ==
    ASSUME LibraryInv, [Next]_vars, ~Operator
    PROVE  \/ file' = file /\ lyrics' = lyrics
           \/ /\ Replace /\ cur.dest \in Paths /\ lyrics' = lyrics
              /\ file' = [file EXCEPT ![cur.dest] = [song |-> cur.song, quality |-> cur.quality]]
           \/ /\ Remove /\ OldIsElsewhere /\ cur.old \in Paths
              /\ file' = file \/ file' = [file EXCEPT ![cur.old] = NoFile]
              /\ lyrics' = lyrics \/ lyrics' = lyrics \ {cur.old.stem}
<1>1. CASE Replace
  BY <1>1 DEF Replace, LibraryInv, LibraryTypeOK, Publication
<1>2. CASE Remove
  <2>1. step = "remove" /\ (OldIsElsewhere => cur.old \in Paths)
    BY <1>2 DEF Remove, LibraryInv, LibraryTypeOK, Publication, OldIsElsewhere
  <2> QED
    BY <1>2, <2>1 DEF Remove, RemoveOld, RemoveInPart
<1>3. CASE ~Replace /\ ~Remove
  BY <1>3 DEF Next, PublishStep, Submit, Retry, Spoil, Forget, JobOnly, Resolve, Stage,
     Sidecars, Register, Crash, disk, vars
<1> QED
  BY <1>1, <1>2, <1>3

\* A registered song stays there to be played at every effect of every upgrade
\* (publish, register_media), through its failure and through a crash after it.
THEOREM SongsStayPlayable == Spec => PlayableStays
<1>1. ASSUME LibraryInv, Next, ~Operator, NEW s \in Songs, index[s] # NoEntry, ~Missing(s)
      PROVE  index'[s] # NoEntry /\ ~Missing(s)'
  <2>1. index[s].path \in Paths /\ file[index[s].path] # NoFile /\ Existing(s) = index[s].path
    BY <1>1 DEF LibraryInv, LibraryTypeOK, Entries, Missing, Existing
  <2>2. CASE Register
    <3>1. /\ cur.song \in Songs /\ file[cur.dest] # NoFile /\ file' = file
          /\ [quality |-> cur.quality, path |-> cur.dest] # NoEntry
          /\ \/ index' = index
             \/ index' = [index EXCEPT ![cur.song] =
                             [quality |-> cur.quality, path |-> cur.dest]]
      BY <1>1, <2>2, LibraryAssumption
      DEF Register, disk, LibraryInv, DestRow, LibraryTypeOK, Publication, Entries, Audio
    <3> QED
      BY <1>1, <2>1, <3>1 DEF LibraryInv, LibraryTypeOK, Missing
  <2>3. CASE ~Register
    <3>1. file'[index[s].path] # NoFile
      <4>1. CASE file' = file
        BY <2>1, <4>1
      <4>2. CASE /\ Replace /\ cur.dest \in Paths
                 /\ file' = [file EXCEPT ![cur.dest] = [song |-> cur.song,
                                                        quality |-> cur.quality]]
        BY <1>1, <2>1, <4>2, LibraryAssumption
        DEF Replace, LibraryInv, LibraryTypeOK, Publication, Audio
      <4>3. CASE Remove /\ OldIsElsewhere /\ file' = [file EXCEPT ![cur.old] = NoFile]
        <5>1. index[s].path # cur.old
          BY <1>1, <2>1, <4>3 DEF Remove, LibraryInv, DestRow
        <5> QED
          BY <1>1, <2>1, <4>3, <5>1 DEF LibraryInv, LibraryTypeOK
      <4> QED
        BY <1>1, <4>1, <4>2, <4>3, FilesChange
    <3>2. index' = index
      BY <1>1, <2>3, IndexStays
    <3> QED
      BY <1>1, <3>1, <3>2 DEF Missing
  <2> QED
    BY <2>2, <2>3
<1>2. LibraryInv /\ [Next]_vars =>
        [\A s \in Songs :
           index[s] # NoEntry /\ ~Missing(s) /\ ~Operator
              => index'[s] # NoEntry /\ ~Missing(s)']_vars
  BY <1>1
<1> QED
  BY <1>2, LibraryInvariant, PTL DEF Spec, PlayableStays

\* A foreign file the publication could have seen stays, and of the .lrc files
\* only the one beside the path an upgraded song has left is removed.
THEOREM ForeignFilesStay == Spec => ForeignUntouched
<1>1. ASSUME LibraryInv, [Next]_vars, ~Operator, NEW p \in Paths, file[p] = Foreign,
             p \notin unseen
      PROVE  file'[p] = Foreign
  <2>1. CASE Replace /\ cur.dest \in Paths /\ p = cur.dest
    <3>1. cur.dest = Existing(cur.song) /\ cur.song \in Songs
      BY <1>1, <2>1, LibraryAssumption
      DEF Replace, LibraryInv, DestRow, Writing, LibraryTypeOK, Publication
    <3>2. Registered(p)
      BY <2>1, <3>1 DEF Registered
    <3> QED
      BY <1>1, <3>2 DEF LibraryInv, ForeignRow
  <2>2. CASE Remove /\ OldIsElsewhere /\ p = cur.old
    BY <1>1, <2>2 DEF Remove, LibraryInv, ForeignRow
  <2> QED
    BY <1>1, <2>1, <2>2, FilesChange DEF LibraryInv, LibraryTypeOK
<1>2. ASSUME LibraryInv, [Next]_vars, ~Operator, NEW stem \in lyrics \ lyrics'
      PROVE  OldIsElsewhere /\ stem = cur.old.stem /\ Existing(cur.song) = cur.dest
  <2>1. Remove /\ OldIsElsewhere /\ stem = cur.old.stem
    BY <1>2, FilesChange
  <2>2. cur.song \in Songs /\ cur.dest \in Paths
    BY <1>2, <2>1 DEF Remove, LibraryInv, LibraryTypeOK, Publication
  <2>3. index[cur.song] = [quality |-> cur.quality, path |-> cur.dest]
    BY <1>2, <2>1 DEF Remove, LibraryInv, DestRow
  <2>4. index[cur.song] # NoEntry
    BY <1>2, <2>1, <2>2, <2>3, LibraryAssumption
    DEF Remove, LibraryInv, LibraryTypeOK, Publication, Entries
  <2> QED
    BY <2>1, <2>3, <2>4 DEF Existing
<1>3. LibraryInv /\ [Next]_vars =>
        [~Operator =>
           /\ \A p \in Paths : file[p] = Foreign /\ p \notin unseen => file'[p] = Foreign
           /\ \A stem \in lyrics \ lyrics' :
                 OldIsElsewhere /\ stem = cur.old.stem /\ Existing(cur.song) = cur.dest]_vars
  BY <1>1, <1>2
<1> QED
  BY <1>3, LibraryInvariant, PTL DEF Spec, ForeignUntouched

-----------------------------------------------------------------------------
(* Quality. *)

\* What the index becomes at the registration.
LEMMA Registration ==
    ASSUME LibraryInv, Register, NEW t \in Songs
    PROVE  /\ Existing(t)' = Existing(t) \/ (t = cur.song /\ Existing(t)' = cur.dest)
           /\ file[cur.dest] = [song |-> cur.song, quality |-> cur.quality]
<1>1. /\ cur.song \in Songs /\ [quality |-> cur.quality, path |-> cur.dest] # NoEntry
      /\ step = "register"
  BY LibraryAssumption DEF Register, LibraryInv, LibraryTypeOK, Publication, Entries
<1>2. \/ index' = index
      \/ index' = [index EXCEPT ![cur.song] = [quality |-> cur.quality, path |-> cur.dest]]
  BY DEF Register
<1>3. Existing(t)' = Existing(t) \/ (t = cur.song /\ Existing(t)' = cur.dest)
  BY <1>1, <1>2 DEF Existing, LibraryInv, LibraryTypeOK
<1> QED
  BY <1>1, <1>3 DEF LibraryInv, DestRow

LEMMA LastStep ==
    ASSUME Next, step' = "remove"
    PROVE  cur' = cur /\ step \in {"register", "remove"}
BY DEF Next, PublishStep, Submit, Retry, Spoil, Forget, JobOnly, Resolve, Stage, Sidecars,
   Replace, Register, Remove, Crash, Raise, Fail, Idle, Operator, Place, Delete, PlaceLyrics

\* No step of the program makes the index look for another song where a copy lies.
LEMMA NoNewMistake ==
    ASSUME LibraryInv, LibraryInv', Next, ~Operator,
           NEW s \in Songs, NEW p \in Paths, file[p] \in Ours(s), ~Mistaken(s, p)
    PROVE  ~Mistaken(s, p)'
<1>1. ASSUME NEW t \in Songs \ {s}, Existing(t)' = p PROVE FALSE
  <2>1. CASE Register
    BY <1>1, <2>1, Registration DEF Mistaken, Ours
  <2>2. CASE ~Register
    BY <1>1, <2>2, IndexStays DEF Mistaken, Existing
  <2> QED
    BY <2>1, <2>2
<1>2. ASSUME step' # "idle", cur'.song # s, cur'.old = p PROVE FALSE
  <2>1. cur'.song \in Songs /\ (step' # "remove" => step' \in Writing \union {"register"})
    BY <1>2 DEF LibraryInv, LibraryTypeOK, Publication, Writing
  <2>2. CASE step' # "remove"
    <3>1. (cur.old = Existing(cur.song))'
      BY <2>1, <2>2 DEF LibraryInv, DestRow
    <3>2. PICK t \in Songs : t = cur'.song
      BY <2>1
    <3>3. Existing(t)' = p
      BY <1>2, <3>1, <3>2 DEF Existing
    <3> QED
      BY <1>1, <1>2, <3>2, <3>3
  <2>3. CASE step' = "remove"
    <3>1. cur.song \in Songs /\ cur.song # s /\ cur.old = p /\ step \in {"register", "remove"}
      BY <1>2, <2>1, <2>3, LastStep
    <3>2. CASE step = "remove"
      BY <3>1, <3>2 DEF Mistaken
    <3>3. CASE step = "register"
      BY <3>1, <3>3 DEF Mistaken, LibraryInv, DestRow
    <3> QED
      BY <3>1, <3>2, <3>3
  <2> QED
    BY <2>2, <2>3
<1> QED
  BY <1>1, <1>2 DEF Mistaken

\* The copy a publication replaces is no better than what it brings.
LEMMA OldIsNoBetter ==
    ASSUME LibraryInv, NEW s \in Songs, NEW p \in Copies(s), step \in Publishing,
           p = cur.old, step = "remove" => OldIsElsewhere,
           step \in Writing \union {"remove"}, ~Repairs(s), ~Unrecorded(s, p)
    PROVE  cur.song = s /\ cur.quality >= file[p].quality
<1>1. /\ p \in Paths /\ file[p] \in Ours(s) /\ file[p] \in Audio /\ ~Mistaken(s, p)
      /\ p # NoFile /\ step # "idle"
  BY LibraryAssumption DEF Copies, Ours, Audio, Publishing, Writing
<1>2. cur.song = s
  BY <1>1 DEF Mistaken
<1>3. cur.reason = "upgrade"
  <2>1. cur.reason \in {"new", "missing", "upgrade", "cover_missing"}
    BY <1>1 DEF LibraryInv, LibraryTypeOK, Publication
  <2> QED
    BY <1>1, <1>2, <2>1 DEF LibraryInv, ReasonRow, Repairs
<1>4. cur.was \in Entries /\ cur.was.quality < cur.quality
  BY <1>3 DEF LibraryInv, ReasonRow
<1>5. ~(file[p].quality > cur.was.quality)
  <2>1. CASE step = "remove"
    BY <1>2, <2>1 DEF Unrecorded
  <2>2. CASE step \in Writing
    BY <1>2, <2>2 DEF Unrecorded, LibraryInv, DestRow
  <2> QED
    BY <2>1, <2>2
<1>6. file[p].quality \in Nat /\ cur.was.quality \in Nat /\ cur.quality \in Nat
  BY <1>1, <1>4, LibraryAssumption
  DEF Audio, Entries, LibraryInv, LibraryTypeOK, Publication
<1> QED
  BY <1>2, <1>4, <1>5, <1>6

\* A copy of a song is replaced or removed only for one at least as good, except
\* for a missing cover, when its entry does not say how good it is, and when the
\* index looks there for another song.
THEOREM QualityStays == Spec => QualityNeverDrops
<1>1. ASSUME LibraryInv, LibraryInv', Next, ~Operator, NEW s \in Songs, NEW p \in Copies(s),
             ~Repairs(s), ~Unrecorded(s, p)
      PROVE  \E r \in Copies(s)' : file'[r].quality >= file[p].quality
  <2>1. p \in Paths /\ file[p] \in Ours(s) /\ ~Mistaken(s, p) /\ file[p].quality \in Nat
        /\ file[p] \in Audio
    BY <1>1, LibraryAssumption DEF Copies, Ours, Audio
  <2>2. /\ file \in [Paths -> Audio \union {NoFile, Foreign}]
        /\ step # "idle" => cur.song \in Songs /\ cur.quality \in Qualities /\ cur.dest \in Paths
    BY <1>1 DEF LibraryInv, LibraryTypeOK, Publication
  <2>3. CASE file'[p] = file[p]
    <3>1. ~Mistaken(s, p)'
      BY <1>1, <2>1, NoNewMistake
    <3>2. p \in Copies(s)' /\ file'[p].quality >= file[p].quality
      BY <2>1, <2>3, <3>1 DEF Copies, Ours
    <3> QED
      BY <3>2
  <2>4. CASE /\ Replace /\ p = cur.dest
             /\ file' = [file EXCEPT ![cur.dest] = [song |-> cur.song, quality |-> cur.quality]]
    <3>1. /\ step = "replace" /\ index' = index /\ (cur' = cur \/ step' = "idle")
          /\ file[p] \notin {NoFile, Foreign}
      BY <2>1, <2>4, LibraryAssumption DEF Replace, Raise, Fail, Idle
    <3>2. cur.dest = cur.old /\ cur.old = Existing(cur.song)
      BY <1>1, <2>4, <3>1 DEF LibraryInv, DestRow, Writing
    <3>3. cur.song = s /\ cur.quality >= file[p].quality
      BY <1>1, <2>4, <3>1, <3>2, OldIsNoBetter DEF Publishing, Writing
    <3>4. file'[p] = [song |-> s, quality |-> cur.quality]
      BY <2>1, <2>2, <2>4, <3>3
    <3>5. ~Mistaken(s, p)'
      <4>1. ASSUME NEW t \in Songs \ {s}, Existing(t)' = p PROVE FALSE
        <5>1. Existing(t) = p
          BY <3>1, <4>1 DEF Existing
        <5> QED
          BY <2>1, <5>1 DEF Mistaken
      <4>2. step' = "idle" \/ cur'.song = s
        BY <3>1, <3>3
      <4> QED
        BY <4>1, <4>2 DEF Mistaken
    <3>6. p \in Copies(s)' /\ file'[p].quality = cur.quality
      BY <2>1, <2>2, <3>1, <3>4, <3>5 DEF Copies, Ours
    <3> QED
      BY <3>3, <3>6
  <2>5. CASE /\ Remove /\ OldIsElsewhere /\ p = cur.old
             /\ file' = [file EXCEPT ![cur.old] = NoFile]
    <3>1. step = "remove" /\ step' = "idle" /\ index' = index
      BY <2>5 DEF Remove, Raise, Fail, Idle
    <3>2. cur.song = s /\ cur.quality >= file[p].quality
      BY <1>1, <2>5, <3>1, OldIsNoBetter DEF Publishing, Writing
    <3>3. /\ file[cur.dest] = [song |-> s, quality |-> cur.quality]
          /\ Existing(s) = cur.dest
      <4>1. /\ file[cur.dest] = [song |-> cur.song, quality |-> cur.quality]
            /\ index[cur.song] = [quality |-> cur.quality, path |-> cur.dest]
        BY <1>1, <3>1 DEF LibraryInv, DestRow
      <4>2. [quality |-> cur.quality, path |-> cur.dest] # NoEntry
        BY <2>2, <3>1, LibraryAssumption DEF Entries
      <4> QED
        BY <3>2, <4>1, <4>2 DEF Existing
    <3>4. file'[cur.dest] = file[cur.dest]
      BY <2>2, <2>5, <3>1 DEF OldIsElsewhere
    <3>5. ASSUME NEW t \in Songs \ {s}, Existing(t)' = cur.dest PROVE FALSE
      <4>1. Existing(t) = cur.dest
        BY <3>1, <3>5 DEF Existing
      <4>2. Existing(s) # NoFile
        BY <2>2, <3>1, <3>3, LibraryAssumption
      <4> QED
        BY <1>1, <3>3, <4>1, <4>2 DEF LibraryInv, PathRow
    <3>6. PICK r \in Paths : r = cur.dest
      BY <2>2, <3>1
    <3>7. ~Mistaken(s, r)'
      BY <3>1, <3>5, <3>6 DEF Mistaken
    <3>8. r \in Copies(s)' /\ file'[r].quality = cur.quality
      BY <2>2, <3>1, <3>3, <3>4, <3>6, <3>7 DEF Copies, Ours
    <3> QED
      BY <3>2, <3>8
  <2> QED
    BY <1>1, <2>1, <2>2, <2>3, <2>4, <2>5, FilesChange
<1>2. LibraryInv /\ LibraryInv' /\ [Next]_vars =>
        [~Operator =>
           \A s \in Songs : \A p \in Copies(s) :
              \/ Repairs(s) \/ Unrecorded(s, p)
              \/ \E r \in Copies(s)' : file'[r].quality >= file[p].quality]_vars
  BY <1>1
<1> QED
  BY <1>2, LibraryInvariant, PTL DEF Spec, QualityNeverDrops
=============================================================================
