---------------------------- MODULE ManagedLibrary ----------------------------
(***************************************************************************)
(* The server library: MediaPublisher.publish (media/publisher.py), the    *)
(* index managed_media (db/repository.py) and the album directory they     *)
(* share with the operator and Navidrome.                                  *)
(*                                                                         *)
(* The songs of an instance are those whose normalised path is the same,   *)
(* so every publication meets the others; one album directory, one cover.  *)
(* publish runs on the event loop without an await: publications never     *)
(* overlap, but any of its effects may fail, the process may die between   *)
(* two of them, and the operator may change the directory meanwhile.       *)
(*                                                                         *)
(* Abstracted: names, tags, probing and the temporary files in the staging *)
(* root.  The pipeline passes no lyrics, so every .lrc is the operator's.  *)
(***************************************************************************)
EXTENDS Naturals, FiniteSets

CONSTANTS
    Songs,         \* platform songs (source, track id) of one normalised path
    Qualities,     \* ranks of domain.Quality
    Lossy,         \* the ranks stored as mp3; the others are flac
    MaxJobs,       \* bound: jobs in the table at once
    Covers,        \* what the artwork fetch may yield: subset of BOOLEAN
    Outside,       \* the operator's hand: subset of {"place", "delete", "lyrics"}
    Faults,        \* subset of {"crash", "error"}
    Plain, NoFile, Foreign, NoEntry

\* relative_path, or _resolve_conflict's path with the song's id appended
Paths == [stem : Songs \union {Plain}, ext : {"mp3", "flac"}]

Audio == [song : Songs, quality : Qualities]

Entries == [quality : Qualities, path : Paths]

ASSUME LibraryAssumption ==
    /\ Qualities \subseteq Nat /\ Lossy \subseteq Qualities
    /\ MaxJobs \in Nat /\ Covers \subseteq BOOLEAN
    /\ Plain \notin Songs
    /\ NoFile \notin Paths \union Audio /\ Foreign \notin Audio \union {NoFile}
    /\ NoEntry \notin Entries

VARIABLES
    file,          \* the audio file at each path: ours, foreign or none
    lyrics,        \* stems that have an .lrc
    cover,         \* the directory has cover.jpg or cover.png
    index,         \* managed_media
    job,           \* the download job of each song and quality
    step, cur,     \* publish: the effect it is at, and its local variables (cur.was,
                   \* the entry it found, is history)
    strays,        \* history: files of ours that an interrupted publication left
    unseen,        \* history: foreign files that came at a path the index names,
                   \* or while a publication was running
    gone           \* history: songs whose registered file the operator deleted

disk == <<file, lyrics, cover>>
history == <<strays, unseen, gone>>
vars == <<disk, index, job, step, cur, history>>

-----------------------------------------------------------------------------
(* Repository.managed_decision *)

Existing(s) == IF index[s] = NoEntry THEN NoFile ELSE index[s].path

Registered(p) == \E s \in Songs : Existing(s) = p

Missing(s) == index[s] # NoEntry /\ file[index[s].path] = NoFile

\* A file of ours that is not the registered one of its song.
Stray(p) == file[p] \in Audio /\ Existing(file[p].song) # p

\* `requested <= Quality(row["quality"])` refuses, unless the cover is missing.
Reason(s, q) ==
    CASE index[s] = NoEntry -> "new"
      [] Missing(s) -> "missing"
      [] index[s] # NoEntry /\ ~Missing(s) /\ q > index[s].quality -> "upgrade"
      [] OTHER -> IF cover THEN "same_or_lower" ELSE "cover_missing"

AnyQuality(s, q) == TRUE
Allowed(s, q) == Reason(s, q) # "same_or_lower"

-----------------------------------------------------------------------------
(* MediaPublisher._resolve_conflict *)

Ext(q) == IF q \in Lossy THEN "mp3" ELSE "flac"

PlainPath(q) == [stem |-> Plain, ext |-> Ext(q)]

OwnPath(s, q) == [stem |-> s, ext |-> Ext(q)]

Taken(p) == file[p] # NoFile \/ p.stem \in lyrics

\* The destination, unless it is the song's own path and that one is taken too.
AlwaysPlain(s, q) == PlainPath(q)
AnyManaged(s, q) ==
    IF ~Taken(PlainPath(q)) \/ Registered(PlainPath(q))
    THEN PlainPath(q) ELSE OwnPath(s, q)
Destination(s, q) ==
    IF ~Taken(PlainPath(q)) \/ Existing(s) = PlainPath(q)
    THEN PlainPath(q) ELSE OwnPath(s, q)

Occupied(s, q) ==
    Destination(s, q) = OwnPath(s, q) /\ Taken(OwnPath(s, q))

-----------------------------------------------------------------------------
(* Jobs: what the download queue makes of publish's outcome *)

SetJob(s, q, outcome) == job' = [job EXCEPT ![s][q] = outcome]

JobOnly == UNCHANGED <<disk, index, step, cur, history>>

\* create_batch, server delivery: an item the library already has is refused.
Submit(s, q) ==
    /\ step = "idle"
    /\ Cardinality({j \in Songs \X Qualities : job[j[1]][j[2]] # "none"}) < MaxJobs
    /\ job[s][q] = "none"
    /\ SetJob(s, q, IF Allowed(s, q) THEN "queued" ELSE "failed")
    /\ JobOnly

\* POST /tasks/{id}/retry asks the library nothing.
Retry(s, q) ==
    /\ job[s][q] = "failed"
    /\ SetJob(s, q, "queued")
    /\ JobOnly

\* What comes before publish fails: revalidation, download, artwork.
Spoil(s, q) ==
    /\ step = "idle"
    /\ job[s][q] = "queued"
    /\ SetJob(s, q, "failed")
    /\ JobOnly

\* The failed job is cleared from the history.
Forget(s, q) ==
    /\ job[s][q] = "failed"
    /\ SetJob(s, q, "none")
    /\ JobOnly

-----------------------------------------------------------------------------
(* MediaPublisher.publish *)

\* The end of publish, in success or with an exception: its locals are gone, and
\* the foreign files it overlooked will be found by the next one.
Idle ==
    /\ step' = "idle" /\ cur' = NoEntry
    /\ unseen' = {p \in unseen : file'[p] = Foreign /\ Registered(p)}
    /\ UNCHANGED gone

\* The files of ours that are nobody's registered one, with those of P.
KeepStrays(P) == strays' = {p \in strays \union P : Stray(p)'}

\* Where publish puts or leaves a second file of its song for a while.
InHand ==
    {p \in Paths : (step = "register" /\ p = cur.dest) \/ (step = "remove" /\ p = cur.old)}

\* publish raises: the job fails, and what has been done stays.
Fail == SetJob(cur.song, cur.quality, "failed") /\ Idle /\ KeepStrays(InHand)

\* An effect of publish raises before it is done: OSError, sqlite3.Error.
Raise == "error" \in Faults /\ Fail

\* The destination is resolved, then the index is asked again.
Resolve(s, q) ==
    /\ step = "idle" /\ job[s][q] = "queued"
    /\ \/ /\ Occupied(s, q) \/ ~Allowed(s, q)
          /\ SetJob(s, q, "failed")
          /\ UNCHANGED <<step, cur>>
       \/ /\ ~Occupied(s, q) /\ Allowed(s, q)
          /\ step' = "stage"
          /\ \E art \in Covers :
                cur' = [song |-> s, quality |-> q, dest |-> Destination(s, q),
                        old |-> Existing(s), was |-> index[s],
                        reason |-> Reason(s, q), art |-> art]
          /\ UNCHANGED job
    /\ UNCHANGED <<disk, index, history>>

\* Copying and tagging in the staging directories; a failure leaves the library
\* as it was.
Stage ==
    /\ step = "stage"
    /\ UNCHANGED <<disk, index>>
    /\ \/ step' = "sidecars" /\ UNCHANGED <<job, cur, history>>
       \/ Fail

\* The cover goes first, and never replaces one that is there.
Sidecars ==
    /\ step = "sidecars"
    /\ UNCHANGED <<file, lyrics, index>>
    /\ \/ /\ cover' = (cover \/ cur.art)
          /\ step' = "replace"
          /\ UNCHANGED <<job, cur, history>>
       \/ UNCHANGED cover /\ Raise

\* os.replace, the moment Navidrome sees the song
Replace ==
    /\ step = "replace"
    /\ UNCHANGED <<lyrics, cover, index>>
    /\ \/ /\ file' = [file EXCEPT ![cur.dest] = [song |-> cur.song, quality |-> cur.quality]]
          /\ step' = "register"
          /\ KeepStrays({})
          /\ unseen' = unseen \ {cur.dest}
          /\ UNCHANGED <<job, cur, gone>>
       \/ UNCHANGED file /\ Raise

\* UNIQUE(path): the upsert fails when another song's entry has the path.
PathFree == \A t \in Songs \ {cur.song} : Existing(t) # cur.dest

\* The directory is synced, then register_media: an upsert of the song's one entry.
Register ==
    /\ step = "register"
    /\ UNCHANGED disk
    /\ \/ /\ PathFree
          /\ index' = [index EXCEPT ![cur.song] = [quality |-> cur.quality, path |-> cur.dest]]
          /\ step' = "remove"
          /\ KeepStrays({})
          /\ gone' = gone \ {cur.song}
          /\ UNCHANGED <<job, cur, unseen>>
       \/ UNCHANGED index /\ ((~PathFree /\ Fail) \/ Raise)

\* The replaced version goes, with the .lrc beside it, and the job is done.
OldIsElsewhere == cur.old \notin {NoFile, cur.dest}

RemoveAlways ==
    /\ file' = IF cur.old = NoFile THEN file ELSE [file EXCEPT ![cur.old] = NoFile]
    /\ UNCHANGED lyrics
KeepOld == UNCHANGED <<file, lyrics>>
RemoveOld ==
    IF OldIsElsewhere
    THEN /\ file' = [file EXCEPT ![cur.old] = NoFile]
         /\ lyrics' = lyrics \ {cur.old.stem}
    ELSE UNCHANGED <<file, lyrics>>

\* Either unlink may raise.
RemoveInPart ==
    /\ OldIsElsewhere
    /\ file' \in {file, [file EXCEPT ![cur.old] = NoFile]}
    /\ UNCHANGED lyrics

Remove ==
    /\ step = "remove"
    /\ UNCHANGED <<cover, index>>
    /\ \/ /\ RemoveOld
          /\ SetJob(cur.song, cur.quality, "none")
          /\ Idle
          /\ KeepStrays({})
       \/ RemoveInPart /\ Raise

PublishStep ==
    \/ \E s \in Songs, q \in Qualities : Resolve(s, q)
    \/ Stage \/ Sidecars \/ Replace \/ Register \/ Remove

\* The process dies and is started again.  Every job loses the quality snapshot
\* it is bound to, which is kept in memory only: recovered or retried, it fails
\* before it comes to publish.  The user submits the song anew.
Crash ==
    /\ "crash" \in Faults
    /\ UNCHANGED <<disk, index>>
    /\ job' = [s \in Songs |-> [q \in Qualities |-> "none"]]
    /\ Idle
    /\ KeepStrays(InHand)

-----------------------------------------------------------------------------
(* The operator, outside the program *)

\* A file of the operator's own, at a name the program would choose, at any moment.
Place(p) ==
    /\ "place" \in Outside
    /\ file[p] = NoFile
    /\ file' = [file EXCEPT ![p] = Foreign]
    /\ unseen' = IF step # "idle" \/ Registered(p) THEN unseen \union {p} ELSE unseen
    /\ UNCHANGED <<lyrics, cover, index, job, step, cur, strays, gone>>

PlaceLyrics(stem) ==
    /\ "lyrics" \in Outside
    /\ lyrics' = lyrics \union {stem}
    /\ UNCHANGED <<file, cover, index, job, step, cur, history>>

Delete(p) ==
    /\ "delete" \in Outside /\ step = "idle"
    /\ file[p] # NoFile
    /\ file' = [file EXCEPT ![p] = NoFile]
    /\ UNCHANGED <<lyrics, cover, index, job, step, cur>>
    /\ KeepStrays({})
    /\ unseen' = unseen \ {p}
    /\ gone' = gone \union {s \in Songs : Existing(s) = p}

Operator ==
    \/ \E p \in Paths : Place(p) \/ Delete(p)
    \/ \E stem \in Songs \union {Plain} : PlaceLyrics(stem)

-----------------------------------------------------------------------------

Init ==
    /\ file = [p \in Paths |-> NoFile]
    /\ lyrics = {} /\ cover = FALSE
    /\ index = [s \in Songs |-> NoEntry]
    /\ job = [s \in Songs |-> [q \in Qualities |-> "none"]]
    /\ step = "idle" /\ cur = NoEntry
    /\ strays = {} /\ unseen = {} /\ gone = {}

Next ==
    \/ \E s \in Songs, q \in Qualities :
          Submit(s, q) \/ Retry(s, q) \/ Spoil(s, q) \/ Forget(s, q)
    \/ PublishStep
    \/ Crash
    \/ Operator

Spec == Init /\ [][Next]_vars

-----------------------------------------------------------------------------
(* Properties *)

Publication ==
    [song : Songs, quality : Qualities, dest : Paths, old : Paths \union {NoFile},
     was : Entries \union {NoEntry},
     reason : {"new", "missing", "upgrade", "cover_missing"}, art : BOOLEAN]

\* Every variable has its type, and publish's local variables exist while it runs.
LibraryTypeOK ==
    /\ file \in [Paths -> Audio \union {NoFile, Foreign}]
    /\ lyrics \subseteq Songs \union {Plain} /\ cover \in BOOLEAN
    /\ index \in [Songs -> Entries \union {NoEntry}]
    /\ job \in [Songs -> [Qualities -> {"none", "queued", "failed"}]]
    /\ step \in {"idle", "stage", "sidecars", "replace", "register", "remove"}
    /\ IF step = "idle" THEN cur = NoEntry ELSE cur \in Publication
    /\ strays \subseteq Paths /\ unseen \subseteq Paths /\ gone \subseteq Songs

Ours(s) == [song : {s}, quality : Qualities]

\* The file an index entry names is there and is that song's, whatever failed in
\* between and whatever became of the others: only the operator's deleting this
\* very file makes it untrue, until the song is registered again.
IndexNamesTheSong ==
    \A s \in Songs : index[s] # NoEntry /\ s \notin gone => file[index[s].path] \in Ours(s)

\* A registered song is always there to be played, at every moment of an upgrade
\* and after a failure or a crash at any of them; only the operator takes it away.
PlayableStays ==
    [][\A s \in Songs :
         index[s] # NoEntry /\ ~Missing(s) /\ ~Operator => index'[s] # NoEntry /\ ~Missing(s)']_vars

\* A file the program did not write is not replaced or removed by it, unless it
\* came after the running publication had looked, or at a path the index names
\* (`unseen`).  Of the .lrc files, which are not the program's either, it removes
\* the one beside the path an upgraded song has just been registered away from.
ForeignUntouched ==
    [][~Operator =>
         /\ \A p \in Paths : file[p] = Foreign /\ p \notin unseen => file'[p] = Foreign
         /\ \A stem \in lyrics \ lyrics' :
               OldIsElsewhere /\ stem = cur.old.stem /\ Existing(cur.song) = cur.dest]_vars

\* A copy better than its entry says: a publication that was interrupted between
\* replacement and registration leaves one at a registered path.  It stays one for
\* the publication that moves the song away (cur.was is the entry it began with).
Unrecorded(s, p) ==
    \/ p = Existing(s) /\ file[p].quality > index[s].quality
    \/ /\ step = "remove" /\ cur.song = s /\ p = cur.old /\ OldIsElsewhere
       /\ file[p].quality > cur.was.quality

\* A copy at a path that another song's entry names, or named when the running
\* publication began: the other song's missing file was replaced by it.
Mistaken(s, p) ==
    \/ \E t \in Songs \ {s} : Existing(t) = p
    \/ step # "idle" /\ cur.song # s /\ cur.old = p

Copies(s) == {p \in Paths : file[p] \in Ours(s) /\ ~Mistaken(s, p)}

\* A publication that was let through because the directory has no cover.
Repairs(s) == step # "idle" /\ cur.song = s /\ cur.reason = "cover_missing"

\* Each copy of a song stays, or one at least as good is there after the step: no
\* step of the program, whatever jobs were queued before and wherever one was
\* interrupted, replaces or removes it otherwise.  A copy is lost in three cases
\* only: a job fetches the song again for a missing cover; it is better than its
\* entry says; it lies where the index looks for another song.
QualityNeverDrops ==
    [][~Operator =>
         \A s \in Songs : \A p \in Copies(s) :
            \/ Repairs(s) \/ Unrecorded(s, p)
            \/ \E r \in Copies(s)' : file'[r].quality >= file[p].quality]_vars

\* Between publications each song has one file in the library, the registered
\* one: another is what a publication left that a failure (fsync, register_media,
\* unlink) or a crash interrupted between the replacement and its end, and it is
\* the file this publication had placed or was to remove.
OneCopy == step = "idle" => \A p \in Paths : Stray(p) => p \in strays
=============================================================================
