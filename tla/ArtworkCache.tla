----------------------------- MODULE ArtworkCache -----------------------------
(***************************************************************************)
(* The cover of one track: ArtworkProxy of artwork.py and its callers in   *)
(* runtime.py, with the requests of Outbound for its fetches.  Covers of   *)
(* different tracks have files and memory entries of their own.            *)
(*                                                                         *)
(* The lock protects the memory entry only.  The image and its type are    *)
(* two files, each replaced atomically, read, written and removed by any   *)
(* number of threads in any order.                                         *)
(***************************************************************************)
EXTENDS Outbound

CONSTANTS
    ImageTypes,   \* what detect_image_type recognises
    TTL,
    MaxNow        \* bound: the time

Threads == {r \in Requests : Kind[r] = "cover"}

\* An image, the type it is served with, and when a fetch last put it into the cache.
Covers == [kind : ImageTypes, mime : ImageTypes, born : 0..MaxNow]

ASSUME ArtworkAssumption ==
    TTL \in Nat \ {0} /\ MaxNow \in Nat /\ None \notin ImageTypes \cup Covers

Steps == {"idle", "look", "stat", "read", "type", "keep", "drop", "dropType",
          "asking", "store", "storeType", "storeMemory", "serve"}

Holding == {"type", "keep", "store", "storeType", "storeMemory", "serve"}

VARIABLES
    now,
    image,        \* the .image file: a cover, or None
    type,         \* the .type file
    memory,       \* _memory: a cover and its expires_at, or None
    step,         \* where each thread is in fetch and cached
    tries,        \* calls of cached left: artwork makes one more than fetch
    asOf,         \* the now that cached took when it began
    got           \* the image read or fetched, in the end the one returned

entry == <<image, type, memory>>
cacheVars == <<now, entry, step, tries, asOf, got>>
allVars == <<netVars, cacheVars>>

Go(t, s) == step' = Set(step, t, s)
Return(t) ==
    /\ Go(t, "idle")
    /\ tries' = Set(tries, t, 0) /\ asOf' = Set(asOf, t, 0) /\ got' = Set(got, t, None)

-----------------------------------------------------------------------------
(* cached. *)

\* artwork and artwork_for_request begin with two calls left, prepare_request
\* with one.
Ask(t, n) ==
    /\ step[t] = "idle"
    /\ Go(t, "look")
    /\ tries' = Set(tries, t, n) /\ asOf' = Set(asOf, t, now)
    /\ UNCHANGED <<netVars, now, entry, got>>

Look(t) ==
    /\ step[t] = "look"
    /\ \/ /\ memory # None /\ memory.until > asOf[t]
          /\ Go(t, "serve")
          /\ got' = Set(got, t, memory.cover)
          /\ UNCHANGED memory
       \/ /\ ~(memory # None /\ memory.until > asOf[t])
          /\ memory' = None
          /\ Go(t, "stat")
          /\ UNCHANGED got
    /\ UNCHANGED <<netVars, now, image, type, tries, asOf>>

\* cached returns nothing: fetch calls it again and then asks the platform,
\* unless the track is not known any more.
Missed(t) ==
    \/ /\ tries[t] = 2
       /\ Go(t, "look")
       /\ tries' = Set(tries, t, 1) /\ asOf' = Set(asOf, t, now) /\ got' = Set(got, t, None)
    \/ tries[t] = 2 /\ Return(t)
    \/ /\ tries[t] = 1
       /\ Go(t, "asking")
       /\ UNCHANGED <<tries, asOf, got>>

Stat(t) ==
    /\ step[t] = "stat"
    /\ \/ image = None /\ Missed(t)
       \/ /\ image # None
          /\ Go(t, IF image.born + TTL <= asOf[t] THEN "drop" ELSE "read")
          /\ UNCHANGED <<tries, asOf, got>>
    /\ UNCHANGED <<netVars, now, entry>>

\* Another thread may have removed the file since.
NeverGone(t) == FALSE
Gone(t) == image = None

Read(t) ==
    /\ step[t] = "read"
    /\ \/ Gone(t) /\ Missed(t)
       \/ /\ ~Gone(t)
          /\ Go(t, "type")
          /\ got' = Set(got, t, image)
          /\ UNCHANGED <<tries, asOf>>
    /\ UNCHANGED <<netVars, now, entry>>

\* The type file may be another fetch's: what the image shows decides.
AnyMime(t) == TRUE
Fits(t) == got[t].kind = type

ReadType(t) ==
    /\ step[t] = "type"
    /\ \/ type = None /\ Missed(t)
       \/ /\ type # None
          /\ Go(t, IF Fits(t) THEN "keep" ELSE "drop")
          /\ got' = Set(got, t, [got[t] EXCEPT !.mime = type])
          /\ UNCHANGED <<tries, asOf>>
    /\ UNCHANGED <<netVars, now, entry>>

\* The entry lives from the beginning of the call, not from now.
FromNow(t) == now
From(t) == asOf[t]

Keep(t) ==
    /\ step[t] = "keep"
    /\ memory' = [cover |-> got[t], until |-> From(t) + TTL]
    /\ Go(t, "serve")
    /\ UNCHANGED <<netVars, now, image, type, tries, asOf, got>>

\* _delete_pair removes what is there now, which may be newer than what was read.
Drop(t) ==
    /\ step[t] = "drop"
    /\ image' = None
    /\ Go(t, "dropType")
    /\ UNCHANGED <<netVars, now, type, memory, tries, asOf, got>>

DropType(t) ==
    /\ step[t] = "dropType"
    /\ type' = None
    /\ Missed(t)
    /\ UNCHANGED <<netVars, now, image, memory>>

-----------------------------------------------------------------------------
(* fetch. *)

Fetch(t, u) ==
    /\ step[t] = "asking"
    /\ AskCover(t, u)
    /\ UNCHANGED cacheVars

Fetched(t, k) ==
    /\ step[t] = "asking" /\ at[t] = "done" /\ size[t] > 0
    /\ Forget(t)
    /\ got' = Set(got, t, [kind |-> k, mime |-> k, born |-> now])
    /\ Go(t, "store")
    /\ UNCHANGED <<now, entry, tries, asOf>>

\* The request failed, or the body is neither a JPEG nor a PNG.
NotFetched(t) ==
    /\ step[t] = "asking"
    /\ Forget(t) /\ Return(t)
    /\ UNCHANGED <<now, entry>>

Newborn(t) == [got[t] EXCEPT !.born = now]

StoreImage(t) ==
    /\ step[t] = "store"
    /\ image' = Newborn(t)
    /\ Go(t, "storeType")
    /\ UNCHANGED <<netVars, now, type, memory, tries, asOf, got>>

StoreType(t) ==
    /\ step[t] = "storeType"
    /\ type' = got[t].mime
    /\ Go(t, "storeMemory")
    /\ UNCHANGED <<netVars, now, image, memory, tries, asOf, got>>

StoreMemory(t) ==
    /\ step[t] = "storeMemory"
    /\ memory' = [cover |-> Newborn(t), until |-> now + TTL]
    /\ Go(t, "serve")
    /\ asOf' = Set(asOf, t, now) /\ got' = Set(got, t, Newborn(t))
    /\ UNCHANGED <<netVars, now, image, type, tries>>

\* A write fails, before its os.replace or at the chmod after it.
StoreFails(t) ==
    /\ step[t] \in {"store", "storeType", "storeMemory"}
    /\ Return(t)
    /\ UNCHANGED <<netVars, now, entry>>

Served(t) ==
    /\ step[t] = "serve"
    /\ Return(t)
    /\ UNCHANGED <<netVars, now, entry>>

-----------------------------------------------------------------------------
Tick ==
    /\ now < MaxNow
    /\ now' = now + 1
    /\ UNCHANGED <<netVars, entry, step, tries, asOf, got>>

\* Memory and threads go, the two files stay as they are.
Crash ==
    /\ NetCrash
    /\ memory' = None
    /\ step' = [t \in Threads |-> "idle"] /\ tries' = [t \in Threads |-> 0]
    /\ asOf' = [t \in Threads |-> 0] /\ got' = [t \in Threads |-> None]
    /\ UNCHANGED <<now, image, type>>

\* The other requests of the program, and the covers' on their way.
Network ==
    /\ \E r \in Requests :
          \/ NetStep(r)
          \/ Kind[r] # "cover" /\ (AskPlatform(r) \/ Forget(r))
    /\ UNCHANGED cacheVars

CacheInit ==
    /\ NetInit
    /\ now = 0 /\ image = None /\ type = None /\ memory = None
    /\ step = [t \in Threads |-> "idle"] /\ tries = [t \in Threads |-> 0]
    /\ asOf = [t \in Threads |-> 0] /\ got = [t \in Threads |-> None]

ThreadStep(t) ==
    \/ \E n \in {1, 2} : Ask(t, n)
    \/ Look(t) \/ Stat(t) \/ Read(t) \/ ReadType(t) \/ Keep(t) \/ Drop(t) \/ DropType(t)
    \/ \E u \in Urls : Fetch(t, u)
    \/ \E k \in ImageTypes : Fetched(t, k)
    \/ NotFetched(t) \/ StoreImage(t) \/ StoreType(t) \/ StoreMemory(t) \/ StoreFails(t)
    \/ Served(t)

CacheNext == Network \/ Tick \/ Crash \/ \E t \in Threads : ThreadStep(t)

Spec == CacheInit /\ [][CacheNext]_allVars

-----------------------------------------------------------------------------
(* Properties. *)

\* Every variable has its type, and no thread goes on with an image it has not got,
\* though the file may go between stat and read.
CacheTypeOK ==
    /\ now \in 0..MaxNow
    /\ image \in Covers \cup {None} /\ type \in ImageTypes \cup {None}
    /\ memory \in [cover : Covers, until : Nat] \cup {None}
    /\ step \in [Threads -> Steps] /\ tries \in [Threads -> 0..2]
    /\ asOf \in [Threads -> 0..MaxNow] /\ got \in [Threads -> Covers \cup {None}]
    /\ \A t \in Threads : step[t] \in Holding => got[t] # None

\* A cover is served with the type of its image, though image and type are two
\* files and other threads and crashes come between them.
ServedFits ==
    \A t \in Threads : step[t] = "serve" => got[t].kind = got[t].mime

\* A cover is served for less than twice its lifetime after a fetch put it into
\* the cache: once from the file, and once from the memory entry a late reader
\* makes of the file.
ServedIsRecent ==
    \A t \in Threads : step[t] = "serve" => asOf[t] < got[t].born + 2 * TTL
=============================================================================
