------------------------------- MODULE AccountLists -------------------------------
(***************************************************************************)
(* The liked songs of the NetEase account in runtime.py: two caches bound  *)
(* to a session version, filled by fetches that run without a lock, and    *)
(* the like button that writes to the platform and then to the caches.     *)
(* It runs over PlatformSessions, whose steps are steps here.              *)
(*                                                                         *)
(* Requests are threads; each section under _liked_lock is one action.  A  *)
(* page of the list asks for the hearts as well, like a second request.    *)
(* The play record cache has the version in its key and is left out.       *)
(***************************************************************************)
EXTENDS PlatformSessions

CONSTANTS
    Accounts, AccountOf,   \* accounts of the platform; whose each login is
    Tracks,        \* songs that can be liked
    Requests       \* list and like requests in progress at once

ASSUME ListsAssumption == AccountOf \in [1..MaxLogins -> Accounts]

VARIABLES
    at, want,      \* where a request is, and what it is for
    holds,         \* the material it has loaded
    got,           \* the list it has fetched, or the song it has changed
    liked,         \* the platform's liked songs of each account
    ids, list,     \* _liked_ids_cache, _liked_cache
    raced          \* history: a like has overlapped another request

requestVars == <<at, want, holds, got>>
cacheVars == <<liked, ids, list, raced>>
listVars == <<requestVars, cacheVars>>
allVars == <<vars, listVars>>

NoCache == [session |-> Absent, tracks |-> {}]

Account(r) == AccountOf[holds[r].login]

-----------------------------------------------------------------------------

Move(r, s) == at' = [at EXCEPT ![r] = s]
Leave(r) ==
    /\ Move(r, "idle")
    /\ want' = [want EXCEPT ![r] = "ids"]
    /\ holds' = [holds EXCEPT ![r] = Absent]
    /\ got' = [got EXCEPT ![r] = {}]

Lists == {"ids", "list"}
Likes == {"like", "unlike"}

\* sessions.material, then the cache or the platform.
Begin(r, w) ==
    /\ at[r] = "idle"
    /\ LoggedIn /\ Noting
    /\ holds' = [holds EXCEPT ![r] = file]
    /\ Move(r, IF w \in Lists THEN "look" ELSE "write")
    /\ want' = [want EXCEPT ![r] = w]
    /\ UNCHANGED <<file, readable, logins, jobVars, using, got, cacheVars>>

\* Only the versions are compared.
Hit(r) ==
    holds[r].version = IF want[r] = "ids" THEN ids.session.version ELSE list.session.version

Look(r) ==
    /\ at[r] = "look"
    /\ IF Hit(r) THEN Leave(r) ELSE Move(r, "fetch") /\ UNCHANGED <<want, holds, got>>
    /\ UNCHANGED <<vars, cacheVars>>

\* The account's liked playlist, as the platform has it.
Fetched(r) == liked[Account(r)]

Fetch(r) ==
    /\ at[r] = "fetch"
    /\ got' = [got EXCEPT ![r] = Fetched(r)]
    /\ Move(r, "store")
    /\ UNCHANGED <<vars, want, holds, cacheVars>>

\* The full list fills both caches.
Store(r) ==
    LET fetched == [session |-> holds[r], tracks |-> got[r]] IN
    /\ at[r] = "store"
    /\ ids' = fetched
    /\ list' = IF want[r] = "list" THEN fetched ELSE list
    /\ Leave(r)
    /\ UNCHANGED <<vars, liked, raced>>

Toggled(r, set, t) == IF want[r] = "like" THEN set \union {t} ELSE set \ {t}

\* A like is written while another request is between reading or writing the
\* same list and the caches, or under a session that has been replaced.
Races(r) ==
    \/ holds[r] # file
    \/ \E q \in Requests \ {r} : at[q] \in {"store", "apply"} /\ Account(q) = Account(r)

SetLike(r, t) == liked' = [liked EXCEPT ![Account(r)] = Toggled(r, @, t)]

\* set_like on the platform; when its answer is lost the caches keep what they
\* have.
Write(r, t) ==
    /\ at[r] = "write"
    /\ SetLike(r, t)
    /\ \/ /\ Move(r, "apply")
          /\ got' = [got EXCEPT ![r] = {t}]
          /\ raced' = (raced \/ Races(r))
          /\ UNCHANGED <<want, holds>>
       \/ "failure" \in Faults /\ Leave(r) /\ raced' = TRUE
    /\ UNCHANGED <<vars, ids, list>>

\* _apply_liked_id_change; got holds one song.
ApplyToIds(r) ==
    /\ at[r] = "apply"
    /\ IF ids.session.version = holds[r].version
       THEN \E t \in got[r] : ids' = [ids EXCEPT !.tracks = Toggled(r, @, t)]
       ELSE UNCHANGED ids
    /\ Leave(r)
    /\ UNCHANGED <<vars, liked, list, raced>>
Apply(r) ==
    /\ at[r] = "apply"
    /\ IF ids.session.version = holds[r].version
       THEN \E t \in got[r] : ids' = [ids EXCEPT !.tracks = Toggled(r, @, t)]
       ELSE UNCHANGED ids
    /\ list' = IF list.session.version = holds[r].version THEN NoCache ELSE list
    /\ Leave(r)
    /\ UNCHANGED <<vars, liked, raced>>

\* The platform refuses, or does not answer.
GiveUp(r) ==
    /\ at[r] \in {"fetch", "write"}
    /\ Leave(r)
    /\ UNCHANGED <<vars, cacheVars>>

\* The five minutes of a cache are over.
IdsExpire == ids' = NoCache /\ UNCHANGED <<vars, requestVars, liked, list, raced>>
ListExpires == list' = NoCache /\ UNCHANGED <<vars, requestVars, liked, ids, raced>>

\* The process dies, and these threads and caches with it.
Restart ==
    /\ Crash
    /\ at' = [r \in Requests |-> "idle"]
    /\ want' = [r \in Requests |-> "ids"]
    /\ holds' = [r \in Requests |-> Absent]
    /\ got' = [r \in Requests |-> {}]
    /\ ids' = NoCache /\ list' = NoCache
    /\ UNCHANGED <<liked, raced>>

ListsInit ==
    /\ Init
    /\ at = [r \in Requests |-> "idle"]
    /\ want = [r \in Requests |-> "ids"]
    /\ holds = [r \in Requests |-> Absent]
    /\ got = [r \in Requests |-> {}]
    /\ liked = [a \in Accounts |-> {}]
    /\ ids = NoCache /\ list = NoCache
    /\ raced = FALSE

RequestStep(r) ==
    \/ \E w \in Lists \union Likes : Begin(r, w)
    \/ Look(r) \/ Fetch(r) \/ Store(r) \/ Apply(r) \/ GiveUp(r)
    \/ \E t \in Tracks : Write(r, t)

ListsNext ==
    \/ SessionStep /\ UNCHANGED listVars
    \/ \E j \in Jobs : JobStep(j) /\ UNCHANGED listVars
    \/ \E r \in Requests : RequestStep(r)
    \/ IdsExpire \/ ListExpires
    \/ Restart

ListsSpec == ListsInit /\ [][ListsNext]_allVars

-----------------------------------------------------------------------------
(* Properties *)

Cache == [session : Session, tracks : SUBSET Tracks]

\* Every variable has its type; a request holds a login while it runs.
ListsTypeOK ==
    /\ at \in [Requests -> {"idle", "look", "fetch", "store", "write", "apply"}]
    /\ want \in [Requests -> Lists \union Likes]
    /\ holds \in [Requests -> Session]
    /\ \A r \in Requests :
          IF at[r] = "idle" THEN holds[r] = Absent ELSE holds[r].login \in 1..logins
    /\ got \in [Requests -> SUBSET Tracks]
    /\ liked \in [Accounts -> SUBSET Tracks]
    /\ ids \in Cache /\ list \in Cache
    /\ raced \in BOOLEAN

\* A request served from a cache, or applying its like to one, meets the list of
\* its own login: the caches compare versions only, while sessions come and go
\* under requests that are on the network.
CachesKeepAccounts ==
    \A r \in Requests, c \in {ids, list} :
        at[r] # "idle" /\ c.session.version = holds[r].version => c.session = holds[r]

\* Why: what requests and caches hold is known to the session, and no two of
\* them share a version without sharing the login.
ListsHold ==
    ({holds[r] : r \in Requests} \union {ids.session, list.session}) \ {Absent}

ListsInv ==
    /\ SessionInv
    /\ ListsTypeOK
    /\ \A s \in ListsHold : Known(s)
    /\ \A s, u \in ListsHold : s.version = u.version => s = u

\* Under the present session the hearts and the liked list agree with the
\* platform once a like has been applied, unless one has met another request
\* on the list or its answer was lost.
HeartsAgree ==
    \/ raced
    \/ \A c \in {ids, list} :
          \/ c.session # file \/ c = NoCache
          \/ c.tracks = liked[AccountOf[c.session.login]]
          \/ \E r \in Requests :
                at[r] = "apply" /\ Account(r) = AccountOf[c.session.login]

\* Why: until a like races, what a request has fetched is what the platform has,
\* one like at most is on its way to the caches of an account, and a cache of the
\* present session differs from the platform by that like alone.
FetchedRow == \A r \in Requests : at[r] = "store" => got[r] = liked[Account(r)]

AppliedRow ==
    \A r \in Requests : at[r] = "apply" =>
        \A t \in got[r] : Toggled(r, liked[Account(r)], t) = liked[Account(r)]

OneApplies ==
    \A r, q \in Requests :
        at[r] = "apply" /\ at[q] = "apply" /\ Account(r) = Account(q) => r = q

AboutToChange(r, c) ==
    /\ at[r] = "apply" /\ holds[r] = c.session
    /\ \A t \in got[r] : Toggled(r, c.tracks, t) = liked[Account(r)]

AgreesButForOne(c) ==
    \/ c.session # file \/ c = NoCache
    \/ c.tracks = liked[AccountOf[c.session.login]]
    \/ \E r \in Requests : AboutToChange(r, c)

\* The inductive invariant behind HeartsAgree.
HeartsInv ==
    /\ ListsInv
    /\ \A c \in {ids, list} : c.session = Absent => c = NoCache
    /\ \/ raced
       \/ /\ FetchedRow /\ AppliedRow /\ OneApplies
          /\ AgreesButForOne(ids) /\ AgreesButForOne(list)
=============================================================================
