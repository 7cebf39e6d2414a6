----------------------------- MODULE SessionProofs -----------------------------
(***************************************************************************)
(* PlatformSessions and AccountLists, for any jobs, accounts, songs,       *)
(* requests and bounds: a version names one login and a grant keeps its    *)
(* offer; the steps of AccountLists are steps of PlatformSessions or leave *)
(* the session alone, a request never meets the cached list of another     *)
(* login, and the hearts agree with the platform until a like races.       *)
(***************************************************************************)
EXTENDS AccountLists, TLAPS

-----------------------------------------------------------------------------
(* The session, its jobs and their snapshots. *)

USE SessionAssumption

\* The version a write gives is above every one that is known.
LEMMA PreviousBounds ==
    ASSUME SessionTypeOK, NEW s \in Session, Known(s)
    PROVE  Previous \in Nat /\ s.version <= Previous
BY DEF Previous, Known, SessionTypeOK, Session, Exists

\* A call of the session manager forgets nothing that is held.
LEMMA SessionStepKeepsKnown ==
    ASSUME SessionInv, SessionStep, NEW s \in Session, Known(s)
    PROVE  Known(s)'
<1> USE DEF SessionInv, SessionTypeOK, Session
<1>1. CASE Replace BY <1>1, PreviousBounds DEF Replace, Written, Known, Exists, Absent
<1>2. CASE Clear BY <1>2, PreviousBounds DEF Clear, Written, Tombstone, Known, Exists, Absent
<1>3. CASE Status BY <1>3 DEF Status, Noting, Known, Exists
<1>4. CASE Damage BY <1>4 DEF Damage, Known, Exists
<1>5. CASE Wipe BY <1>5 DEF Wipe, Known, Exists, Absent
<1>6. QED BY <1>1, <1>2, <1>3, <1>4, <1>5 DEF SessionStep

\* Nor does a job: it can only raise the version in memory.
LEMMA NotingKeepsKnown ==
    ASSUME SessionTypeOK, NEW s \in Session, Known(s), file' = file,
           Noting \/ memory' = memory
    PROVE  Known(s)'
BY DEF SessionTypeOK, Session, Noting, Known, Exists

\* What a load returns is known from then on.
LEMMA LoadedIsKnown ==
    ASSUME SessionTypeOK, FileRow, LoggedIn, Noting, file' = file
    PROVE  Known(file)' /\ file \in Session /\ file # Absent
BY DEF SessionTypeOK, Session, FileRow, LoggedIn, Noting, Known, Exists, Absent

\* What is held has the type of a session.
LEMMA HeldTyped == SessionTypeOK => Held \subseteq Session
BY DEF SessionTypeOK, Held

\* At first nothing is stored and nothing is held.
LEMMA InitSession == Init => SessionInv
<1> SUFFICES ASSUME Init PROVE SessionInv
  OBVIOUS
<1>1. SessionTypeOK BY DEF Init, SessionTypeOK, Session, Absent, Queued
<1>2. FileRow /\ OfferedRow BY DEF Init, FileRow, OfferedRow, Exists, Absent
<1>3. Held = {} BY DEF Init, Held
<1>4. QED BY <1>1, <1>2, <1>3 DEF SessionInv

\* The session manager's calls touch no job.
LEMMA SessionStepKeepsInv ==
    ASSUME SessionInv, SessionStep
    PROVE  SessionInv'
<1> USE DEF SessionInv
<1>1. UNCHANGED <<jobVars, using>>
  BY DEF SessionStep, Replace, Clear, Written, Status, Damage, Wipe
<1>2. file' \in Session /\ readable' \in BOOLEAN /\ memory' \in Nat /\ logins' \in Nat /\ FileRow'
  <2> USE DEF SessionTypeOK, Session, FileRow, Exists, Absent, Previous
  <2>1. CASE Replace BY <2>1 DEF Replace, Written
  <2>2. CASE Clear BY <2>2 DEF Clear, Written, Tombstone
  <2>3. CASE Status BY <2>3 DEF Status, Noting
  <2>4. CASE Damage BY <2>4 DEF Damage
  <2>5. CASE Wipe BY <2>5 DEF Wipe
  <2>6. QED BY <2>1, <2>2, <2>3, <2>4, <2>5 DEF SessionStep
<1>3. SessionTypeOK' BY <1>1, <1>2 DEF SessionTypeOK, jobVars
<1>4. OfferedRow' BY <1>1 DEF OfferedRow, jobVars
<1>5. Held' = Held BY <1>1 DEF Held, jobVars
<1>6. ASSUME NEW s \in Held' PROVE Known(s)'
  BY <1>5, <1>6, HeldTyped, SessionStepKeepsKnown
<1>7. QED BY <1>2, <1>3, <1>4, <1>6

\* A job holds what it held, or what it has just loaded.
LEMMA JobStepHolds ==
    ASSUME SessionInv, NEW j \in Jobs, JobStep(j)
    PROVE  /\ SessionTypeOK' /\ OfferedRow'
           /\ file' = file /\ readable' = readable /\ logins' = logins
           /\ Noting \/ memory' = memory
           /\ \/ Held' \subseteq Held
              \/ LoggedIn /\ Noting /\ Held' \subseteq Held \union {file}
<1> USE DEF SessionInv, SessionTypeOK, Session, OfferedRow, Held, Queued, Load, Drop, To,
            LoggedIn, Noting, Absent, sessionVars
<1>1. CASE AskQuality(j) BY <1>1 DEF AskQuality
<1>2. CASE Offer(j) BY <1>2 DEF Offer, Create
<1>3. CASE Lapse(j) BY <1>3 DEF Lapse
<1>4. CASE Prepare(j) BY <1>4 DEF Prepare, Binds
<1>5. CASE Enqueue(j) BY <1>5 DEF Enqueue
<1>6. CASE Revalidate(j)
  <2>1. CASE Binds(j) /\ bound[j] = file.version
    <3>1. snapshot[j] = file
      BY <2>1 DEF Binds, FileRow, Exists, Known
    <3>2. QED BY <1>6, <2>1, <3>1 DEF Revalidate
  <2>2. CASE ~(Binds(j) /\ bound[j] = file.version)
    <3>1. /\ stage' = [stage EXCEPT ![j] = "failed"] /\ Noting
          /\ UNCHANGED <<file, readable, logins, snapshot, kept, bound, resumed, using>>
          /\ stage[j] = "queued"
      BY <1>6, <2>2 DEF Revalidate
    <3>2. Held' = Held /\ using[j] = Absent BY <3>1
    <3>3. QED BY <3>1, <3>2
  <2>3. QED BY <2>1, <2>2
<1>7. CASE Grant(j) BY <1>7 DEF Grant
<1>8. CASE Fail(j) BY <1>8 DEF Fail
<1>9. CASE Retry(j) BY <1>9 DEF Retry
<1>10. QED BY <1>1, <1>2, <1>3, <1>4, <1>5, <1>6, <1>7, <1>8, <1>9 DEF JobStep

\* So a job's step keeps the invariant: what it has just loaded is known.
LEMMA JobStepKeepsInv ==
    ASSUME SessionInv, NEW j \in Jobs, JobStep(j)
    PROVE  SessionInv'
<1>1. FileRow' BY JobStepHolds DEF SessionInv, FileRow, Exists
<1>2. ASSUME NEW s \in Held' PROVE Known(s)'
  <2>1. CASE s \in Held
    BY <2>1, JobStepHolds, HeldTyped, NotingKeepsKnown DEF SessionInv
  <2>2. CASE s \notin Held
    BY <1>2, <2>2, JobStepHolds, LoadedIsKnown DEF SessionInv
  <2>3. QED BY <2>1, <2>2
<1>3. QED BY <1>1, <1>2, JobStepHolds DEF SessionInv

\* A crash takes everything that is held.
LEMMA CrashKeepsInv == SessionInv /\ Crash => SessionInv'
<1> SUFFICES ASSUME SessionInv, Crash PROVE SessionInv'
  OBVIOUS
<1> USE DEF SessionInv, Crash
<1>1. SessionTypeOK' BY DEF SessionTypeOK, Session, Absent, Queued
<1>2. FileRow' /\ OfferedRow' BY DEF FileRow, Exists, OfferedRow, SessionTypeOK, Queued
<1>3. Held' = {} BY DEF Held
<1>4. QED BY <1>1, <1>2, <1>3

\* Every step keeps the invariant.
LEMMA StepKeepsInv == SessionInv /\ [Next]_vars => SessionInv'
<1> SUFFICES ASSUME SessionInv, [Next]_vars PROVE SessionInv'
  OBVIOUS
<1>1. CASE UNCHANGED vars
  BY <1>1 DEF vars, sessionVars, jobVars, SessionInv, SessionTypeOK, FileRow, OfferedRow,
              Held, Known, Exists
<1>2. CASE Next
  BY <1>2, SessionStepKeepsInv, JobStepKeepsInv, CrashKeepsInv DEF Next
<1>3. QED BY <1>1, <1>2

\* SessionInv holds throughout, for any number of jobs, versions and logins.
THEOREM SessionInvariant == Spec => []SessionInv
BY InitSession, StepKeepsInv, PTL DEF Spec

\* The session store, SessionManager and the jobs' snapshots keep their types.
THEOREM SessionTypes == Spec => []SessionTypeOK
<1>1. SessionInv => SessionTypeOK
  BY DEF SessionInv
<1>2. QED BY <1>1, SessionInvariant, PTL

\* SessionManager never lets two logins meet under one version: what is held
\* under the present version came from the present login.
THEOREM VersionsNameLogins == Spec => []VersionNamesOneLogin
<1>1. SessionInv => VersionNamesOneLogin
  BY DEF SessionInv, Known, VersionNamesOneLogin
<1>2. QED BY <1>1, SessionInvariant, PTL

\* revalidate_exact grants a download only to the login that was offered it.
THEOREM GrantsKeepOffers == Spec => []GrantKeepsOffer
<1>1. SessionInv => GrantKeepsOffer
  BY DEF SessionInv, OfferedRow, GrantKeepsOffer
<1>2. QED BY <1>1, SessionInvariant, PTL

-----------------------------------------------------------------------------
(* The lists of the account. *)

USE ListsAssumption

\* A request does to the session what a status query does, or nothing.
LEMMA RequestsOnlyLook ==
    ASSUME NEW r \in Requests, RequestStep(r)
    PROVE  Status \/ UNCHANGED vars
BY DEF RequestStep, Begin, Look, Fetch, Store, Apply, GiveUp, Write, Status, vars, sessionVars

LEMMA ListsStepIsSessionStep == [ListsNext]_allVars => [Next]_vars
<1> SUFFICES ASSUME [ListsNext]_allVars PROVE [Next]_vars
  OBVIOUS
<1>1. CASE UNCHANGED allVars BY <1>1 DEF allVars
<1>2. CASE \E r \in Requests : RequestStep(r)
  BY <1>2, RequestsOnlyLook DEF Next, SessionStep
<1>3. CASE ListsNext /\ ~\E r \in Requests : RequestStep(r)
  BY <1>3 DEF ListsNext, Next, Restart, IdsExpire, ListExpires
<1>4. QED BY <1>1, <1>2, <1>3

\* The sessions of AccountLists are those of PlatformSessions: all that is proved
\* of the latter holds with requests and caches around it.
THEOREM ListsKeepSessions == ListsSpec => Spec
BY ListsStepIsSessionStep, PTL DEF ListsSpec, ListsInit, Spec

\* Whatever sessions the requests and caches hold are sessions.
LEMMA ListsHoldTyped == ListsTypeOK => ListsHold \subseteq Session
BY DEF ListsTypeOK, ListsHold, Cache

\* A request that moves on, or leaves, holds nothing new.
LEMMA MovingHolds ==
    ASSUME ListsTypeOK, NEW r \in Requests,
           UNCHANGED <<logins, liked, ids, list, raced>>,
           \/ Leave(r)
           \/ /\ UNCHANGED <<want, holds, got>> /\ at[r] # "idle"
              /\ Move(r, "fetch")
    PROVE  ListsTypeOK' /\ ListsHold' \subseteq ListsHold
<1>1. CASE Leave(r)
  <2>1. holds' = [holds EXCEPT ![r] = Absent] /\ Absent \in Session
    BY <1>1 DEF Leave, Absent, Session
  <2>2. ListsTypeOK' BY <1>1, <2>1 DEF Leave, Move, ListsTypeOK, Lists
  <2>3. ListsHold' \subseteq ListsHold BY <2>1 DEF ListsTypeOK, ListsHold
  <2>4. QED BY <2>2, <2>3
<1>2. CASE UNCHANGED <<want, holds, got>> /\ at[r] # "idle" /\ Move(r, "fetch")
  <2>1. ListsTypeOK' BY <1>2 DEF Move, ListsTypeOK
  <2>2. QED BY <1>2, <2>1 DEF ListsHold
<1>3. QED BY <1>1, <1>2

\* What a request holds or caches afterwards it held before, or has just loaded.
LEMMA RequestHolds ==
    ASSUME ListsInv, NEW r \in Requests, RequestStep(r)
    PROVE  /\ ListsTypeOK' /\ file' = file
           /\ \/ ListsHold' \subseteq ListsHold
              \/ LoggedIn /\ Noting /\ ListsHold' \subseteq ListsHold \union {file}
<1> DEFINE Keeps == ListsTypeOK' /\ file' = file /\ ListsHold' \subseteq ListsHold
<1>0. ListsTypeOK /\ SessionTypeOK /\ FileRow BY DEF ListsInv, SessionInv
<1>1. ASSUME NEW w \in Lists \union Likes, Begin(r, w)
      PROVE  /\ ListsTypeOK' /\ file' = file /\ LoggedIn /\ Noting
             /\ ListsHold' \subseteq ListsHold \union {file}
  BY <1>0, <1>1 DEF Begin, LoggedIn, FileRow, SessionTypeOK, ListsTypeOK, ListsHold, Session,
     Absent, Move, Lists, Likes, cacheVars
<1>2. ASSUME Look(r) PROVE Keeps
  <2>1. UNCHANGED <<file, logins, liked, ids, list, raced>>
    BY <1>2 DEF Look, vars, sessionVars, cacheVars
  <2>2. Leave(r) \/ (at[r] # "idle" /\ Move(r, "fetch") /\ UNCHANGED <<want, holds, got>>)
    BY <1>2 DEF Look
  <2>3. QED BY <1>0, <2>1, <2>2, MovingHolds
<1>3. ASSUME Fetch(r) PROVE Keeps
  <2>1. holds[r].login \in 1..MaxLogins
    BY <1>0, <1>3 DEF Fetch, Fetched, ListsTypeOK, FileRow, SessionTypeOK
  <2>2. Account(r) \in Accounts BY <2>1 DEF Account
  <2>3. QED
    BY <1>0, <1>3, <2>2 DEF Fetch, Fetched, Move, ListsTypeOK, ListsHold, vars, sessionVars, cacheVars
<1>4. ASSUME Store(r) PROVE Keeps
  <2> DEFINE fetched == [session |-> holds[r], tracks |-> got[r]]
  <2>1. fetched \in Cache BY <1>0 DEF ListsTypeOK, Cache
  <2>2. /\ file' = file /\ logins' = logins /\ liked' = liked /\ raced' = raced
        /\ ids' = fetched /\ list' \in {fetched, list} /\ Leave(r)
    BY <1>4 DEF Store, vars, sessionVars
  <2>3. /\ at' = [at EXCEPT ![r] = "idle"] /\ want' = [want EXCEPT ![r] = "ids"]
        /\ holds' = [holds EXCEPT ![r] = Absent] /\ got' = [got EXCEPT ![r] = {}]
    BY <2>2 DEF Leave, Move
  <2>4. ListsTypeOK'
    <3>1. ids' \in Cache /\ list' \in Cache BY <1>0, <2>1, <2>2 DEF ListsTypeOK
    <3>2. Absent \in Session BY DEF Absent, Session
    <3> HIDE DEF fetched
    <3>3. QED BY <1>0, <2>2, <2>3, <3>1, <3>2 DEF ListsTypeOK, Lists
  <2>5. fetched.session = holds[r] OBVIOUS
  <2> HIDE DEF fetched
  <2>6. ListsHold' \subseteq ListsHold BY <1>0, <2>2, <2>3, <2>5 DEF ListsTypeOK, ListsHold
  <2>7. QED BY <2>2, <2>4, <2>6
<1>5. ASSUME Apply(r) PROVE Keeps
  <2>1. /\ file' = file /\ logins' = logins /\ liked' = liked /\ raced' = raced /\ Leave(r)
        /\ list' \in {NoCache, list}
    BY <1>5 DEF Apply, vars, sessionVars
  <2>2. ids' \in Cache /\ ids'.session = ids.session
    BY <1>0, <1>5 DEF Apply, Toggled, ListsTypeOK, Cache
  <2>3. NoCache \in Cache /\ NoCache.session = Absent BY DEF NoCache, Cache, Absent, Session
  <2>4. /\ at' = [at EXCEPT ![r] = "idle"] /\ want' = [want EXCEPT ![r] = "ids"]
        /\ holds' = [holds EXCEPT ![r] = Absent] /\ got' = [got EXCEPT ![r] = {}]
    BY <2>1 DEF Leave, Move
  <2>5. ListsTypeOK'
    <3>1. Absent \in Session BY DEF Absent, Session
    <3>2. QED BY <1>0, <2>1, <2>2, <2>3, <2>4, <3>1 DEF ListsTypeOK, Lists
  <2>6. ListsHold' \subseteq ListsHold
    BY <1>0, <2>1, <2>2, <2>3, <2>4 DEF ListsTypeOK, ListsHold
  <2>7. QED BY <2>1, <2>5, <2>6
<1>6. ASSUME GiveUp(r) PROVE Keeps
  <2>1. Leave(r) /\ UNCHANGED <<file, logins, liked, ids, list, raced>>
    BY <1>6 DEF GiveUp, vars, sessionVars, cacheVars
  <2>2. QED BY <1>0, <2>1, MovingHolds
<1>7. ASSUME NEW t \in Tracks, Write(r, t) PROVE Keeps
  <2>1. /\ at[r] = "write"
        /\ UNCHANGED <<file, logins, ids, list>>
        /\ \/ Move(r, "apply") /\ got' = [got EXCEPT ![r] = {t}] /\ UNCHANGED <<want, holds>>
           \/ Leave(r)
    BY <1>7 DEF Write, SetLike, vars, sessionVars
  <2>2. liked' \in [Accounts -> SUBSET Tracks]
    BY <1>0, <1>7 DEF Write, SetLike, Toggled, ListsTypeOK
  <2>3. raced' \in BOOLEAN BY <1>0, <1>7, Zenon DEF Write, SetLike, ListsTypeOK
  <2>4. Absent \in Session BY DEF Absent, Session
  <2>5. CASE Leave(r)
    BY <1>0, <2>1, <2>2, <2>3, <2>4, <2>5 DEF Leave, Move, ListsTypeOK, ListsHold, Lists
  <2>6. CASE Move(r, "apply") /\ got' = [got EXCEPT ![r] = {t}] /\ UNCHANGED <<want, holds>>
    BY <1>0, <2>1, <2>2, <2>3, <2>6 DEF Move, ListsTypeOK, ListsHold
  <2>7. QED BY <2>1, <2>5, <2>6
<1>8. QED BY <1>1, <1>2, <1>3, <1>4, <1>5, <1>6, <1>7 DEF RequestStep

\* No two sessions in use share a version: the one just loaded is the present
\* one, and every other is known.
LEMMA PairsKept ==
    ASSUME ListsInv, file' = file, Noting \/ memory' = memory,
           \/ ListsHold' \subseteq ListsHold
           \/ LoggedIn /\ Noting /\ ListsHold' \subseteq ListsHold \union {file}
    PROVE  /\ \A s \in ListsHold' : Known(s)'
           /\ \A s, u \in ListsHold' : s.version = u.version => s = u
<1> USE DEF ListsInv, SessionInv
<1>1. ASSUME NEW s \in ListsHold PROVE s \in Session /\ Known(s) /\ Known(s)'
  BY ListsHoldTyped, NotingKeepsKnown
<1>2. ASSUME LoggedIn, Noting PROVE Known(file)'
  BY <1>2, LoadedIsKnown
<1>3. \A s \in ListsHold : s.version = file.version => s = file
  BY <1>1 DEF Known
<1>4. QED BY <1>1, <1>2, <1>3

\* The session manager and the jobs leave what requests and caches hold alone.
LEMMA OthersKeepLists ==
    ASSUME ListsInv, UNCHANGED listVars,
           SessionStep \/ \E j \in Jobs : JobStep(j)
    PROVE  ListsInv'
<1> USE DEF ListsInv, SessionInv
<1>1. SessionInv' BY SessionStepKeepsInv, JobStepKeepsInv
<1>2. ListsHold' = ListsHold BY DEF listVars, requestVars, cacheVars, ListsHold
<1>3. ASSUME NEW s \in ListsHold PROVE Known(s)'
  BY ListsHoldTyped, SessionStepKeepsKnown, JobStepHolds, NotingKeepsKnown
<1>4. logins \in Nat /\ logins' \in Nat /\ logins <= logins'
  <2>1. CASE SessionStep
    BY <2>1 DEF SessionTypeOK, SessionStep, Replace, Clear, Status, Damage, Wipe
  <2>2. CASE \E j \in Jobs : JobStep(j)
    BY <2>2, JobStepHolds DEF SessionTypeOK
  <2>3. QED BY <2>1, <2>2
<1>5. ListsTypeOK' BY <1>4 DEF ListsTypeOK, listVars, requestVars, cacheVars
<1>6. QED BY <1>1, <1>2, <1>3, <1>5

\* Every step keeps the invariant.
LEMMA ListsStepKeepsInv == ListsInv /\ [ListsNext]_allVars => ListsInv'
<1> SUFFICES ASSUME ListsInv, [ListsNext]_allVars PROVE ListsInv'
  OBVIOUS
<1>1. SessionInv' BY ListsStepIsSessionStep, StepKeepsInv DEF ListsInv
<1>2. ASSUME NEW r \in Requests, RequestStep(r) PROVE ListsInv'
  <2>1. Noting \/ memory' = memory
    BY <1>2, RequestsOnlyLook DEF Status, vars, sessionVars
  <2>2. QED BY <1>1, <1>2, <2>1, RequestHolds, PairsKept DEF ListsInv
<1>3. ASSUME IdsExpire \/ ListExpires PROVE ListsInv'
  <2>1. NoCache \in Cache /\ NoCache.session = Absent BY DEF NoCache, Cache, Absent, Session
  <2>2. /\ UNCHANGED <<file, logins, memory, at, want, holds, got, liked, raced>>
        /\ ids' \in {NoCache, ids} /\ list' \in {NoCache, list}
    BY <1>3 DEF IdsExpire, ListExpires, vars, sessionVars, requestVars
  <2>3. ListsTypeOK' BY <2>1, <2>2 DEF ListsInv, ListsTypeOK
  <2>4. ListsHold' \subseteq ListsHold BY <2>1, <2>2 DEF ListsHold
  <2>5. QED BY <1>1, <2>2, <2>3, <2>4, PairsKept DEF ListsInv
<1>4. CASE Restart
  <2>1. /\ at' = [r \in Requests |-> "idle"] /\ want' = [r \in Requests |-> "ids"]
        /\ holds' = [r \in Requests |-> Absent] /\ got' = [r \in Requests |-> {}]
        /\ ids' = NoCache /\ list' = NoCache /\ UNCHANGED <<liked, raced>>
    BY <1>4 DEF Restart
  <2>2. NoCache \in Cache /\ NoCache.session = Absent /\ Absent \in Session
    BY DEF NoCache, Cache, Absent, Session
  <2>3. ListsTypeOK' BY <2>1, <2>2 DEF ListsInv, ListsTypeOK, Lists
  <2>4. ListsHold' = {} BY <2>1, <2>2 DEF ListsHold
  <2>5. QED BY <1>1, <2>3, <2>4 DEF ListsInv
<1>5. CASE UNCHANGED allVars
  BY <1>1, <1>5 DEF allVars, vars, sessionVars, listVars, requestVars, cacheVars, ListsInv,
     ListsTypeOK, ListsHold, Known, Exists
<1>6. QED BY <1>2, <1>3, <1>4, <1>5, OthersKeepLists DEF ListsNext

\* At first no request holds a session, and no cache has one.
LEMMA InitLists == ListsInit => ListsInv
<1> SUFFICES ASSUME ListsInit PROVE ListsInv
  OBVIOUS
<1>1. SessionInv BY InitSession DEF ListsInit
<1>2. NoCache \in Cache /\ NoCache.session = Absent /\ Absent \in Session
  BY DEF NoCache, Cache, Absent, Session
<1>3. ListsTypeOK BY <1>2 DEF ListsInit, ListsTypeOK, Lists
<1>4. ListsHold = {} BY <1>2 DEF ListsInit, ListsHold
<1>5. QED BY <1>1, <1>3, <1>4 DEF ListsInv

\* ListsInv holds throughout, for any accounts, songs and requests.
THEOREM ListsInvariant == ListsSpec => []ListsInv
BY InitLists, ListsStepKeepsInv, PTL DEF ListsSpec

\* A request of runtime.py holds a login while it runs, and a cache a list of songs.
THEOREM ListsTypes == ListsSpec => []ListsTypeOK
<1>1. ListsInv => ListsTypeOK BY DEF ListsInv
<1>2. QED BY <1>1, ListsInvariant, PTL

\* Versions are enough to tell the cached list of another login.
LEMMA CachesApart == ListsInv => CachesKeepAccounts
<1>1. ASSUME ListsInv, NEW r \in Requests, NEW c \in {ids, list},
             at[r] # "idle", c.session.version = holds[r].version
      PROVE  c.session = holds[r]
  <2>1. holds[r] # Absent /\ holds[r] \in ListsHold
    BY <1>1 DEF ListsInv, ListsTypeOK, ListsHold, Absent
  <2>2. 0 < holds[r].version BY <1>1, <2>1 DEF ListsInv, Known
  <2>3. c.session # Absent BY <1>1, <2>2 DEF Absent
  <2>4. c.session \in ListsHold BY <1>1, <2>3 DEF ListsHold
  <2>5. QED BY <1>1, <2>1, <2>4 DEF ListsInv
<1>2. QED BY <1>1 DEF CachesKeepAccounts

\* The liked songs of one login are never served to, or changed for, another:
\* comparing versions is enough for the caches of runtime.py.
THEOREM CachesServeTheirLogin == ListsSpec => []CachesKeepAccounts
BY CachesApart, ListsInvariant, PTL

-----------------------------------------------------------------------------
(* The hearts. *)

\* A like that is applied twice changes the list once.
LEMMA ToggleTwice ==
    ASSUME NEW r, NEW set, NEW t
    PROVE  Toggled(r, Toggled(r, set, t), t) = Toggled(r, set, t)
BY DEF Toggled

\* What is held under a version that the session manager then writes is gone
\* from the present session: no cache is under a session newly stored.
LEMMA NewSessionsAreUncached ==
    ASSUME ListsInv, SessionStep, NEW s \in ListsHold, s = file'
    PROVE  s = file
<1> USE DEF ListsInv, SessionInv
<1>1. s \in Session /\ Known(s) BY ListsHoldTyped
<1>2. Previous \in Nat /\ s.version <= Previous /\ 0 < s.version
  BY <1>1, PreviousBounds DEF Known
<1>3. CASE Replace BY <1>1, <1>2, <1>3 DEF Replace, Written, Session
<1>4. CASE Clear BY <1>1, <1>2, <1>4 DEF Clear, Written, Tombstone, Session
<1>5. CASE Status BY <1>5 DEF Status
<1>6. CASE Damage BY <1>6 DEF Damage
<1>7. CASE Wipe BY <1>2, <1>7 DEF Wipe, Absent
<1>8. QED BY <1>3, <1>4, <1>5, <1>6, <1>7 DEF SessionStep

\* The session manager and the jobs leave the hearts alone, and can only part
\* the caches from the present session.
LEMMA OthersKeepHearts ==
    ASSUME HeartsInv, UNCHANGED listVars,
           SessionStep \/ \E j \in Jobs : JobStep(j)
    PROVE  HeartsInv'
<1> USE DEF HeartsInv, listVars, requestVars, cacheVars
<1>1. ListsInv' BY OthersKeepLists
<1>2. ASSUME NEW c \in {ids, list}, c.session = file' PROVE c.session = file \/ c = NoCache
  <2>1. CASE c.session = Absent BY <2>1
  <2>2. CASE c.session \in ListsHold
    <3>1. CASE SessionStep BY <1>2, <2>2, <3>1, NewSessionsAreUncached
    <3>2. CASE \E j \in Jobs : JobStep(j) BY <1>2, <3>2, JobStepHolds DEF ListsInv
    <3>3. QED BY <3>1, <3>2
  <2>3. QED BY <2>1, <2>2 DEF ListsHold
<1>3. (FetchedRow => FetchedRow') /\ (AppliedRow => AppliedRow') /\ (OneApplies => OneApplies')
  BY DEF FetchedRow, AppliedRow, OneApplies, Account, Toggled
<1>4. /\ AgreesButForOne(ids) => AgreesButForOne(ids)'
      /\ AgreesButForOne(list) => AgreesButForOne(list)'
  BY <1>2 DEF AgreesButForOne, AboutToChange, Account, Toggled
<1>5. QED BY <1>1, <1>3, <1>4

\* At first every list is empty.
LEMMA InitHearts == ListsInit => HeartsInv
BY InitLists DEF ListsInit, HeartsInv, FetchedRow, AppliedRow, OneApplies, AgreesButForOne

\* The other requests, in a step of one.
OthersStay(r) ==
    \A q \in Requests \ {r} : /\ at'[q] = at[q] /\ want'[q] = want[q]
                              /\ holds'[q] = holds[q] /\ got'[q] = got[q]

\* A request that is not applying a like changes no cache by moving.
LEMMA UntouchedCaches ==
    ASSUME NEW r \in Requests, OthersStay(r), at[r] # "apply", UNCHANGED <<file, liked>>
    PROVE  /\ ids' = ids /\ AgreesButForOne(ids) => AgreesButForOne(ids)'
           /\ list' = list /\ AgreesButForOne(list) => AgreesButForOne(list)'
<1>1. ASSUME NEW q \in Requests, AboutToChange(q, ids), ids' = ids
      PROVE  AboutToChange(q, ids)'
  BY <1>1 DEF AboutToChange, Account, Toggled, OthersStay
<1>2. ASSUME NEW q \in Requests, AboutToChange(q, list), list' = list
      PROVE  AboutToChange(q, list)'
  BY <1>2 DEF AboutToChange, Account, Toggled, OthersStay
<1>3. QED BY <1>1, <1>2 DEF AgreesButForOne

\* Nor do the rows about the requests see it, unless it has something to store or
\* to apply afterwards.
LEMMA UntouchedRows ==
    ASSUME NEW r \in Requests, OthersStay(r), at'[r] # "apply", liked' = liked
    PROVE  /\ FetchedRow /\ (at'[r] = "store" => got'[r] = liked[Account(r)']) => FetchedRow'
           /\ AppliedRow => AppliedRow'
           /\ OneApplies => OneApplies'
<1>1. ASSUME FetchedRow, at'[r] = "store" => got'[r] = liked[Account(r)'] PROVE FetchedRow'
  BY <1>1 DEF FetchedRow, Account, OthersStay
<1>2. ASSUME AppliedRow PROVE AppliedRow'
  <2>1. SUFFICES ASSUME NEW q \in Requests, at'[q] = "apply", NEW t \in got'[q]
                 PROVE  Toggled(q, liked[Account(q)], t)' = liked'[Account(q)']
    BY DEF AppliedRow
  <2>2. q \in Requests \ {r} BY <2>1
  <2>3. at'[q] = at[q] /\ want'[q] = want[q] /\ holds'[q] = holds[q] /\ got'[q] = got[q]
    BY <2>2 DEF OthersStay
  <2>4. Toggled(q, liked[Account(q)], t) = liked[Account(q)]
    BY <1>2, <2>1, <2>3 DEF AppliedRow
  <2>5. Account(q)' = Account(q) BY <2>3 DEF Account
  <2>6. liked'[Account(q)'] = liked[Account(q)] BY <2>5
  <2>7. Toggled(q, liked[Account(q)], t)' = Toggled(q, liked[Account(q)], t)
    BY <2>3, <2>6 DEF Toggled
  <2>8. QED BY <2>4, <2>6, <2>7
<1>3. ASSUME OneApplies PROVE OneApplies'
  BY <1>3 DEF OneApplies, Account, OthersStay
<1>4. QED BY <1>1, <1>2, <1>3

\* What a fetch returns is what the platform has, and a request that looks, begins
\* or leaves before it has fetched or written brings nothing.
LEMMA AsideKeepsHearts ==
    ASSUME HeartsInv, ListsInv', NEW r \in Requests, OthersStay(r),
           UNCHANGED <<file, cacheVars>>, at[r] # "apply", at'[r] # "apply",
           at'[r] = "store" => got'[r] = liked[Account(r)']
    PROVE  HeartsInv'
BY UntouchedRows, UntouchedCaches DEF HeartsInv, cacheVars

\* A request that leaves, leaves the others as they are.
LEMMA LeavingAlone ==
    ASSUME ListsTypeOK, NEW r \in Requests, Leave(r)
    PROVE  OthersStay(r) /\ at'[r] = "idle"
BY DEF Leave, Move, ListsTypeOK, OthersStay

\* What is stored was fetched, and no like has changed it since.
LEMMA StoreKeepsHearts ==
    ASSUME HeartsInv, ListsInv', NEW r \in Requests, Store(r)
    PROVE  HeartsInv'
<1> DEFINE fetched == [session |-> holds[r], tracks |-> got[r]]
<1>0. ListsTypeOK BY DEF HeartsInv, ListsInv
<1>1. /\ UNCHANGED <<file, liked, raced>> /\ Leave(r) /\ at[r] = "store"
      /\ ids' = fetched /\ list' \in {fetched, list}
  BY DEF Store, vars, sessionVars
<1>2. holds[r] # Absent BY <1>0, <1>1 DEF ListsTypeOK, FileRow, Absent
<1>3. fetched.session = holds[r] /\ fetched.tracks = got[r] OBVIOUS
<1> HIDE DEF fetched
<1>4. \A c \in {ids', list'} : c.session = Absent => c = NoCache
  BY <1>1, <1>2, <1>3 DEF HeartsInv
<1>5. ASSUME ~raced
      PROVE  /\ FetchedRow' /\ AppliedRow' /\ OneApplies'
             /\ AgreesButForOne(ids)' /\ AgreesButForOne(list)'
  <2>1. FetchedRow /\ AppliedRow /\ OneApplies /\ AgreesButForOne(list)
    BY <1>5 DEF HeartsInv
  <2>2. FetchedRow' /\ AppliedRow' /\ OneApplies' BY <1>0, <1>1, <2>1, LeavingAlone, UntouchedRows
  <2>3. fetched.tracks = liked[AccountOf[fetched.session.login]]
    BY <1>1, <1>3, <2>1 DEF FetchedRow, Account
  <2>4. list' = list => AgreesButForOne(list)'
    BY <1>0, <1>1, <2>1, LeavingAlone, UntouchedCaches
  <2>5. QED BY <1>1, <2>2, <2>3, <2>4 DEF AgreesButForOne
<1>6. QED BY <1>1, <1>4, <1>5 DEF HeartsInv

\* A request that runs is for one of the accounts.
LEMMA AccountTyped ==
    ASSUME ListsInv, NEW r \in Requests, at[r] # "idle"
    PROVE  Account(r) \in Accounts
BY DEF Account, ListsInv, ListsTypeOK, SessionInv, SessionTypeOK, FileRow

\* A like that does not race is the one change the caches have yet to see.
LEMMA WriteKeepsHearts ==
    ASSUME HeartsInv, ListsInv', NEW r \in Requests, NEW t \in Tracks, Write(r, t)
    PROVE  HeartsInv'
<1>0. ListsTypeOK BY DEF HeartsInv, ListsInv
<1>1. /\ UNCHANGED <<file, ids, list>> /\ at[r] = "write"
      /\ liked' = [liked EXCEPT ![Account(r)] = Toggled(r, @, t)]
  BY DEF Write, SetLike, vars, sessionVars
<1>2. ASSUME ~raced'
      PROVE  /\ FetchedRow' /\ AppliedRow' /\ OneApplies'
             /\ AgreesButForOne(ids)' /\ AgreesButForOne(list)'
  <2>1. /\ Move(r, "apply") /\ got' = [got EXCEPT ![r] = {t}] /\ UNCHANGED <<want, holds>>
        /\ ~raced /\ ~Races(r)
    BY <1>2 DEF Write, SetLike
  <2>2. /\ FetchedRow /\ AppliedRow /\ OneApplies
        /\ AgreesButForOne(ids) /\ AgreesButForOne(list)
    BY <2>1 DEF HeartsInv
  <2>3. /\ at'[r] = "apply" /\ got'[r] = {t}
        /\ \A q \in Requests \ {r} : at'[q] = at[q] /\ got'[q] = got[q]
    BY <1>0, <2>1 DEF Move, ListsTypeOK
  <2>4. /\ holds[r] = file
        /\ \A q \in Requests \ {r} : at[q] \in {"store", "apply"} => Account(q) # Account(r)
    BY <2>1 DEF Races
  <2>5. /\ \A q \in Requests : Account(q)' = Account(q)
        /\ \A q \in Requests : \A set, u : Toggled(q, set, u)' = Toggled(q, set, u)
    BY <2>1 DEF Account, Toggled
  <2>6. Account(r) \in Accounts BY <1>1, AccountTyped DEF HeartsInv
  <2>7. /\ liked'[Account(r)] = Toggled(r, liked[Account(r)], t)
        /\ \A a \in Accounts \ {Account(r)} : liked'[a] = liked[a]
    BY <1>0, <1>1, <2>6 DEF ListsTypeOK
  <2>8. FetchedRow'
    <3>1. ASSUME NEW q \in Requests, at'[q] = "store" PROVE got'[q] = liked'[Account(q)']
      <4>1. q # r /\ at[q] = "store" /\ got'[q] = got[q] BY <2>3, <3>1
      <4>2. Account(q) \in Accounts /\ Account(q) # Account(r)
        BY <1>0, <2>4, <4>1, AccountTyped DEF HeartsInv
      <4>3. QED BY <2>2, <2>5, <2>7, <4>1, <4>2 DEF FetchedRow
    <3>2. QED BY <3>1 DEF FetchedRow
  <2>9. AppliedRow'
    <3>1. ASSUME NEW q \in Requests, at'[q] = "apply", NEW u \in got'[q]
          PROVE  Toggled(q, liked[Account(q)], u)' = liked'[Account(q)']
      <4>1. CASE q = r BY <2>3, <2>5, <2>7, <3>1, <4>1, ToggleTwice
      <4>2. CASE q # r
        <5>1. at[q] = "apply" /\ u \in got[q] BY <2>3, <3>1, <4>2
        <5>2. Account(q) \in Accounts /\ Account(q) # Account(r)
          BY <2>4, <4>2, <5>1, AccountTyped DEF HeartsInv
        <5>3. Toggled(q, liked[Account(q)], u) = liked[Account(q)]
          BY <2>2, <5>1 DEF AppliedRow
        <5>4. QED BY <2>1, <2>7, <5>2, <5>3 DEF Toggled, Account
      <4>3. QED BY <4>1, <4>2
    <3>2. QED BY <3>1 DEF AppliedRow
  <2>10. OneApplies' BY <2>2, <2>3, <2>4, <2>5 DEF OneApplies
  <2>11. ASSUME NEW c \in {ids, list}
         PROVE  c.session = file => c = NoCache \/ c.tracks = liked[Account(r)]
    <3>1. AgreesButForOne(c) BY <2>2
    <3>2. \A q \in Requests : at[q] = "apply" => holds[q] # holds[r]
      BY <1>1, <2>4 DEF Account
    <3>3. QED BY <2>4, <3>1, <3>2 DEF AgreesButForOne, AboutToChange, Account
  <2>12. AgreesButForOne(ids)'
    <3>1. CASE ids.session = file /\ ids # NoCache
      <4>1. ids.tracks = liked[Account(r)] BY <2>11, <3>1
      <4>2. AboutToChange(r, ids)'
        BY <1>1, <2>1, <2>3, <2>4, <2>7, <3>1, <4>1 DEF AboutToChange, Account, Toggled
      <4>3. QED BY <4>2 DEF AgreesButForOne
    <3>2. QED BY <1>1, <3>1 DEF AgreesButForOne
  <2>13. AgreesButForOne(list)'
    <3>1. CASE list.session = file /\ list # NoCache
      <4>1. list.tracks = liked[Account(r)] BY <2>11, <3>1
      <4>2. AboutToChange(r, list)'
        BY <1>1, <2>1, <2>3, <2>4, <2>7, <3>1, <4>1 DEF AboutToChange, Account, Toggled
      <4>3. QED BY <4>2 DEF AgreesButForOne
    <3>2. QED BY <1>1, <3>1 DEF AgreesButForOne
  <2>14. QED BY <2>8, <2>9, <2>10, <2>12, <2>13
<1>3. QED BY <1>1, <1>2 DEF HeartsInv

\* A like is applied to the list it was written to, and to nothing twice.
LEMMA ApplyKeepsHearts ==
    ASSUME HeartsInv, ListsInv', NEW r \in Requests, Apply(r)
    PROVE  HeartsInv'
<1>0. ListsTypeOK /\ CachesKeepAccounts BY CachesApart DEF HeartsInv, ListsInv
<1>1. /\ at[r] = "apply" /\ UNCHANGED <<file, liked, raced>>
      /\ Leave(r) /\ OthersStay(r) /\ at'[r] = "idle"
  BY <1>0, LeavingAlone DEF Apply, vars, sessionVars
<1>2. holds[r] # Absent BY <1>0, <1>1 DEF ListsTypeOK, Absent
<1>3. /\ list' # NoCache => list' = list /\ list.session # holds[r]
      /\ ids.session # holds[r] => ids' = ids
      /\ ids'.session = ids.session
  <2>1. \A c \in {ids, list} : c.session.version = holds[r].version <=> c.session = holds[r]
    BY <1>0, <1>1 DEF CachesKeepAccounts
  <2>2. QED BY <1>0, <2>1 DEF Apply, ListsTypeOK, Cache
<1>4. \A c \in {ids', list'} : c.session = Absent => c = NoCache
  BY <1>2, <1>3 DEF HeartsInv
<1>5. ASSUME ~raced
      PROVE  /\ FetchedRow' /\ AppliedRow' /\ OneApplies'
             /\ AgreesButForOne(ids)' /\ AgreesButForOne(list)'
  <2>1. /\ FetchedRow /\ AppliedRow /\ OneApplies
        /\ AgreesButForOne(ids) /\ AgreesButForOne(list)
    BY <1>5 DEF HeartsInv
  <2>2. FetchedRow' /\ AppliedRow' /\ OneApplies' BY <1>1, <2>1, UntouchedRows
  <2>3. AgreesButForOne(list)'
    <3>1. CASE list' = NoCache BY <3>1 DEF AgreesButForOne
    <3>2. CASE list' # NoCache
      <4>1. ASSUME NEW q \in Requests, AboutToChange(q, list) PROVE AboutToChange(q, list)'
        BY <1>1, <1>3, <3>2, <4>1 DEF AboutToChange, Account, Toggled, OthersStay
      <4>2. QED BY <1>1, <1>3, <2>1, <3>2, <4>1 DEF AgreesButForOne
    <3>3. QED BY <3>1, <3>2
  <2>4. AgreesButForOne(ids)'
    <3>1. CASE ids.session # holds[r]
      <4>1. ASSUME NEW q \in Requests, AboutToChange(q, ids) PROVE AboutToChange(q, ids)'
        BY <1>1, <1>3, <3>1, <4>1 DEF AboutToChange, Account, Toggled, OthersStay
      <4>2. QED BY <1>1, <1>3, <2>1, <3>1, <4>1 DEF AgreesButForOne
    <3>2. CASE ids.session = holds[r] /\ ids.session # file
      BY <1>1, <1>3, <3>2 DEF AgreesButForOne
    <3>3. CASE ids.session = holds[r] /\ ids.session = file
      <4>1. PICK t \in got[r] : ids' = [ids EXCEPT !.tracks = Toggled(r, @, t)]
        BY <3>3 DEF Apply
      <4>2. ids'.tracks = Toggled(r, ids.tracks, t)
        BY <1>0, <4>1 DEF ListsTypeOK, Cache
      <4>3. ids # NoCache BY <1>2, <3>3 DEF NoCache
      <4>4. ids.tracks = liked[Account(r)] \/ AboutToChange(r, ids)
        BY <1>1, <2>1, <3>3, <4>3 DEF AgreesButForOne, AboutToChange, Account, OneApplies
      <4>5. Toggled(r, ids.tracks, t) = liked[Account(r)]
        BY <1>1, <2>1, <4>1, <4>4 DEF AppliedRow, AboutToChange
      <4>6. QED BY <1>1, <1>3, <3>3, <4>2, <4>5 DEF AgreesButForOne, Account
    <3>4. QED BY <3>1, <3>2, <3>3
  <2>5. QED BY <2>2, <2>3, <2>4
<1>6. QED BY <1>1, <1>4, <1>5 DEF HeartsInv

\* Every request keeps the hearts.
LEMMA RequestKeepsHearts ==
    ASSUME HeartsInv, ListsInv', NEW r \in Requests, RequestStep(r)
    PROVE  HeartsInv'
<1>0. ListsTypeOK BY DEF HeartsInv, ListsInv
<1>1. ASSUME NEW w \in Lists \union Likes, Begin(r, w) PROVE HeartsInv'
  BY <1>0, <1>1, AsideKeepsHearts DEF Begin, Move, OthersStay, ListsTypeOK
<1>2. ASSUME Look(r) PROVE HeartsInv'
  <2>1. UNCHANGED <<file, cacheVars>> /\ at[r] = "look" BY <1>2 DEF Look, vars, sessionVars
  <2>2. OthersStay(r) /\ at'[r] \in {"idle", "fetch"}
    BY <1>0, <1>2, LeavingAlone DEF Look, Move, OthersStay, ListsTypeOK
  <2>3. QED BY <2>1, <2>2, AsideKeepsHearts
<1>3. ASSUME Fetch(r) PROVE HeartsInv'
  <2>1. UNCHANGED <<file, cacheVars>> /\ at[r] = "fetch" BY <1>3 DEF Fetch, Fetched, vars, sessionVars
  <2>2. OthersStay(r) /\ at'[r] = "store" /\ got'[r] = liked[Account(r)']
    BY <1>0, <1>3 DEF Fetch, Fetched, Move, OthersStay, ListsTypeOK, Account
  <2>3. QED BY <2>1, <2>2, AsideKeepsHearts
<1>4. ASSUME GiveUp(r) PROVE HeartsInv'
  <2>1. UNCHANGED <<file, cacheVars>> /\ at[r] \in {"fetch", "write"}
    BY <1>4 DEF GiveUp, vars, sessionVars
  <2>2. OthersStay(r) /\ at'[r] = "idle" BY <1>0, <1>4, LeavingAlone DEF GiveUp
  <2>3. QED BY <2>1, <2>2, AsideKeepsHearts
<1>5. QED
  BY <1>1, <1>2, <1>3, <1>4, StoreKeepsHearts, ApplyKeepsHearts, WriteKeepsHearts DEF RequestStep

\* Every step keeps the invariant.
LEMMA HeartsStepKeepsInv == HeartsInv /\ [ListsNext]_allVars => HeartsInv'
<1> SUFFICES ASSUME HeartsInv, [ListsNext]_allVars PROVE HeartsInv'
  OBVIOUS
<1>1. ListsInv' BY ListsStepKeepsInv DEF HeartsInv
<1>2. ASSUME IdsExpire \/ ListExpires PROVE HeartsInv'
  <2>1. /\ UNCHANGED <<file, at, want, holds, got, liked, raced>>
        /\ \/ ids' = NoCache /\ list' = list
           \/ ids' = ids /\ list' = NoCache
    BY <1>2 DEF IdsExpire, ListExpires, vars, sessionVars, requestVars
  <2>2. /\ FetchedRow => FetchedRow'
        /\ AppliedRow => AppliedRow'
        /\ OneApplies => OneApplies'
    BY <2>1 DEF FetchedRow, AppliedRow, OneApplies, Account, Toggled
  <2>3. /\ ids' = ids /\ AgreesButForOne(ids) => AgreesButForOne(ids)'
        /\ list' = list /\ AgreesButForOne(list) => AgreesButForOne(list)'
        /\ ids' = NoCache => AgreesButForOne(ids)'
        /\ list' = NoCache => AgreesButForOne(list)'
    BY <2>1 DEF AgreesButForOne, AboutToChange, Account, Toggled
  <2>4. QED BY <1>1, <2>1, <2>2, <2>3 DEF HeartsInv
<1>3. CASE Restart
  BY <1>1, <1>3 DEF Restart, HeartsInv, FetchedRow, AppliedRow, OneApplies, AgreesButForOne
<1>4. CASE UNCHANGED allVars
  <2>1. UNCHANGED <<file, at, want, holds, got, liked, ids, list, raced>>
    BY <1>4 DEF allVars, vars, sessionVars, listVars, requestVars, cacheVars
  <2>2. /\ FetchedRow => FetchedRow'
        /\ AppliedRow => AppliedRow'
        /\ OneApplies => OneApplies'
    BY <2>1 DEF FetchedRow, AppliedRow, OneApplies, Account, Toggled
  <2>3. /\ AgreesButForOne(ids) => AgreesButForOne(ids)'
        /\ AgreesButForOne(list) => AgreesButForOne(list)'
    BY <2>1 DEF AgreesButForOne, AboutToChange, Account, Toggled
  <2>4. QED BY <1>1, <2>1, <2>2, <2>3 DEF HeartsInv
<1>5. QED BY <1>1, <1>2, <1>3, <1>4, RequestKeepsHearts, OthersKeepHearts DEF ListsNext

\* HeartsInv holds throughout, for any accounts, songs, requests and logins.
THEOREM HeartsInvariant == ListsSpec => []HeartsInv
BY InitHearts, HeartsStepKeepsInv, PTL DEF ListsSpec

\* The hearts and the liked list of runtime.py show what the platform has once a
\* like has been applied, through logins replaced, lost and renewed meanwhile,
\* unless a like overlapped another request on the list or its answer was lost.
THEOREM HeartsShowThePlatform == ListsSpec => []HeartsAgree
<1>1. HeartsInv => HeartsAgree
  BY DEF HeartsInv, HeartsAgree, AgreesButForOne, AboutToChange, Account
<1>2. QED BY <1>1, HeartsInvariant, PTL
==============================================================================
