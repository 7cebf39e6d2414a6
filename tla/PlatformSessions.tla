----------------------------- MODULE PlatformSessions -----------------------------
(***************************************************************************)
(* The NetEase session and what hangs on its version: SessionManager over  *)
(* the encrypted file (sessions/), and the quality snapshots and jobs that *)
(* are bound to a version of it (platforms/quality.py, runtime.py).        *)
(*                                                                         *)
(* Each call of the session manager holds its lock throughout and is one   *)
(* action.  Endpoints are threads, and anything may happen while they are  *)
(* on the network.  The queue is reduced to what revalidation sees of it.  *)
(***************************************************************************)
EXTENDS Naturals

CONSTANTS
    Jobs,          \* downloads, each with a snapshot of its own
    MaxVersion,    \* bound on session versions
    MaxLogins,     \* bound on the logins stored
    Faults         \* subset of {"crash", "failure", "damage"}

ASSUME SessionAssumption == MaxVersion \in Nat /\ MaxLogins \in Nat

VARIABLES
    file,          \* netease.bin: version, and the login it holds
    readable,      \* whether the store can open the file
    memory,        \* SessionManager._versions
    logins,        \* history: logins stored so far
    stage,         \* where a job is, from its quality menu to its grant
    snapshot,      \* the session the job's options were offered under
    kept,          \* jobs whose snapshot is still in memory
    bound,         \* session_version of the job's stored request
    resumed,       \* history: jobs that a restart has put back into the queue
    using          \* the material the job's thread has loaded

sessionVars == <<file, readable, memory, logins>>
jobVars == <<stage, snapshot, kept, bound, resumed>>
vars == <<sessionVars, jobVars, using>>

\* Every login stored is a new one; 0 is none.
Session == [version : Nat, login : Nat]
Absent == [version |-> 0, login |-> 0]
Tombstone(v) == [version |-> v, login |-> 0]

-----------------------------------------------------------------------------
(* SessionManager and EncryptedSessionStore *)

Exists == file # Absent

\* existing[1] if existing is not None else self._versions[source]
IgnoreTombstone == IF file.login # 0 THEN file.version ELSE 0
Previous == IF Exists THEN file.version ELSE memory

\* A successful load raises the version in memory.
Noting == memory' = IF readable /\ file.version > memory THEN file.version ELSE memory

\* The load found credentials.
LoggedIn == readable /\ file.login # 0

\* A temporary file, fsync and os.replace: the file is the old one or the new.
Written(s) == file' = s

\* replace: load, write the file, then the memory.  chmod after os.replace may
\* fail: the new session is stored and reported as failed.
Replace ==
    /\ readable /\ Previous < MaxVersion /\ logins < MaxLogins
    /\ Written([version |-> Previous + 1, login |-> logins + 1])
    /\ logins' = logins + 1
    /\ \/ memory' = Previous + 1
       \/ "failure" \in Faults /\ UNCHANGED memory
    /\ UNCHANGED <<readable, jobVars, using>>

\* clear: the memory goes first, and the write may fail after it.
Clear ==
    /\ readable /\ Previous < MaxVersion
    /\ memory' = Previous + 1
    /\ \/ Written(Tombstone(Previous + 1))
       \/ "failure" \in Faults /\ UNCHANGED file
    /\ UNCHANGED <<readable, logins, jobVars, using>>

\* status: the validator's answer changes nothing that is kept.
Status ==
    /\ Noting
    /\ UNCHANGED <<file, readable, logins, jobVars, using>>

\* The ciphertext or the key is damaged: every call raises until the operator
\* removes the file.
Damage ==
    /\ "damage" \in Faults
    /\ readable /\ Exists
    /\ readable' = FALSE
    /\ UNCHANGED <<file, memory, logins, jobVars, using>>

Wipe ==
    /\ ~readable
    /\ file' = Absent /\ readable' = TRUE
    /\ UNCHANGED <<memory, logins, jobVars, using>>

-----------------------------------------------------------------------------
(* Quality snapshots and the jobs bound to them *)

Queued == {"queued", "resolving", "granted"}

Load(j) == LoggedIn /\ Noting /\ using' = [using EXCEPT ![j] = file]
Drop(j) == using' = [using EXCEPT ![j] = Absent]
To(j, s) == stage' = [stage EXCEPT ![j] = s]

\* quality_snapshot: the material and its version, the tiers over the network,
\* then the snapshot under the version that was loaded.
AskQuality(j) ==
    /\ stage[j] \in {"new", "offered"}
    /\ Load(j)
    /\ To(j, "asking")
    /\ kept' = kept \ {j}
    /\ UNCHANGED <<file, readable, logins, snapshot, bound, resumed>>

Create(j) ==
    /\ snapshot' = [snapshot EXCEPT ![j] = using[j]]
    /\ kept' = kept \union {j}

Offer(j) ==
    /\ stage[j] = "asking"
    /\ \/ Create(j) /\ To(j, "offered")
       \/ To(j, "new") /\ UNCHANGED <<snapshot, kept>>
    /\ Drop(j)
    /\ UNCHANGED <<sessionVars, bound, resumed>>

\* The snapshot's five minutes are over.
Lapse(j) ==
    /\ kept' = kept \ {j}
    /\ UNCHANGED <<sessionVars, stage, snapshot, bound, resumed, using>>

\* QualitySnapshotStore.bind against the session just loaded.
Binds(j) == LoggedIn /\ j \in kept /\ snapshot[j].version = file.version

\* prepare_request; the artwork is fetched before the job is created.
Prepare(j) ==
    /\ stage[j] = "offered" /\ Binds(j)
    /\ Noting
    /\ bound' = [bound EXCEPT ![j] = file.version]
    /\ To(j, "preparing")
    /\ UNCHANGED <<file, readable, logins, snapshot, kept, resumed, using>>

Enqueue(j) ==
    /\ stage[j] = "preparing"
    /\ To(j, "queued")
    /\ UNCHANGED <<sessionVars, snapshot, kept, bound, resumed, using>>

\* revalidate_exact up to the network.
RevalidateByVersion(j) ==
    /\ stage[j] = "queued"
    /\ IF LoggedIn /\ bound[j] = file.version
       THEN Load(j) /\ To(j, "resolving")
       ELSE Noting /\ To(j, "failed") /\ UNCHANGED using
    /\ UNCHANGED <<file, readable, logins, snapshot, kept, bound, resumed>>
Revalidate(j) ==
    /\ stage[j] = "queued"
    /\ IF Binds(j) /\ bound[j] = file.version
       THEN Load(j) /\ To(j, "resolving")
       ELSE Noting /\ To(j, "failed") /\ UNCHANGED using
    /\ UNCHANGED <<file, readable, logins, snapshot, kept, bound, resumed>>

\* The platform answers with the very tier, and the download starts.
Grant(j) ==
    /\ stage[j] = "resolving"
    /\ To(j, "granted")
    /\ UNCHANGED <<sessionVars, snapshot, kept, bound, resumed, using>>

\* It refuses, or the download fails.
Fail(j) ==
    /\ stage[j] \in {"resolving", "granted"}
    /\ To(j, "failed")
    /\ Drop(j)
    /\ UNCHANGED <<sessionVars, snapshot, kept, bound, resumed>>

Retry(j) ==
    /\ stage[j] = "failed"
    /\ To(j, "queued")
    /\ resumed' = resumed \ {j}
    /\ UNCHANGED <<sessionVars, snapshot, kept, bound, using>>

-----------------------------------------------------------------------------

\* The process dies and starts again: the session file and the jobs are what
\* is left, and unfinished jobs are queued again.
Crash ==
    /\ "crash" \in Faults
    /\ memory' = 0
    /\ stage' = [j \in Jobs |->
          CASE stage[j] \in Queued -> "queued"
            [] stage[j] = "asking" -> "new"
            [] stage[j] = "preparing" -> "offered"
            [] OTHER -> stage[j]]
    /\ resumed' = resumed \union {j \in Jobs : stage[j] \in Queued}
    /\ kept' = {}
    /\ using' = [j \in Jobs |-> Absent]
    /\ UNCHANGED <<file, readable, logins, snapshot, bound>>

Init ==
    /\ file = Absent /\ readable = TRUE /\ memory = 0 /\ logins = 0
    /\ stage = [j \in Jobs |-> "new"]
    /\ snapshot = [j \in Jobs |-> Absent]
    /\ kept = {} /\ resumed = {}
    /\ bound = [j \in Jobs |-> 0]
    /\ using = [j \in Jobs |-> Absent]

SessionStep == Replace \/ Clear \/ Status \/ Damage \/ Wipe
JobStep(j) ==
    \/ AskQuality(j) \/ Offer(j) \/ Lapse(j) \/ Prepare(j) \/ Enqueue(j)
    \/ Revalidate(j) \/ Grant(j) \/ Fail(j) \/ Retry(j)

Next ==
    \/ SessionStep
    \/ \E j \in Jobs : JobStep(j)
    \/ Crash

Spec == Init /\ [][Next]_vars

-----------------------------------------------------------------------------
(* Properties *)

\* Every variable has its type; what a thread has loaded, it has while it runs.
SessionTypeOK ==
    /\ file \in Session /\ readable \in BOOLEAN
    /\ memory \in Nat /\ logins \in Nat
    /\ stage \in [Jobs -> {"new", "asking", "offered", "preparing", "failed"} \union Queued]
    /\ snapshot \in [Jobs -> Session]
    /\ kept \subseteq Jobs /\ resumed \subseteq Jobs
    /\ bound \in [Jobs -> Nat]
    /\ using \in [Jobs -> Session]
    /\ \A j \in Jobs : using[j] # Absent <=> stage[j] \in {"asking", "resolving", "granted"}

\* What the process holds of sessions: in snapshots and threads.
Held == ({snapshot[j] : j \in kept} \union {using[j] : j \in Jobs}) \ {Absent}

\* A version names one login for as long as the process lives: whatever was
\* loaded or offered under the present version came from the present
\* login, so comparing versions is enough to keep logins apart, through failed
\* writes, logouts, a file lost and a process restarted.
VersionNamesOneLogin == \A s \in Held : s.version = file.version => s = file

\* A job downloads with the login its options were offered under, even when
\* the session file has been lost meanwhile and versions have started anew.
GrantKeepsOffer == \A j \in Jobs : stage[j] = "granted" => using[j] = snapshot[j]

\* Why: whatever is held has been seen in memory, and a new version is above
\* all that was held, counted from the file or, without one, from memory.
Known(s) ==
    /\ 0 < s.version /\ s.version <= memory
    /\ Exists => s.version <= file.version
    /\ s.version = file.version => s = file

FileRow ==
    /\ file.login <= logins /\ logins <= MaxLogins
    /\ file.version = 0 => ~Exists
    /\ ~readable => Exists

OfferedRow ==
    \A j \in Jobs : stage[j] \in {"resolving", "granted"} => using[j] = snapshot[j]

\* The inductive invariant behind the two properties above.
SessionInv == SessionTypeOK /\ FileRow /\ OfferedRow /\ \A s \in Held : Known(s)

\* Unfinished jobs are safely resumed after a restart: with the session they
\* were created under still in place, revalidation does not refuse them.
ResumedJobsRun ==
    [][\A j \in resumed : readable /\ file.login # 0 /\ bound[j] = file.version
          => ~(stage[j] = "queued" /\ stage'[j] = "failed")]_vars
=============================================================================
