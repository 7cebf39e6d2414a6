---------------------------- MODULE BrowserDelivery ----------------------------
(***************************************************************************)
(* Browser delivery: DeliveryService.to_browser (media/delivery.py) leaves *)
(* one file per job under browser_root/<job id> and a browser_artifacts    *)
(* row; GET /tasks/{id}/file (api/router.py) sends it once.                *)
(*                                                                         *)
(* to_browser runs on the event loop without an await, so no two overlap;  *)
(* the endpoints run in threads between any two of its effects.  The queue *)
(* is reduced to what delivery sees of it: DownloadQueue has the rest.     *)
(* Progress, tags and the number of workers are left out.  cleanup_expired *)
(* has no action: nothing in the program calls it.                         *)
(***************************************************************************)
CONSTANTS
    Jobs,          \* jobs with delivery "browser"
    Requests,      \* downloads of a file in progress at once
    Faults,        \* subset of {"crash"}
    None

ASSUME DeliveryAssumption == None \notin Jobs

VARIABLES
    row,           \* jobs.status; "new" before the job, "cleared" after it
    artifact,      \* browser_artifacts; spent once delivered or expired
    dir,           \* browser_root/<job id>
    bound,         \* jobs whose quality snapshot is still in memory
    step, cur,     \* to_browser: the effect it is at, and its job
    get            \* the job whose file each request is sending

vars == <<row, artifact, dir, bound, step, cur, get>>

-----------------------------------------------------------------------------
(* The queue around delivery *)

SetRow(j, s) == row' = [row EXCEPT ![j] = s]

\* Downloading stands for tagging as well.
Running == {"resolving", "downloading"}

Submit(j) ==
    /\ row[j] = "new"
    /\ SetRow(j, "queued")
    /\ bound' = bound \union {j}
    /\ UNCHANGED <<artifact, dir, step, cur, get>>

Claim(j) ==
    /\ row[j] = "queued"
    /\ SetRow(j, "resolving")
    /\ UNCHANGED <<artifact, dir, bound, step, cur, get>>

\* QualitySnapshotStore.bind
Revalidate(j) ==
    /\ row[j] = "resolving" /\ j \in bound
    /\ SetRow(j, "downloading")
    /\ UNCHANGED <<artifact, dir, bound, step, cur, get>>

\* Revalidation or download fails.
FailEarly(j) ==
    /\ row[j] \in Running /\ cur # j
    /\ SetRow(j, "failed")
    /\ UNCHANGED <<artifact, dir, bound, step, cur, get>>

\* A task at an await is cancelled there; one inside to_browser goes on.
Cancel(j) ==
    /\ row[j] \in {"queued"} \union Running
    /\ SetRow(j, "cancelled")
    /\ UNCHANGED <<artifact, dir, bound, step, cur, get>>

Retry(j) ==
    /\ row[j] = "failed"
    /\ SetRow(j, "queued")
    /\ UNCHANGED <<artifact, dir, bound, step, cur, get>>

\* The snapshot's five minutes are over.
Lapse(j) ==
    /\ bound' = bound \ {j}
    /\ UNCHANGED <<row, artifact, dir, step, cur, get>>

\* clear_terminal_history: a row with an artifact stays, whatever its state.
Terminal == {"completed", "failed", "cancelled"}

Clearable(j) == row[j] \in Terminal /\ artifact[j] = "none"

ClearWithFiles ==
    LET gone == {j \in Jobs : row[j] \in Terminal /\ artifact[j] # "offered"} IN
    /\ row' = [j \in Jobs |-> IF j \in gone THEN "cleared" ELSE row[j]]
    /\ artifact' = [j \in Jobs |-> IF j \in gone THEN "none" ELSE artifact[j]]
    /\ dir' = [j \in Jobs |-> IF j \in gone THEN "none" ELSE dir[j]]
    /\ UNCHANGED <<bound, step, cur, get>>
ClearHistory ==
    /\ row' = [j \in Jobs |-> IF Clearable(j) THEN "cleared" ELSE row[j]]
    /\ UNCHANGED <<artifact, dir, bound, step, cur, get>>

-----------------------------------------------------------------------------
(* DeliveryService.to_browser *)

Idle == step' = "idle" /\ cur' = None

\* _fail_if_active
Failing(j) == SetRow(j, IF row[j] \in Running THEN "failed" ELSE row[j])

\* directory.mkdir(exist_ok=False)
MakeDirectory(j) ==
    /\ step = "idle"
    /\ row[j] = "downloading"
    /\ IF dir[j] = "none"
       THEN /\ dir' = [dir EXCEPT ![j] = "partial"]
            /\ step' = "write" /\ cur' = j
            /\ UNCHANGED row
       ELSE Failing(j) /\ UNCHANGED <<dir, step, cur>>
    /\ UNCHANGED <<artifact, bound, get>>

\* Copy, tags and os.replace.  A changed encoding removes the directory; any
\* other failure leaves it as it is.
WriteFile ==
    /\ step = "write"
    /\ \/ dir' = [dir EXCEPT ![cur] = "file"] /\ step' = "register" /\ UNCHANGED <<row, cur>>
       \/ dir' = [dir EXCEPT ![cur] = "none"] /\ Failing(cur) /\ Idle
       \/ Failing(cur) /\ Idle /\ UNCHANGED dir
    /\ UNCHANGED <<artifact, bound, get>>

\* register_browser_artifact; the foreign key refuses a row cleared meanwhile.
RegisterAnyway ==
    /\ step = "register"
    /\ artifact' = [artifact EXCEPT ![cur] = "offered"]
    /\ step' = "complete"
    /\ UNCHANGED <<row, dir, bound, cur, get>>
Register ==
    /\ step = "register"
    /\ IF row[cur] # "cleared"
       THEN artifact' = [artifact EXCEPT ![cur] = "offered"] /\ step' = "complete" /\ UNCHANGED cur
       ELSE Idle /\ UNCHANGED artifact
    /\ UNCHANGED <<row, dir, bound, get>>

\* Back in the worker: COMPLETED, unless the row was cancelled meanwhile.
Completing(j) == SetRow(j, IF row[j] \in Running THEN "completed" ELSE row[j])

Complete ==
    /\ step = "complete"
    /\ Completing(cur)
    /\ Idle
    /\ UNCHANGED <<artifact, dir, bound, get>>

CompleteFirst ==
    \/ WriteFile
    \/ /\ step = "register"
       /\ Completing(cur)
       /\ step' = "complete"
       /\ UNCHANGED <<artifact, dir, bound, cur, get>>
    \/ /\ step = "complete"
       /\ artifact' = [artifact EXCEPT ![cur] = IF row[cur] # "cleared" THEN "offered" ELSE @]
       /\ Idle
       /\ UNCHANGED <<row, dir, bound, get>>
DeliveryStep == WriteFile \/ Register \/ Complete

-----------------------------------------------------------------------------
(* GET /tasks/{id}/file *)

\* Neither delivered nor expired, and the file is there.
Open(r, j) ==
    /\ get[r] = None
    /\ artifact[j] = "offered" /\ dir[j] = "file"
    /\ get' = [get EXCEPT ![r] = j]
    /\ UNCHANGED <<row, artifact, dir, bound, step, cur>>

\* UPDATE ... WHERE job_id = ?
Spend(j) == artifact' = [artifact EXCEPT ![j] = IF @ = "none" THEN "none" ELSE "spent"]

\* The response is sent and its background task runs mark_delivered.
Sent(r) ==
    /\ get[r] # None
    /\ Spend(get[r])
    /\ get' = [get EXCEPT ![r] = None]
    /\ UNCHANGED <<row, dir, bound, step, cur>>

\* The client goes away: no background task.
Dropped(r) ==
    /\ get[r] # None
    /\ get' = [get EXCEPT ![r] = None]
    /\ UNCHANGED <<row, artifact, dir, bound, step, cur>>

\* browser_ttl is over.
Expire(j) ==
    /\ artifact[j] = "offered"
    /\ Spend(j)
    /\ UNCHANGED <<row, dir, bound, step, cur, get>>

-----------------------------------------------------------------------------

\* The process dies and starts again: recover_interrupted, and no snapshot.
CrashKeepingSnapshots ==
    /\ "crash" \in Faults
    /\ row' = [j \in Jobs |-> IF row[j] \in Running THEN "queued" ELSE row[j]]
    /\ Idle
    /\ get' = [r \in Requests |-> None]
    /\ UNCHANGED <<artifact, dir, bound>>
Crash ==
    /\ "crash" \in Faults
    /\ row' = [j \in Jobs |-> IF row[j] \in Running THEN "queued" ELSE row[j]]
    /\ bound' = {}
    /\ Idle
    /\ get' = [r \in Requests |-> None]
    /\ UNCHANGED <<artifact, dir>>

Init ==
    /\ row = [j \in Jobs |-> "new"]
    /\ artifact = [j \in Jobs |-> "none"]
    /\ dir = [j \in Jobs |-> "none"]
    /\ bound = {}
    /\ step = "idle" /\ cur = None
    /\ get = [r \in Requests |-> None]

QueueStep(j) ==
    Submit(j) \/ Claim(j) \/ Revalidate(j) \/ FailEarly(j) \/ Cancel(j) \/ Retry(j) \/ Lapse(j)

Next ==
    \/ \E j \in Jobs : QueueStep(j) \/ MakeDirectory(j) \/ Expire(j)
    \/ DeliveryStep
    \/ ClearHistory
    \/ \E r \in Requests : (\E j \in Jobs : Open(r, j)) \/ Sent(r) \/ Dropped(r)
    \/ Crash

Spec == Init /\ [][Next]_vars

-----------------------------------------------------------------------------
(* Properties *)

\* Every variable has its type; to_browser has a job while it runs.
DeliveryTypeOK ==
    /\ row \in [Jobs -> {"new", "queued", "cleared"} \union Running \union Terminal]
    /\ artifact \in [Jobs -> {"none", "offered", "spent"}]
    /\ dir \in [Jobs -> {"none", "partial", "file"}]
    /\ bound \subseteq Jobs
    /\ step \in {"idle", "write", "register", "complete"}
    /\ cur \in Jobs \union {None} /\ (step = "idle" <=> cur = None)
    /\ get \in [Requests -> Jobs \union {None}]

\* An artifact's row outlives no file and no job: what is offered, or being
\* sent, is a whole file of a job that still has its row.
ArtifactIsWhole ==
    /\ \A j \in Jobs : artifact[j] # "none" => dir[j] = "file" /\ row[j] # "cleared"
    /\ \A r \in Requests : get[r] # None => dir[get[r]] = "file"

\* A job that ends completed has its artifact, whatever crashed, was cancelled
\* or cleared on the way.
CompletedIsRetrievable ==
    \A j \in Jobs : row[j] = "completed" => artifact[j] # "none"

\* The file a request is sending is not rewritten or removed under it, and no
\* later attempt of the job offers a delivered artifact again.
DeliveredOnce ==
    [][\A j \in Jobs :
         /\ (\E r \in Requests : get[r] = j) => dir'[j] = dir[j]
         /\ artifact[j] = "spent" => artifact'[j] = "spent"]_vars

\* Why: an artifact appears only at its job's completion, and the one case in
\* which that job runs again, a crash in between, has taken the snapshot with it.
DeliveringRow ==
    /\ step = "write" => dir[cur] = "partial"
    /\ step = "register" => dir[cur] = "file"
    /\ step \in {"write", "register"} =>
          artifact[cur] = "none" /\ row[cur] \in {"downloading", "cancelled", "cleared"}
    /\ step = "complete" =>
          artifact[cur] # "none" /\ row[cur] \in {"downloading", "cancelled"}

ArtifactRow ==
    \A j \in Jobs : artifact[j] # "none" =>
        /\ dir[j] = "file"
        /\ \/ row[j] \in {"completed", "cancelled"}
           \/ row[j] = "downloading" /\ cur = j /\ step = "complete"
           \/ row[j] \in {"queued", "resolving", "failed"} /\ j \notin bound

SendingArtifact == \A r \in Requests : get[r] # None => artifact[get[r]] # "none"

\* The inductive invariant behind the three properties above and DeliveredOnce.
DeliveryInv ==
    DeliveryTypeOK /\ DeliveringRow /\ ArtifactRow /\ CompletedIsRetrievable /\ SendingArtifact

\* A failed job can be retried: an attempt is not refused because of what an
\* earlier attempt of the same job left.
RetryIsNotBlocked ==
    \A j \in Jobs : row[j] = "downloading" /\ cur # j => dir[j] = "none"
=============================================================================
