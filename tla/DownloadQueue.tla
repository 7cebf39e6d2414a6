---------------------------- MODULE DownloadQueue ----------------------------
(***************************************************************************)
(* The durable download queue: QueueService (queue/service.py), the jobs   *)
(* table of Repository (db/repository.py), the stages of                   *)
(* PipelineProcessor.process (core/pipeline.py) and the task endpoints of  *)
(* api/router.py.                                                          *)
(*                                                                         *)
(* One event loop runs the workers, their process tasks and create_batch;  *)
(* FastAPI runs the plain `def` endpoints (cancel, retry, clear) in        *)
(* threads.  A loop step therefore holds the loop from one await to the    *)
(* next, while a thread may commit between any two SQLite transactions of  *)
(* it: an action here is one transaction, or one await, and the program    *)
(* counters in Holding say who has the loop.                               *)
(*                                                                         *)
(* Abstracted: progress, attempt, error texts and timestamps; what a       *)
(* transfer or a publication does (any await may succeed or fail); the     *)
(* rejected and the already-managed item of a batch, which take the same   *)
(* path.  created_at order is the order of the ids.                        *)
(***************************************************************************)
EXTENDS Naturals

CONSTANTS
    MaxJobs,       \* bound: rows ever created
    Workers,       \* QueueService.concurrency of them
    Callers,       \* threads of the endpoint thread pool
    MaxItems,      \* bound: items of one batch
    Ops,           \* the endpoints the operator uses: subset of {"cancel", "retry", "clear"}
    Faults,        \* what may go wrong: subset of {"crash", "stop", "escape"}
    NoWorker

ASSUME QueueAssumption ==
    /\ MaxJobs \in Nat \ {0} /\ MaxItems \in Nat \ {0}
    /\ NoWorker \notin Workers

Jobs == 1..MaxJobs

NoJob == 0

VARIABLES
    (* on disk: SQLite and the two delivery trees *)
    status,        \* jobs.status; "absent" before INSERT, "gone" after DELETE
    delivery,      \* the delivery stored in jobs.request_json
    delivered,     \* jobs whose delivery succeeded (library file or browser artifact)
    (* the process *)
    phase,         \* "down", "up", "stopping" (QueueService._stopping)
    wake,          \* the flag of the asyncio.Event _wake, "set" or "clear"
    running,       \* QueueService._running: the worker whose task runs the job
    (* each worker and its process task *)
    pc, job,
    stage,         \* status of the transition the process task is at
    verdict,       \* how the process task ended
    mustCancel,    \* workers whose task was cancelled and has not seen it yet
    (* each endpoint thread *)
    cpc, target,
    (* the one create_batch call in flight *)
    bpc, bjob, left,
    bkind          \* its delivery, common to all items

table   == <<status, delivery, delivered>>
process == <<phase, wake, running>>
workers == <<pc, job, stage, verdict, mustCancel>>
callers == <<cpc, target>>
batch   == <<bpc, bjob, left, bkind>>
vars    == <<table, process, workers, callers, batch>>

\* The abstract promise, about the same status and delivery columns.
JL == INSTANCE JobLifecycle WITH Jobs <- Jobs, status <- status, delivery <- delivery

-----------------------------------------------------------------------------
(* Who is executing *)

\* A worker at one of these has the event loop, inside one coroutine step.
Holding == {"again", "claim", "check", "park", "spawn", "update", "reread",
            "deliver", "finish", "confirm"}

\* A worker at one of these waits for the loop, an external answer or a wake.
Suspended == {"ready", "parked", "created", "await", "ended"}

BatchHolding == {"reject", "confirm", "notify"}

LoopFree == (\A w \in Workers : pc[w] \notin Holding) /\ bpc \notin BatchHolding

\* The process task exists and has not finished.
TaskPending == {"created", "update", "reread", "await", "deliver"}

\* A worker owns its job from the claim until it drops it from _running.
Owns(w, j) == job[w] = j

Owned(j) == \E w \in Workers : Owns(w, j)

-----------------------------------------------------------------------------
(* Guards of the repository's UPDATE and DELETE statements *)

Exists(s) == s \notin {"absent", "gone"}

\* cancel: WHERE status NOT IN (completed, failed, cancelled)
AnyRow(s) == Exists(s)
Cancellable(s) == Exists(s) /\ s \notin JL!Terminal

\* retry: WHERE status = failed
AnyFinished(s) == s \in JL!Terminal
Retryable(s) == s = "failed"

\* A browser_artifacts row exists; cleanup_expired, which deletes it, has no caller.
HasArtifact(j) == j \in delivered /\ delivery[j] = "browser"

\* clear_terminal_history: terminal and no browser artifact
Clearable(j) == status[j] \in JL!Terminal /\ ~HasArtifact(j)

\* recover_interrupted: every status that is neither terminal nor queued
RecoveredButPublishing(s) == IF s \in JL!Active \ {"publishing"} THEN "queued" ELSE s
Recovered(s) == IF s \in JL!Active THEN "queued" ELSE s

\* claim_next: the queued job with the smallest created_at
OldestQueued(j) ==
    /\ status[j] = "queued"
    /\ \A k \in Jobs : status[k] = "queued" => j <= k

\* The next id create_job uses.
NextFree(j) == status[j] = "absent" /\ \A k \in Jobs : k < j => status[k] # "absent"

-----------------------------------------------------------------------------
(* asyncio.Event.set: a no-op when the flag is up, else it wakes all waiters. *)

WakeFlagOnly == wake' = "set" /\ UNCHANGED pc
Wake ==
    /\ wake' = "set"
    /\ pc' = IF wake = "set" THEN pc
             ELSE [w \in Workers |-> IF pc[w] = "parked" THEN "ready" ELSE pc[w]]

-----------------------------------------------------------------------------
(* QueueService._worker *)

Goto(w, label) == pc' = [pc EXCEPT ![w] = label]

SetStatus(j, s) == status' = [status EXCEPT ![j] = s]

\* `finally: self._running.pop(job.id, None)`, and the worker goes to label.
Release(w, label) ==
    /\ running' = [running EXCEPT ![job[w]] = NoWorker]
    /\ job' = [job EXCEPT ![w] = NoJob]
    /\ stage' = [stage EXCEPT ![w] = "none"]
    /\ verdict' = [verdict EXCEPT ![w] = "none"]
    /\ mustCancel' = mustCancel \ {w}
    /\ Goto(w, label)
    /\ UNCHANGED <<phase, wake>>

\* `while not self._stopping: self._wake.clear()`
Begin(w) ==
    /\ pc[w] = "again" \/ (pc[w] = "ready" /\ LoopFree)
    /\ \/ phase = "stopping" /\ Goto(w, "exited") /\ UNCHANGED wake
       \/ phase = "up" /\ Goto(w, "claim") /\ wake' = "clear"
    /\ UNCHANGED <<table, phase, running, job, stage, verdict, mustCancel, callers, batch>>

\* claim_next, one BEGIN IMMEDIATE transaction
Claim(w) ==
    /\ pc[w] = "claim"
    /\ \/ /\ \A j \in Jobs : status[j] # "queued"
          /\ Goto(w, "check")
          /\ UNCHANGED <<status, job>>
       \/ \E j \in Jobs :
          /\ OldestQueued(j)
          /\ SetStatus(j, "resolving")
          /\ job' = [job EXCEPT ![w] = j]
          /\ Goto(w, "spawn")
    /\ UNCHANGED <<delivery, delivered, process, stage, verdict, mustCancel,
                   callers, batch>>

\* Event.wait returns at once when the flag is up; otherwise it registers a
\* future in a second step, and a thread may call set() in between.
CheckWake(w) ==
    /\ pc[w] = "check"
    /\ Goto(w, IF wake = "set" THEN "again" ELSE "park")
    /\ UNCHANGED <<table, process, job, stage, verdict, mustCancel, callers, batch>>

Park(w) ==
    /\ pc[w] = "park"
    /\ Goto(w, "parked")
    /\ UNCHANGED <<table, process, job, stage, verdict, mustCancel, callers, batch>>

\* create_task, `self._running[job.id] = task`, `await task`
Spawn(w) ==
    /\ pc[w] = "spawn"
    /\ running' = [running EXCEPT ![job[w]] = w]
    /\ Goto(w, "created")
    /\ UNCHANGED <<table, phase, wake, job, stage, verdict, mustCancel, callers, batch>>

-----------------------------------------------------------------------------
(* PipelineProcessor.process, one task per claimed job *)

\* The task finishes; `raise`, a return and a cancellation all end here.
End(w, how) ==
    /\ verdict' = [verdict EXCEPT ![w] = how]
    /\ Goto(w, "ended")
    /\ UNCHANGED stage

\* The next `repository.transition` of the task.
Enter(w, s) ==
    /\ stage' = [stage EXCEPT ![w] = s]
    /\ Goto(w, "update")
    /\ UNCHANGED verdict

\* The first step of the task; a pending cancel stops it before its first line.
StartTask(w) ==
    /\ pc[w] = "created" /\ LoopFree
    /\ IF w \in mustCancel THEN End(w, "cancelled") ELSE Enter(w, "resolving")
    /\ UNCHANGED <<table, process, job, mustCancel, callers, batch>>

\* transition: UPDATE jobs SET status = ? WHERE id = ?, whatever the status was;
\* no row is a KeyError, which fails the task.
Update(w) ==
    /\ pc[w] = "update"
    /\ IF Exists(status[job[w]])
       THEN SetStatus(job[w], stage[w]) /\ Goto(w, "reread") /\ UNCHANGED <<stage, verdict>>
       ELSE End(w, "failed") /\ UNCHANGED status
    /\ UNCHANGED <<delivery, delivered, process, job, mustCancel, callers, batch>>

\* transition's closing get_job, then on to the await or the publication the
\* stage is about; revalidate_exact may raise before it first suspends.
Reread(w) ==
    /\ pc[w] = "reread"
    /\ \/ ~Exists(status[job[w]]) /\ End(w, "failed")
       \/ stage[w] = "resolving" /\ End(w, "failed")
       \/ /\ Exists(status[job[w]])
          /\ Goto(w, IF stage[w] = "publishing" THEN "deliver" ELSE "await")
          /\ UNCHANGED <<stage, verdict>>
    /\ UNCHANGED <<table, process, job, mustCancel, callers, batch>>

\* The stage entered once the await of the current one returns.
StraightToPublishing(w) ==
    IF stage[w] = "resolving" THEN "downloading" ELSE "publishing"
NextStage(w) ==
    CASE stage[w] = "resolving" -> "downloading"
      [] stage[w] = "downloading" -> "tagging"
      [] OTHER -> "publishing"

\* revalidate, download or artwork returns, raises, or is cancelled.
Resume(w) ==
    /\ pc[w] = "await" /\ LoopFree
    /\ IF w \in mustCancel
       THEN End(w, "cancelled")
       ELSE \/ End(w, "failed")
            \/ /\ stage[w] = "tagging" /\ delivery[job[w]] = "browser"
               /\ Goto(w, "deliver")
               /\ UNCHANGED <<stage, verdict>>
            \/ /\ stage[w] # "tagging" \/ delivery[job[w]] = "server"
               /\ Enter(w, NextStage(w))
    /\ UNCHANGED <<table, process, job, mustCancel, callers, batch>>

\* to_browser needs its directory not to exist yet and its row's foreign key
\* to find the job; to_server has neither condition.
WithoutForeignKey(j) == delivery[j] = "browser" => j \notin delivered
CanDeliver(j) ==
    delivery[j] = "browser" => j \notin delivered /\ Exists(status[j])

\* to_server or to_browser, synchronous on the loop.  A cancel that arrives
\* from a thread meanwhile turns the finished task into a cancelled one.
Deliver(w) ==
    /\ pc[w] = "deliver"
    /\ \/ End(w, "failed") /\ UNCHANGED delivered
       \/ /\ CanDeliver(job[w])
          /\ delivered' = delivered \union {job[w]}
          /\ End(w, IF w \in mustCancel THEN "cancelled" ELSE "ok")
    /\ UNCHANGED <<status, delivery, process, job, mustCancel, callers, batch>>

-----------------------------------------------------------------------------
(* QueueService._worker, after `await task` *)

\* `current and current.status != CANCELLED`
StillThere(s) == Exists(s)
StillWanted(s) == Exists(s) /\ s # "cancelled"

\* CancelledError: repository.cancel.  Any other end: get_job, and a job that
\* was cancelled or cleared is left alone.
Settle(w) ==
    /\ pc[w] = "ended" /\ LoopFree
    /\ LET j == job[w] IN
       \/ /\ verdict[w] = "cancelled"
          /\ SetStatus(j, IF Cancellable(status[j]) THEN "cancelled" ELSE status[j])
          /\ Release(w, "again")
       \/ /\ verdict[w] # "cancelled" /\ ~StillWanted(status[j])
          /\ Release(w, "again")
          /\ UNCHANGED status
       \/ /\ verdict[w] # "cancelled" /\ StillWanted(status[j])
          /\ Goto(w, "finish")
          /\ UNCHANGED <<status, process, job, stage, verdict, mustCancel>>
    /\ UNCHANGED <<delivery, delivered, callers, batch>>

OutcomeOfStage(w) ==
    IF stage[w] = JL!LastStage(delivery[job[w]]) THEN "completed" ELSE "failed"
Outcome(w) == IF verdict[w] = "ok" THEN "completed" ELSE "failed"

\* transition to COMPLETED or FAILED.  Its KeyError is raised outside the
\* handlers: the worker task dies, after the finally clause.
Finish(w) ==
    /\ pc[w] = "finish"
    /\ \/ /\ Exists(status[job[w]])
          /\ SetStatus(job[w], Outcome(w))
          /\ Goto(w, "confirm")
          /\ UNCHANGED <<process, job, stage, verdict, mustCancel>>
       \/ /\ ~Exists(status[job[w]])
          /\ Release(w, "dead")
          /\ UNCHANGED status
    /\ UNCHANGED <<delivery, delivered, callers, batch>>

\* transition's closing get_job: the same KeyError when the row is gone.
Confirm(w) ==
    /\ pc[w] = "confirm"
    /\ Release(w, IF Exists(status[job[w]]) THEN "again" ELSE "dead")
    /\ UNCHANGED <<table, callers, batch>>

WorkerStep(w) ==
    \/ Begin(w) \/ Claim(w) \/ CheckWake(w) \/ Park(w) \/ Spawn(w)
    \/ StartTask(w) \/ Update(w) \/ Reread(w) \/ Resume(w) \/ Deliver(w)
    \/ Settle(w) \/ Finish(w) \/ Confirm(w)

-----------------------------------------------------------------------------
(* The endpoints that run in threads *)

\* POST /tasks/{id}/cancel: repository.cancel commits ...
CancelCommit(c, j) ==
    /\ "cancel" \in Ops /\ phase = "up" /\ cpc[c] = "idle"
    /\ status[j] # "absent"
    /\ SetStatus(j, IF Cancellable(status[j]) THEN "cancelled" ELSE status[j])
    /\ cpc' = [cpc EXCEPT ![c] = "signal"]
    /\ target' = [target EXCEPT ![c] = j]
    /\ UNCHANGED <<delivery, delivered, process, workers, batch>>

\* ... and only then is the task looked up in _running and cancelled; a task
\* that has finished ignores it.
CancelSignal(c) ==
    /\ cpc[c] = "signal"
    /\ mustCancel' = mustCancel \union
           {w \in Workers : running[target[c]] = w /\ pc[w] \in TaskPending}
    /\ cpc' = [cpc EXCEPT ![c] = "idle"]
    /\ target' = [target EXCEPT ![c] = NoJob]
    /\ UNCHANGED <<table, process, pc, job, stage, verdict, batch>>

\* POST /tasks/{id}/retry: repository.retry commits, re-reads the row and
\* wakes the workers from this thread.
RetryCommit(c, j) ==
    /\ "retry" \in Ops /\ phase = "up" /\ cpc[c] = "idle"
    /\ Retryable(status[j])
    /\ SetStatus(j, "queued")
    /\ cpc' = [cpc EXCEPT ![c] = "reread"]
    /\ target' = [target EXCEPT ![c] = j]
    /\ UNCHANGED <<delivery, delivered, process, workers, batch>>

RetryReread(c) ==
    /\ cpc[c] = "reread"
    /\ cpc' = [cpc EXCEPT ![c] = IF Exists(status[target[c]]) THEN "notify" ELSE "idle"]
    /\ target' = [target EXCEPT ![c] = NoJob]
    /\ UNCHANGED <<table, process, workers, batch>>

RetryNotify(c) ==
    /\ cpc[c] = "notify"
    /\ Wake
    /\ cpc' = [cpc EXCEPT ![c] = "idle"]
    /\ UNCHANGED <<table, phase, running, job, stage, verdict, mustCancel, target, batch>>

\* DELETE /history, one DELETE statement
ClearHistory ==
    /\ "clear" \in Ops /\ phase = "up"
    /\ \E j \in Jobs : Clearable(j)
    /\ status' = [j \in Jobs |-> IF Clearable(j) THEN "gone" ELSE status[j]]
    /\ UNCHANGED <<delivery, delivered, process, workers, callers, batch>>

CallerStep(c) == CancelSignal(c) \/ RetryReread(c) \/ RetryNotify(c)

-----------------------------------------------------------------------------
(* POST /batches: create_batch, a coroutine on the loop *)

\* The call leaves the items it has not reached; an exception is a 500 answer.
BatchEnds ==
    /\ bpc' = "idle" /\ bjob' = NoJob /\ left' = 0 /\ bkind' = "server"

\* On to the next item's prepare_request, or to the notify after the last one.
BatchContinues ==
    /\ bpc' = IF left = 1 THEN "notify" ELSE "prepare"
    /\ bjob' = NoJob
    /\ left' = left - 1
    /\ UNCHANGED bkind

SubmitBatch(n, kind) ==
    /\ phase = "up" /\ bpc = "idle"
    /\ \E j \in Jobs : NextFree(j)
    /\ bpc' = "prepare" /\ left' = n /\ bkind' = kind
    /\ UNCHANGED <<table, process, workers, callers, bjob>>

\* prepare_request returned: create_job inserts the queued row.
Insert(j) ==
    /\ NextFree(j)
    /\ SetStatus(j, "queued")
    /\ delivery' = [delivery EXCEPT ![j] = bkind]
    /\ UNCHANGED <<delivered>>

AcceptItem(j) ==
    /\ bpc = "prepare" /\ LoopFree
    /\ Insert(j)
    /\ BatchContinues
    /\ UNCHANGED <<process, workers, callers>>

\* A ValueError of prepare_request, or a song the library already has: the
\* job is created queued and moved to FAILED by a second transaction.
RefuseItem(j) ==
    /\ bpc = "prepare" /\ LoopFree
    /\ Insert(j)
    /\ bpc' = "reject" /\ bjob' = j /\ UNCHANGED <<left, bkind>>
    /\ UNCHANGED <<process, workers, callers>>

RejectItem ==
    /\ bpc = "reject"
    /\ IF Exists(status[bjob])
       THEN SetStatus(bjob, "failed") /\ bpc' = "confirm" /\ UNCHANGED <<bjob, left, bkind>>
       ELSE BatchEnds /\ UNCHANGED status
    /\ UNCHANGED <<delivery, delivered, process, workers, callers>>

ConfirmItem ==
    /\ bpc = "confirm"
    /\ IF Exists(status[bjob]) THEN BatchContinues ELSE BatchEnds
    /\ UNCHANGED <<table, process, workers, callers>>

\* The rest of the batch is dropped when the ids of the instance run out.
NoMoreIds ==
    /\ bpc = "prepare" /\ LoopFree
    /\ \A j \in Jobs : ~NextFree(j)
    /\ bpc' = "notify" /\ left' = 0
    /\ UNCHANGED <<bjob, bkind, table, process, workers, callers>>

\* QualitySnapshotExpired and QualitySnapshotMismatch are no ValueError: they
\* leave create_batch before its notify.
ItemEscapes ==
    /\ "escape" \in Faults
    /\ bpc = "prepare" /\ LoopFree
    /\ BatchEnds
    /\ UNCHANGED <<table, process, workers, callers>>

BatchNotify ==
    /\ bpc = "notify"
    /\ Wake
    /\ BatchEnds
    /\ UNCHANGED <<table, phase, running, job, stage, verdict, mustCancel, callers>>

BatchStep ==
    \/ \E j \in Jobs : AcceptItem(j) \/ RefuseItem(j)
    \/ RejectItem \/ ConfirmItem \/ NoMoreIds \/ ItemEscapes \/ BatchNotify

-----------------------------------------------------------------------------
(* The life of the process *)

NoProcess ==
    /\ wake' = "clear"
    /\ running' = [j \in Jobs |-> NoWorker]
    /\ pc' = [w \in Workers |-> "off"]
    /\ job' = [w \in Workers |-> NoJob]
    /\ stage' = [w \in Workers |-> "none"]
    /\ verdict' = [w \in Workers |-> "none"]
    /\ mustCancel' = {}
    /\ cpc' = [c \in Callers |-> "idle"]
    /\ target' = [c \in Callers |-> NoJob]
    /\ BatchEnds

\* QueueService.start, before the first request is served
StartService ==
    /\ phase = "down" /\ phase' = "up"
    /\ status' = [j \in Jobs |-> Recovered(status[j])]
    /\ pc' = [w \in Workers |-> "ready"]
    /\ wake' = "set"
    /\ UNCHANGED <<delivery, delivered, running, job, stage, verdict, mustCancel,
                   callers, batch>>

\* QueueService.stop: the server has answered its last request.
StopService ==
    /\ "stop" \in Faults
    /\ phase = "up" /\ phase' = "stopping"
    /\ LoopFree /\ bpc = "idle" /\ \A c \in Callers : cpc[c] = "idle"
    /\ mustCancel' = mustCancel \union
           {w \in Workers : pc[w] \in TaskPending /\ \E j \in Jobs : running[j] = w}
    /\ Wake
    /\ UNCHANGED <<table, running, job, stage, verdict, callers, batch>>

\* `await gather(*self._workers)` returns and the process exits.
Exit ==
    /\ phase = "stopping" /\ phase' = "down"
    /\ \A w \in Workers : pc[w] \in {"exited", "dead"}
    /\ NoProcess
    /\ UNCHANGED table

Crash ==
    /\ "crash" \in Faults
    /\ phase # "down" /\ phase' = "down"
    /\ NoProcess
    /\ UNCHANGED table

-----------------------------------------------------------------------------

Init ==
    /\ status = [j \in Jobs |-> "absent"]
    /\ delivery = [j \in Jobs |-> "server"]
    /\ delivered = {}
    /\ phase = "down" /\ wake = "clear"
    /\ running = [j \in Jobs |-> NoWorker]
    /\ pc = [w \in Workers |-> "off"]
    /\ job = [w \in Workers |-> NoJob]
    /\ stage = [w \in Workers |-> "none"]
    /\ verdict = [w \in Workers |-> "none"]
    /\ mustCancel = {}
    /\ cpc = [c \in Callers |-> "idle"]
    /\ target = [c \in Callers |-> NoJob]
    /\ bpc = "idle" /\ bjob = NoJob /\ left = 0 /\ bkind = "server"

Next ==
    \/ \E w \in Workers : WorkerStep(w)
    \/ \E c \in Callers, j \in Jobs : CancelCommit(c, j) \/ RetryCommit(c, j)
    \/ \E c \in Callers : CallerStep(c)
    \/ ClearHistory
    \/ \E n \in 1..MaxItems, kind \in JL!Deliveries : SubmitBatch(n, kind)
    \/ BatchStep
    \/ StartService \/ StopService \/ Exit \/ Crash

Spec == Init /\ [][Next]_vars

\* The loop runs every ready callback in turn, so a coroutine that is enabled
\* again and again runs; external calls have timeouts; a thread that has begun
\* finishes; Docker restarts the container.  Nobody has to use an endpoint.
Fairness ==
    /\ \A w \in Workers : SF_vars(WorkerStep(w))
    /\ \A c \in Callers : WF_vars(CallerStep(c))
    /\ SF_vars(BatchStep)
    /\ WF_vars(StartService) /\ WF_vars(Exit)

FairSpec == Spec /\ Fairness

-----------------------------------------------------------------------------
(* Properties *)

Labels == Holding \union Suspended \union {"off", "exited", "dead"}

TableType ==
    /\ status \in [Jobs -> JL!Statuses] /\ delivery \in [Jobs -> JL!Deliveries]
    /\ delivered \subseteq Jobs

ProcessType ==
    /\ phase \in {"down", "up", "stopping"} /\ wake \in {"set", "clear"}
    /\ running \in [Jobs -> Workers \union {NoWorker}]

WorkersType ==
    /\ pc \in [Workers -> Labels] /\ job \in [Workers -> Jobs \union {NoJob}]
    /\ stage \in [Workers -> JL!Active \union {"none"}]
    /\ verdict \in [Workers -> {"none", "ok", "failed", "cancelled"}]
    /\ mustCancel \subseteq Workers

CallersType ==
    /\ cpc \in [Callers -> {"idle", "signal", "reread", "notify"}]
    /\ target \in [Callers -> Jobs \union {NoJob}]

BatchType ==
    /\ bpc \in {"idle", "prepare"} \union BatchHolding /\ bjob \in Jobs \union {NoJob}
    /\ left \in 0..MaxItems /\ bkind \in JL!Deliveries

\* The ids are the order of creation.
CreatedInOrder ==
    \A j, k \in Jobs : j < k /\ status[k] # "absent" => status[j] # "absent"

\* Every variable has its type, and rows are created in the order of their ids.
TypeOK ==
    TableType /\ ProcessType /\ WorkersType /\ CallersType /\ BatchType /\ CreatedInOrder

\* No job is executed by two workers at once, whatever retries and clears do
\* between the transactions of the worker that is finishing it.
OneWorkerPerJob ==
    \A v, w \in Workers : job[v] # NoJob /\ job[v] = job[w] => v = w

\* A job in an active status is being executed by a live worker: no job is
\* orphaned half-way, and at most Cardinality(Workers) are active at once.
ActiveIsOwned ==
    phase = "up" => \A j \in Jobs : status[j] \in JL!Active => Owned(j)

\* A job is COMPLETED only after its file was delivered, through any number of
\* cancels, crashes and retries.
CompletedMeansDelivered ==
    \A j \in Jobs : status[j] = "completed" => j \in delivered

\* A browser file that can be fetched keeps its task row: clearing the history
\* spares it, and a job cleared while it ran registers no file.
ArtifactKeepsRow ==
    \A j \in Jobs : HasArtifact(j) => status[j] # "gone"

\* A cancel is settled when nothing can still write the row: nobody owns the
\* job and no batch is refusing it, its suspended task has the cancel, or
\* its task is over and the worker has yet to look at the row.
CancelSettled(j) ==
    /\ status[j] = "cancelled"
    /\ bjob # j
    /\ \A w \in Workers : Owns(w, j) =>
           \/ w \in mustCancel /\ pc[w] \in {"created", "await"}
           \/ pc[w] = "ended"

\* A settled cancel is final: it stays settled until the job is cleared, and so
\* the job never runs, fails or completes again.
SettledCancelIsFinal ==
    [][\A j \in Jobs : CancelSettled(j) => status'[j] = "gone" \/ CancelSettled(j)']_vars

\* A completed job is only ever cleared, a failed one only retried or cleared:
\* no late cancel or transition rewrites the outcome.
OutcomeIsFinal ==
    [][\A j \in Jobs :
         /\ status[j] = "completed" => status'[j] \in {"completed", "gone"}
         /\ status[j] = "failed" => status'[j] \in {"failed", "queued", "gone"}]_vars

\* The queue is one of the job lifecycles the documentation describes.
Lifecycle == JL!Spec

\* With cancels too, but for one thing: a cancelled row may be written over by
\* whoever has yet to learn of the cancel.  Stages keep their order, and only a
\* retry or a clear leads out of the other outcomes.
LifecycleButForCancels == JL!LossySpec

\* Every submitted job ends, provided the process stays up from some time on.
EveryJobSettles ==
    <>[](phase = "up") =>
        \A j \in Jobs : status[j] \in JL!Live ~> status[j] \notin JL!Live

\* A requested stop ends the process: no worker keeps gather waiting.
StopCompletes == phase = "stopping" ~> phase = "down"
=============================================================================
