----------------------- MODULE DownloadQueueRefinement -----------------------
(***************************************************************************)
(* DownloadQueue implements JobLifecycle, for any number of jobs, workers, *)
(* threads and batch items, but for the cancels that a task writes over;   *)
(* and when the operator does not cancel, there are none of these.         *)
(***************************************************************************)
EXTENDS DownloadQueueProofs

USE QueueAssumption, LabelElements, StatusElements DEF Jobs, NoJob

-----------------------------------------------------------------------------
(* The row follows the task *)

LEMMA StageFacts ==
    /\ JL!Active = {"resolving", "downloading", "tagging", "publishing"}
    /\ JL!Deliveries = {"server", "browser"}
    /\ \A kind \in JL!Deliveries :
          JL!LastStage(kind) = IF kind = "server" THEN "publishing" ELSE "tagging"
  BY DEF JL!Active, JL!Deliveries, JL!LastStage

LEMMA OwnStageRow ==
    ASSUME IInv, StageRow, NEW w \in Workers, WorkerStep(w)
    PROVE  OnStage(w)'
<1> USE DEF Goto, Release, SetStatus, End, Enter, process, table, Executing, OnStage, CalledOff
<1>0. /\ job \in [Workers -> Jobs \union {NoJob}] /\ pc \in [Workers -> Labels]
      /\ status \in [Jobs -> JL!Statuses] /\ delivery \in [Jobs -> JL!Deliveries]
      /\ stage \in [Workers -> JL!Active \union {"none"}]
      /\ verdict \in [Workers -> {"none", "ok", "failed", "cancelled"}]
    BY DEF IInv, TypeOK, WorkersType, TableType
<1>1. /\ job[w] # NoJob <=> pc[w] \in Executing
      /\ pc[w] \in {"update", "reread", "await", "deliver"} => stage[w] \in JL!Active
      /\ verdict[w] # "none" => pc[w] \in {"ended", "finish", "confirm"}
    BY DEF IInv, TaskShape
<1>2. OnStage(w)
    BY DEF StageRow
<1>3. CASE Begin(w)
    BY <1>0, <1>1, <1>2, <1>3 DEF Begin
<1>4. CASE Claim(w)
    BY <1>0, <1>1, <1>2, <1>4, StageFacts DEF Claim
<1>5. CASE CheckWake(w) \/ Park(w)
    BY <1>0, <1>1, <1>2, <1>5 DEF CheckWake, Park
<1>6. CASE Spawn(w)
    BY <1>0, <1>1, <1>2, <1>6 DEF Spawn
<1>7. CASE StartTask(w)
    BY <1>0, <1>1, <1>2, <1>7, StageFacts DEF StartTask, Before
<1>8. CASE Update(w)
    BY <1>0, <1>1, <1>2, <1>8, StageFacts DEF Update
<1>9. CASE Reread(w)
    BY <1>0, <1>1, <1>2, <1>9, StageFacts DEF Reread
<1>10. CASE Resume(w)
  <2>1. /\ job' = job /\ job[w] # NoJob /\ status' = status /\ delivery' = delivery
        /\ CalledOff(job[w]) \/ status[job[w]] = stage[w]
        /\ stage[w] \in JL!Active /\ delivery[job[w]] \in JL!Deliveries
        /\ stage[w] # "publishing" /\ verdict[w] = "none"
    BY <1>0, <1>1, <1>2, <1>10 DEF Resume, table
  <2>2. CASE End(w, "cancelled") \/ End(w, "failed")
    BY <1>0, <2>1, <2>2, StageFacts
  <2>3. CASE stage[w] = "tagging" /\ delivery[job[w]] = "browser" /\ Goto(w, "deliver")
             /\ UNCHANGED <<stage, verdict>>
    BY <1>0, <2>1, <2>3, StageFacts
  <2>4. CASE (stage[w] # "tagging" \/ delivery[job[w]] = "server") /\ Enter(w, NextStage(w))
    <3>1. /\ NextStage(w) \in JL!Active /\ Before(NextStage(w)) = stage[w]
          /\ NextStage(w) = "publishing" => delivery[job[w]] = "server"
      BY <2>1, <2>4, StageFacts DEF NextStage, Before
    <3> QED
      BY <1>0, <2>1, <2>4, <3>1, StageFacts
  <2> QED
    BY <1>10, <2>2, <2>3, <2>4 DEF Resume
<1>11. CASE Deliver(w)
    BY <1>0, <1>1, <1>2, <1>11, StageFacts DEF Deliver
<1>12. CASE Settle(w)
    BY <1>0, <1>1, <1>2, <1>12 DEF Settle
<1>13. CASE Finish(w)
    BY <1>0, <1>1, <1>2, <1>13 DEF Finish
<1>14. CASE Confirm(w)
    BY <1>0, <1>1, <1>2, <1>14 DEF Confirm
<1> QED
    BY <1>3, <1>4, <1>5, <1>6, <1>7, <1>8, <1>9, <1>10, <1>11, <1>12, <1>13, <1>14
       DEF WorkerStep

LEMMA WorkerStageRow ==
    ASSUME IInv, StageRow, NEW w \in Workers, WorkerStep(w)
    PROVE  StageRow'
<1>1. /\ \A v \in Workers \ {w} :
             /\ pc'[v] = pc[v] /\ job'[v] = job[v]
             /\ stage'[v] = stage[v] /\ verdict'[v] = verdict[v]
      /\ \A k \in Jobs \ {job[w], job'[w]} : status'[k] = status[k]
      /\ delivery' = delivery
    BY StepOfOne DEF IInv
<1>2. OneWorkerPerJob' /\ job' \in [Workers -> Jobs \union {NoJob}]
    BY WorkerIInv DEF IInv, Ownership, TypeOK, WorkersType
<1>3. ASSUME NEW v \in Workers \ {w}, job'[v] # NoJob
      PROVE  job'[v] \in Jobs \ {job[w], job'[w]}
    BY <1>1, <1>2, <1>3 DEF IInv, Ownership, OneWorkerPerJob
<1>4. ASSUME NEW v \in Workers \ {w} PROVE OnStage(v)'
    BY <1>1, <1>3 DEF StageRow, OnStage, CalledOff
<1> QED
    BY <1>4, OwnStageRow DEF StageRow

\* What other actors may do to a row that is owned: cancel it and clear it.
Spared ==
    /\ UNCHANGED <<job, stage, verdict>>
    /\ \A w \in Workers : job[w] # NoJob =>
          /\ pc'[w] = pc[w] /\ delivery'[job[w]] = delivery[job[w]]
          /\ \/ status'[job[w]] = status[job[w]] \/ CalledOff(job[w])'
             \/ pc[w] = "confirm"

NobodyWorks == \A w \in Workers : job'[w] = NoJob /\ stage'[w] = "none"

LEMMA SparedRowsStay == StageRow /\ (Spared \/ NobodyWorks) => StageRow'
  BY DEF StageRow, OnStage, CalledOff, Spared, NobodyWorks

\* Every other actor spares the rows that are owned.
LEMMA OthersSpare ==
    ASSUME IInv, [Next]_vars
    PROVE  (\E w \in Workers : WorkerStep(w)) \/ Spared \/ NobodyWorks
<1> USE DEF Spared, SetStatus, process, workers, batch, callers, table
<1>a. /\ status \in [Jobs -> JL!Statuses] /\ delivery \in [Jobs -> JL!Deliveries]
      /\ job \in [Workers -> Jobs \union {NoJob}] /\ pc \in [Workers -> Labels]
      /\ bjob \in Jobs \union {NoJob}
    BY DEF IInv, TypeOK, TableType, WorkersType, BatchType
<1>b. /\ \A w \in Workers : job[w] # NoJob => pc[w] # "parked" /\ pc[w] # "off"
      /\ bjob # NoJob <=> bpc \in {"reject", "confirm"}
      /\ \A w \in Workers : phase = "down" <=> pc[w] = "off"
    BY DEF IInv, TaskShape, Executing
<1>c. \A w \in Workers : job[w] # NoJob =>
         /\ status[job[w]] # "absent" /\ job[w] # bjob /\ job[w] \in Jobs
         /\ status[job[w]] \in {"queued", "completed", "failed"} => pc[w] = "confirm"
    BY <1>a DEF IInv, Ownership, OwnedRow, RefusedRow, Owned, Owns
<1>1. ASSUME NEW c \in Callers, NEW j \in Jobs, CancelCommit(c, j) PROVE Spared
    BY <1>1, <1>a, <1>c DEF CancelCommit, CalledOff
<1>2. ASSUME NEW c \in Callers, NEW j \in Jobs, RetryCommit(c, j) PROVE Spared
    BY <1>2, <1>a, <1>c DEF RetryCommit, Retryable
<1>3. ASSUME NEW c \in Callers, CallerStep(c) PROVE Spared
    BY <1>3, <1>a, <1>b DEF CallerStep, CancelSignal, RetryReread, RetryNotify, Wake
<1>4. CASE ClearHistory
    BY <1>4, <1>a, <1>c DEF ClearHistory, CalledOff
<1>5. ASSUME NEW n \in 1..MaxItems, NEW kind \in JL!Deliveries, SubmitBatch(n, kind)
      PROVE  Spared
    BY <1>5 DEF SubmitBatch
<1>6. ASSUME NEW j \in Jobs, AcceptItem(j) \/ RefuseItem(j) PROVE Spared
    BY <1>6, <1>a, <1>c DEF AcceptItem, RefuseItem, Insert, NextFree
<1>7. CASE RejectItem
    BY <1>7, <1>a, <1>c DEF RejectItem
<1>8. CASE ConfirmItem \/ NoMoreIds \/ ItemEscapes
    BY <1>8 DEF ConfirmItem, NoMoreIds, ItemEscapes
<1>9. CASE BatchNotify
    BY <1>9, <1>a, <1>b DEF BatchNotify, Wake
<1>10. CASE StartService
    BY <1>10, <1>a, <1>b DEF StartService
<1>11. CASE StopService
    BY <1>11, <1>a, <1>b DEF StopService, Wake
<1>12. CASE Exit \/ Crash
    BY <1>12 DEF Exit, Crash, NoProcess, NobodyWorks
<1>13. CASE UNCHANGED vars
    BY <1>13 DEF vars
<1> QED
    BY <1>1, <1>2, <1>3, <1>4, <1>5, <1>6, <1>7, <1>8, <1>9, <1>10, <1>11, <1>12, <1>13
       DEF Next, BatchStep

LEMMA NextStageRow == IInv /\ StageRow /\ [Next]_vars => StageRow'
  BY WorkerStageRow, OthersSpare, SparedRowsStay

-----------------------------------------------------------------------------
(* Every step is a step of the lifecycle, or leaves the rows alone *)

\* Writing a row: JL!Becomes.
LEMMA BecomesIt ==
    ASSUME NEW j \in Jobs, NEW s, SetStatus(j, s), delivery' = delivery
    PROVE  JL!Becomes(j, s)
  BY DEF SetStatus, JL!Becomes

LEMMA SameStatus ==
    ASSUME status \in [Jobs -> JL!Statuses], NEW j \in Jobs, SetStatus(j, status[j])
    PROVE  status' = status
  BY DEF SetStatus

\* A task that has not seen the cancel writes the status it has come to.
LEMMA OverwritesIt ==
    ASSUME NEW j \in Jobs, NEW s \in JL!Active \union {"completed", "failed"},
           status[j] = "cancelled", JL!Becomes(j, s)
    PROVE  JL!LossyNext
  BY DEF JL!LossyNext, JL!Overwrite

LEMMA WorkerRefines ==
    ASSUME IInv, StageRow, NEW w \in Workers, WorkerStep(w)
    PROVE  [JL!LossyNext]_JL!lifecycle
<1> USE DEF JL!lifecycle
<1>0. delivery' = delivery
    BY StepOfOne DEF IInv
<1>1. /\ status \in [Jobs -> JL!Statuses] /\ delivery \in [Jobs -> JL!Deliveries]
      /\ job \in [Workers -> Jobs \union {NoJob}]
      /\ stage \in [Workers -> JL!Active \union {"none"}]
    BY DEF IInv, TypeOK, TableType, WorkersType
<1>2. /\ job[w] # NoJob <=> pc[w] \in Executing
      /\ pc[w] = "update" => stage[w] \in JL!Active
      /\ verdict[w] = "ok" => pc[w] \in {"ended", "finish", "confirm"}
    BY DEF IInv, TaskShape
<1>3. CASE status' = status
    BY <1>0, <1>3
<1>a. ASSUME job[w] # NoJob, pc[w] # "confirm", Exists(status[job[w]])
      PROVE  status[job[w]] \in JL!Active \union {"cancelled"} /\ job[w] \in Jobs
    BY <1>a, <1>1 DEF IInv, Ownership, OwnedRow, Exists, JL!Statuses, JL!Live, JL!Terminal
<1>4. CASE Claim(w)
  <2>1. ASSUME NEW j \in Jobs, OldestQueued(j), SetStatus(j, "resolving")
        PROVE  JL!Start(j)
    BY <1>0, <2>1, BecomesIt DEF OldestQueued, JL!Start
  <2> QED
    BY <1>3, <1>4, <2>1 DEF Claim, JL!LossyNext, JL!Next
<1>5. CASE Update(w) /\ Exists(status[job[w]])
  <2>1. /\ job[w] \in Jobs /\ stage[w] \in JL!Active /\ SetStatus(job[w], stage[w])
        /\ stage[w] = "publishing" => delivery[job[w]] = "server"
        /\ status[job[w]] = "cancelled" \/ status[job[w]] = Before(stage[w])
    BY <1>1, <1>2, <1>5 DEF Update, Executing, StageRow, OnStage, CalledOff, Exists
  <2>2. JL!Becomes(job[w], stage[w])
    BY <1>0, <2>1, BecomesIt
  <2>3. CASE status[job[w]] = "cancelled"
    BY <2>1, <2>2, <2>3, OverwritesIt
  <2>4. CASE status[job[w]] = Before(stage[w]) /\ stage[w] = "resolving"
    BY <1>1, <1>3, <2>1, <2>4, SameStatus DEF Before
  <2>5. CASE status[job[w]] = Before(stage[w]) /\ stage[w] # "resolving"
    <3>1. JL!Follows(status[job[w]], stage[w], delivery[job[w]])
      BY <2>1, <2>5, StageFacts DEF Before, JL!Follows
    <3>2. JL!Advance(job[w])
      BY <2>1, <2>2, <3>1 DEF JL!Advance
    <3> QED
      BY <2>1, <3>2 DEF JL!LossyNext, JL!Next
  <2> QED
    BY <2>1, <2>3, <2>4, <2>5
<1>6. CASE Settle(w)
  <2>1. job[w] \in Jobs /\ pc[w] # "confirm"
    BY <1>1, <1>2, <1>6 DEF Settle, Executing
  <2>2. CASE SetStatus(job[w], "cancelled") /\ Cancellable(status[job[w]])
    <3>1. JL!Cancel(job[w])
      BY <1>0, <1>1, <2>1, <2>2, BecomesIt
         DEF Cancellable, Exists, JL!Cancel, JL!Statuses, JL!Terminal
    <3> QED
      BY <2>1, <3>1 DEF JL!LossyNext, JL!Next
  <2>3. CASE SetStatus(job[w], status[job[w]])
    BY <1>1, <1>3, <2>1, <2>3, SameStatus
  <2> QED
    BY <1>3, <1>6, <2>2, <2>3 DEF Settle
<1>7. CASE Finish(w) /\ Exists(status[job[w]])
  <2>1. /\ job[w] \in Jobs /\ status[job[w]] \in JL!Active \union {"cancelled"}
        /\ verdict[w] = "ok" =>
              status[job[w]] \in {"cancelled", JL!LastStage(delivery[job[w]])}
    BY <1>1, <1>2, <1>7, <1>a
       DEF Finish, Executing, StageRow, OnStage, CalledOff, Exists
  <2>2. SetStatus(job[w], Outcome(w))
    BY <1>7 DEF Finish
  <2>3. CASE status[job[w]] = "cancelled"
    <3>1. Outcome(w) \in JL!Active \union {"completed", "failed"}
      BY DEF Outcome
    <3>2. JL!Becomes(job[w], Outcome(w))
      BY <1>0, <2>1, <2>2, BecomesIt
    <3> QED
      BY <2>1, <2>3, <3>1, <3>2, OverwritesIt
  <2>4. CASE status[job[w]] # "cancelled" /\ verdict[w] = "ok"
    BY <1>0, <2>1, <2>2, <2>4, BecomesIt
       DEF Outcome, JL!Complete, JL!LossyNext, JL!Next
  <2>5. CASE status[job[w]] # "cancelled" /\ verdict[w] # "ok"
    BY <1>0, <2>1, <2>2, <2>5, BecomesIt DEF Outcome, JL!Fail, JL!LossyNext, JL!Next
  <2> QED
    BY <2>3, <2>4, <2>5
<1>8. CASE \/ Begin(w) \/ CheckWake(w) \/ Park(w) \/ Spawn(w) \/ StartTask(w) \/ Reread(w)
           \/ Resume(w) \/ Deliver(w) \/ Confirm(w)
           \/ (Update(w) \/ Finish(w)) /\ ~Exists(status[job[w]])
    BY <1>3, <1>8 DEF Begin, CheckWake, Park, Spawn, StartTask, Reread, Resume, Deliver,
                      Confirm, Update, Finish, table
<1> QED
    BY <1>4, <1>5, <1>6, <1>7, <1>8 DEF WorkerStep

LEMMA OtherRefines ==
    ASSUME IInv, [Next]_vars, \A w \in Workers : ~WorkerStep(w)
    PROVE  [JL!LossyNext]_JL!lifecycle
<1> USE DEF JL!LossyNext, JL!Next, JL!lifecycle
<1>1. /\ status \in [Jobs -> JL!Statuses]
      /\ bpc \in {"prepare", "reject", "confirm"} => bkind \in JL!Deliveries
      /\ bpc = "reject" => bjob \in Jobs /\ status[bjob] \in {"queued", "cancelled", "gone"}
    BY DEF IInv, TypeOK, TableType, BatchType, TaskShape, Ownership, RefusedRow
<1>2. ASSUME NEW c \in Callers, NEW j \in Jobs, RetryCommit(c, j)
      PROVE  JL!Retry(j)
    BY <1>2, BecomesIt DEF RetryCommit, Retryable, JL!Retry
<1>3. ASSUME NEW c \in Callers, NEW j \in Jobs, CancelCommit(c, j)
      PROVE  JL!Cancel(j) \/ (status' = status /\ delivery' = delivery)
  <2>1. CASE Cancellable(status[j])
    BY <1>1, <1>3, <2>1, BecomesIt
       DEF CancelCommit, Cancellable, Exists, JL!Cancel, JL!Statuses, JL!Terminal
  <2>2. CASE ~Cancellable(status[j])
    BY <1>1, <1>3, <2>2, SameStatus DEF CancelCommit
  <2> QED
    BY <2>1, <2>2
<1>4. CASE ClearHistory
  <2>1. status' = [j \in Jobs |-> IF j \in {k \in Jobs : Clearable(k)} THEN "gone" ELSE status[j]]
    BY <1>4 DEF ClearHistory
  <2>2. {k \in Jobs : Clearable(k)} \in SUBSET {j \in Jobs : status[j] \in JL!Terminal}
    BY DEF Clearable
  <2>3. JL!Clear
    BY <1>4, <2>1, <2>2 DEF ClearHistory, JL!Clear
  <2> QED
    BY <2>3
<1>5. ASSUME NEW j \in Jobs, AcceptItem(j) \/ RefuseItem(j)
      PROVE  JL!Submit(j, bkind) /\ bkind \in JL!Deliveries
    BY <1>1, <1>5 DEF AcceptItem, RefuseItem, Insert, NextFree, SetStatus, JL!Submit
<1>6. CASE RejectItem
  <2>1. CASE status[bjob] = "gone"
    BY <1>6, <2>1 DEF RejectItem, Exists
  <2>2. CASE status[bjob] # "gone"
    <3>1. JL!Becomes(bjob, "failed") /\ bjob \in Jobs
      BY <1>1, <1>6, <2>2, BecomesIt DEF RejectItem, Exists
    <3>2. JL!Reject(bjob) \/ JL!Overwrite(bjob)
      BY <1>1, <1>6, <2>2, <3>1 DEF RejectItem, JL!Reject, JL!Overwrite
    <3> QED
      BY <3>1, <3>2
  <2> QED
    BY <2>1, <2>2
<1>7. CASE StartService
    BY <1>7 DEF StartService, Recovered, JL!Recover
<1>8. CASE UNCHANGED table
    BY <1>8 DEF table
<1>9. CASE \E n \in 1..MaxItems, kind \in JL!Deliveries : SubmitBatch(n, kind)
    BY <1>8, <1>9 DEF SubmitBatch
<1>10. CASE \E c \in Callers : CallerStep(c)
    BY <1>8, <1>10 DEF CallerStep, CancelSignal, RetryReread, RetryNotify
<1>11. CASE ConfirmItem \/ NoMoreIds \/ ItemEscapes \/ BatchNotify \/ StopService \/ Exit
            \/ Crash \/ UNCHANGED vars
    BY <1>8, <1>11
       DEF ConfirmItem, NoMoreIds, ItemEscapes, BatchNotify, StopService, Exit, Crash, vars
<1> QED
    BY <1>2, <1>3, <1>4, <1>5, <1>6, <1>7, <1>9, <1>10, <1>11 DEF Next, BatchStep

\* An owned row is at the stage its task is at in _run, unless a thread has
\* cancelled it (transition, cancel).
THEOREM RowsFollowStages == Spec => []StageRow
<1>1. Init => IInv /\ StageRow
    BY InitIInv DEF Init, StageRow, OnStage
<1>2. IInv /\ [Next]_vars => IInv'
    BY NextIInv
<1> QED
    BY <1>1, <1>2, NextStageRow, PTL DEF Spec

\* The cancels that transition writes over are all that keeps the queue from
\* being the lifecycle of JobLifecycle: with every endpoint, crash and stop the
\* stages come in order, and every outcome is reached from the stage it belongs to.
THEOREM ImplementsLifecycleButForCancels == Spec => LifecycleButForCancels
<1>1. Init => IInv /\ StageRow /\ JL!Init
  <2>1. Init => StageRow
    BY DEF Init, StageRow, OnStage
  <2> QED
    BY <2>1, InitIInv DEF Init, JL!Init
<1>2. IInv /\ StageRow /\ [Next]_vars => [JL!LossyNext]_JL!lifecycle
    BY WorkerRefines, OtherRefines
<1>3. IInv /\ [Next]_vars => IInv'
    BY NextIInv
<1> QED
    BY <1>1, <1>2, <1>3, NextStageRow, PTL DEF Spec, LifecycleButForCancels, JL!LossySpec

-----------------------------------------------------------------------------
(* When nobody cancels. *)

CancelledStay == \A j \in Jobs : status[j] = "cancelled" => status'[j] \in {"cancelled", "gone"}

LEMMA WorkerCallsNoneOff ==
    ASSUME IInv, NoneCalledOff, NEW w \in Workers, WorkerStep(w)
    PROVE  NoneCalledOff' /\ CancelledStay
<1> USE DEF Goto, Release, SetStatus, End, Enter, process, table, CalledOff
<1>0. /\ job \in [Workers -> Jobs \union {NoJob}] /\ pc \in [Workers -> Labels]
      /\ status \in [Jobs -> JL!Statuses]
      /\ stage \in [Workers -> JL!Active \union {"none"}]
      /\ job[w] # NoJob <=> pc[w] \in Executing
      /\ pc[w] = "update" => stage[w] \in JL!Active
    BY DEF IInv, TypeOK, WorkersType, TableType, TaskShape
<1>1. /\ \A v \in Workers \ {w} : pc'[v] = pc[v] /\ job'[v] = job[v]
      /\ \A k \in Jobs \ {job[w], job'[w]} : status'[k] = status[k]
      /\ UNCHANGED batch
    BY StepOfOne DEF IInv
<1>2. /\ OneWorkerPerJob' /\ RefusedRow' /\ job' \in [Workers -> Jobs \union {NoJob}]
      /\ bpc' = "reject" => bjob' # NoJob
    BY WorkerIInv DEF IInv, Ownership, TypeOK, WorkersType, TaskShape
<1>3. /\ job'[w] # NoJob /\ pc'[w] # "confirm" => ~CalledOff(job[w])'
      /\ \A j \in Jobs : status[j] = "cancelled" => status'[j] = "cancelled"
  <2>1. job[w] # NoJob /\ pc[w] # "confirm" => ~CalledOff(job[w])
    BY DEF NoneCalledOff
  <2>2. CASE Claim(w)
    BY <1>0, <2>1, <2>2 DEF Claim, OldestQueued, Executing
  <2>3. CASE Update(w)
    BY <1>0, <2>1, <2>3, StageFacts DEF Update, Executing
  <2>4. CASE Settle(w)
    BY <1>0, <2>1, <2>4 DEF Settle, Executing
  <2>5. CASE Finish(w)
    BY <1>0, <2>1, <2>5 DEF Finish, Executing
  <2>6. CASE \/ Begin(w) \/ CheckWake(w) \/ Park(w) \/ Spawn(w) \/ StartTask(w) \/ Reread(w)
             \/ Resume(w) \/ Deliver(w) \/ Confirm(w)
    BY <1>0, <2>1, <2>6 DEF Begin, CheckWake, Park, Spawn, StartTask, Reread, Resume, Deliver,
                            Confirm, Executing
  <2> QED
    BY <2>2, <2>3, <2>4, <2>5, <2>6 DEF WorkerStep
<1>4. ASSUME NEW v \in Workers \ {w}, job'[v] # NoJob
      PROVE  job'[v] \in Jobs \ {job[w], job'[w]}
    BY <1>1, <1>2, <1>4 DEF IInv, Ownership, OneWorkerPerJob
<1>5. ASSUME NEW v \in Workers, job'[v] # NoJob, pc'[v] # "confirm" PROVE ~CalledOff(job[v])'
    BY <1>1, <1>3, <1>4, <1>5 DEF NoneCalledOff
<1>6. bpc' = "reject" => status'[bjob'] = "queued"
  <2>1. bpc' = "reject" => bjob # job[w] /\ bjob' = bjob /\ bpc = "reject" /\ bjob' # job'[w]
    BY <1>1, <1>2 DEF IInv, Ownership, RefusedRow, Owned, Owns, batch
  <2>2. bpc' = "reject" => bjob \in Jobs
    BY <2>1 DEF IInv, TypeOK, BatchType, TaskShape
  <2> QED
    BY <1>1, <2>1, <2>2 DEF NoneCalledOff
<1> QED
    BY <1>3, <1>5, <1>6 DEF NoneCalledOff, CancelledStay

LEMMA OthersCallNoneOff ==
    ASSUME IInv, NoneCalledOff, "cancel" \notin Ops, [Next]_vars,
           \A w \in Workers : ~WorkerStep(w)
    PROVE  NoneCalledOff' /\ CancelledStay
<1> USE DEF NoneCalledOff, CancelledStay, CalledOff, SetStatus, process, workers, batch, callers,
            table
<1>a. /\ status \in [Jobs -> JL!Statuses] /\ pc \in [Workers -> Labels]
      /\ job \in [Workers -> Jobs \union {NoJob}] /\ bjob \in Jobs \union {NoJob}
    BY DEF IInv, TypeOK, TableType, WorkersType, BatchType
<1>b. /\ \A w \in Workers : job[w] # NoJob => pc[w] # "parked" /\ pc[w] # "off"
      /\ bjob # NoJob <=> bpc \in {"reject", "confirm"}
      /\ \A w \in Workers : phase = "down" <=> pc[w] = "off"
    BY DEF IInv, TaskShape, Executing
<1>c. \A w \in Workers : job[w] # NoJob =>
         /\ status[job[w]] # "absent" /\ job[w] # bjob /\ job[w] \in Jobs
         /\ status[job[w]] \in {"queued", "completed", "failed"} => pc[w] = "confirm"
    BY <1>a DEF IInv, Ownership, OwnedRow, RefusedRow, Owned, Owns
<1>1. ASSUME NEW c \in Callers, NEW j \in Jobs, CancelCommit(c, j) \/ RetryCommit(c, j)
      PROVE  NoneCalledOff' /\ CancelledStay
    BY <1>1, <1>a, <1>b, <1>c DEF CancelCommit, RetryCommit, Retryable
<1>2. ASSUME NEW c \in Callers, CallerStep(c) PROVE NoneCalledOff' /\ CancelledStay
    BY <1>2, <1>a, <1>b DEF CallerStep, CancelSignal, RetryReread, RetryNotify, Wake
<1>3. CASE ClearHistory
    BY <1>3, <1>a, <1>b, <1>c DEF ClearHistory, Clearable, JL!Terminal
<1>4. ASSUME NEW n \in 1..MaxItems, NEW kind \in JL!Deliveries, SubmitBatch(n, kind)
      PROVE  NoneCalledOff' /\ CancelledStay
    BY <1>4 DEF SubmitBatch
<1>5. ASSUME NEW j \in Jobs, AcceptItem(j) \/ RefuseItem(j)
      PROVE  NoneCalledOff' /\ CancelledStay
    BY <1>5, <1>a, <1>b, <1>c DEF AcceptItem, RefuseItem, Insert, NextFree, BatchContinues
<1>6. CASE RejectItem
    BY <1>6, <1>a, <1>b, <1>c DEF RejectItem, BatchEnds, Exists
<1>7. CASE ConfirmItem \/ NoMoreIds \/ ItemEscapes
    BY <1>7 DEF ConfirmItem, NoMoreIds, ItemEscapes, BatchEnds, BatchContinues
<1>8. CASE BatchNotify
    BY <1>8, <1>a, <1>b DEF BatchNotify, Wake, BatchEnds
<1>9. CASE StartService
    BY <1>9, <1>a, <1>b DEF StartService, Recovered, JL!Active
<1>10. CASE StopService
    BY <1>10, <1>a, <1>b DEF StopService, Wake
<1>11. CASE Exit \/ Crash
    BY <1>11, <1>a DEF Exit, Crash, NoProcess, BatchEnds
<1>12. CASE UNCHANGED vars
    BY <1>12 DEF vars
<1> QED
    BY <1>1, <1>2, <1>3, <1>4, <1>5, <1>6, <1>7, <1>8, <1>9, <1>10, <1>11, <1>12
       DEF Next, BatchStep

LEMMA NoneAreCalledOff ==
    ASSUME "cancel" \notin Ops
    PROVE  IInv /\ NoneCalledOff /\ [Next]_vars => NoneCalledOff' /\ CancelledStay
  BY WorkerCallsNoneOff, OthersCallNoneOff

\* A lossy step that writes over no cancel is a step of the lifecycle.
LEMMA LossyOrNot ==
    ASSUME status \in [Jobs -> JL!Statuses], CancelledStay, JL!LossyNext
    PROVE  JL!Next
<1>1. ASSUME NEW j \in Jobs, JL!Overwrite(j) PROVE FALSE
    BY <1>1 DEF JL!Overwrite, JL!Becomes, CancelledStay, JL!Active
<1> QED
    BY <1>1 DEF JL!LossyNext

\* As long as nobody cancels, the queue implements the lifecycle of
\* JobLifecycle: with retries, clears, batches, crashes and stops the stages
\* come in order and every outcome is reached from the stage it belongs to.
THEOREM ImplementsLifecycle ==
    ASSUME "cancel" \notin Ops
    PROVE  Spec => Lifecycle
<1>1. Init => IInv /\ StageRow /\ NoneCalledOff /\ JL!Init
  <2>1. Init => StageRow /\ NoneCalledOff
    BY DEF Init, StageRow, OnStage, NoneCalledOff
  <2> QED
    BY <2>1, InitIInv DEF Init, JL!Init
<1>2. IInv /\ StageRow /\ NoneCalledOff /\ [Next]_vars => [JL!Next]_JL!lifecycle
  <2>1. IInv /\ StageRow /\ [Next]_vars => [JL!LossyNext]_JL!lifecycle
    BY WorkerRefines, OtherRefines
  <2>2. IInv => status \in [Jobs -> JL!Statuses]
    BY DEF IInv, TypeOK, TableType
  <2> QED
    BY <2>1, <2>2, NoneAreCalledOff, LossyOrNot
<1>3. IInv /\ NoneCalledOff /\ [Next]_vars => IInv' /\ NoneCalledOff'
    BY NextIInv, NoneAreCalledOff
<1> QED
    BY <1>1, <1>2, <1>3, NextStageRow, PTL DEF Spec, Lifecycle, JL!Spec
=============================================================================
