------------------------- MODULE DownloadQueueProofs -------------------------
(***************************************************************************)
(* Proofs about DownloadQueue, for any number of jobs, workers, threads    *)
(* and batch items, any set of operations and any set of faults.           *)
(***************************************************************************)
EXTENDS DownloadQueueInvariant, TLAPS

USE QueueAssumption DEF Jobs, NoJob

-----------------------------------------------------------------------------
(* Type correctness *)

LEMMA LabelElements ==
    /\ "again" \in Labels /\ "claim" \in Labels /\ "check" \in Labels /\ "park" \in Labels
    /\ "spawn" \in Labels /\ "update" \in Labels /\ "reread" \in Labels
    /\ "deliver" \in Labels /\ "finish" \in Labels /\ "confirm" \in Labels
    /\ "ready" \in Labels /\ "parked" \in Labels /\ "created" \in Labels
    /\ "await" \in Labels /\ "ended" \in Labels
    /\ "off" \in Labels /\ "exited" \in Labels /\ "dead" \in Labels
  BY DEF Labels, Holding, Suspended

LEMMA StatusElements ==
    /\ "absent" \in JL!Statuses /\ "gone" \in JL!Statuses /\ "queued" \in JL!Statuses
    /\ "completed" \in JL!Statuses /\ "failed" \in JL!Statuses
    /\ "cancelled" \in JL!Statuses /\ "resolving" \in JL!Active
    /\ "downloading" \in JL!Active /\ "tagging" \in JL!Active /\ "publishing" \in JL!Active
    /\ "none" \notin JL!Active /\ "absent" \notin JL!Active /\ "gone" \notin JL!Active
    /\ JL!Active \subseteq JL!Statuses
    /\ "server" \in JL!Deliveries /\ "browser" \in JL!Deliveries
  BY DEF JL!Statuses, JL!Live, JL!Terminal, JL!Active, JL!Deliveries

USE LabelElements, StatusElements

LEMMA InitTypeOK == Init => TypeOK
  BY DEF Init, TypeOK, TableType, ProcessType, WorkersType, CallersType, BatchType,
         CreatedInOrder

\* A step that moves one worker, ends or enters a stage, or releases the job.
LEMMA GotoType ==
    ASSUME WorkersType, NEW w \in Workers, NEW label \in Labels, Goto(w, label)
    PROVE  pc' \in [Workers -> Labels]
  BY DEF WorkersType, Goto

LEMMA EndType ==
    ASSUME WorkersType, NEW w \in Workers, NEW how \in {"ok", "failed", "cancelled"},
           End(w, how), job' = job, mustCancel' = mustCancel
    PROVE  WorkersType'
<1>1. pc' \in [Workers -> Labels]
    BY GotoType DEF End
<1>2. verdict' \in [Workers -> {"none", "ok", "failed", "cancelled"}]
    BY DEF WorkersType, End
<1> QED
    BY <1>1, <1>2 DEF WorkersType, End

LEMMA EnterType ==
    ASSUME WorkersType, NEW w \in Workers, NEW s \in JL!Active,
           Enter(w, s), job' = job, mustCancel' = mustCancel
    PROVE  WorkersType'
<1>1. pc' \in [Workers -> Labels]
    BY GotoType DEF Enter
<1>2. stage' \in [Workers -> JL!Active \union {"none"}]
    BY DEF WorkersType, Enter
<1> QED
    BY <1>1, <1>2 DEF WorkersType, Enter

LEMMA ReleaseType ==
    ASSUME ProcessType, WorkersType, NEW w \in Workers, NEW label \in Labels,
           Release(w, label)
    PROVE  ProcessType' /\ WorkersType'
<1>1. pc' \in [Workers -> Labels]
    BY GotoType DEF Release
<1>2. job' \in [Workers -> Jobs \union {NoJob}] /\ mustCancel' \subseteq Workers
    BY DEF WorkersType, Release
<1>3. stage' \in [Workers -> JL!Active \union {"none"}]
    BY DEF WorkersType, Release
<1>4. verdict' \in [Workers -> {"none", "ok", "failed", "cancelled"}]
    BY DEF WorkersType, Release
<1>5. ProcessType'
    BY DEF ProcessType, Release
<1> QED
    BY <1>1, <1>2, <1>3, <1>4, <1>5 DEF WorkersType

\* An UPDATE of a row that has been inserted.
LEMMA SetStatusType ==
    ASSUME TableType, CreatedInOrder, NEW j \in Jobs, NEW s \in JL!Statuses,
           status[j] # "absent", s # "absent", SetStatus(j, s),
           delivery' = delivery, delivered' \subseteq Jobs
    PROVE  TableType' /\ CreatedInOrder'
<1>1. TableType'
    BY DEF TableType, SetStatus
<1>2. CreatedInOrder'
    BY DEF TableType, CreatedInOrder, SetStatus
<1> QED
    BY <1>1, <1>2

\* One step of one worker or of its process task.
LEMMA WorkerTypeOK ==
    ASSUME TypeOK, TaskShape, NEW w \in Workers, WorkerStep(w)
    PROVE  TypeOK'
<1> USE DEF TypeOK
<1>1. /\ TableType /\ ProcessType /\ WorkersType /\ CreatedInOrder
      /\ pc[w] \in Labels
      /\ pc[w] \in {"spawn", "created", "update", "reread", "await", "deliver", "ended",
                    "finish", "confirm"} => job[w] \in Jobs
      /\ pc[w] \in {"update", "reread", "await", "deliver"} => stage[w] \in JL!Active
    BY DEF TaskShape, Executing, WorkersType
<1>2. ASSUME UNCHANGED <<callers, batch>>
      PROVE  CallersType' /\ BatchType'
    BY <1>2 DEF callers, batch, CallersType, BatchType
<1>3. ASSUME UNCHANGED table PROVE TableType' /\ CreatedInOrder'
    BY <1>1, <1>3 DEF table, TableType, CreatedInOrder
<1>4. ASSUME UNCHANGED process PROVE ProcessType'
    BY <1>1, <1>4 DEF process, ProcessType
<1>5. CASE Begin(w)
  <2>1. pc' \in [Workers -> Labels] /\ wake' \in {"set", "clear"}
    BY <1>1, <1>5, GotoType DEF Begin, ProcessType
  <2> QED
    BY <1>1, <1>2, <1>3, <1>5, <2>1 DEF Begin, ProcessType, WorkersType
<1>6. CASE Claim(w)
  <2>1. CASE UNCHANGED <<status, job>> /\ Goto(w, "check")
    BY <1>1, <1>2, <1>3, <1>4, <1>6, <2>1, GotoType DEF Claim, WorkersType, table
  <2>2. ASSUME NEW j \in Jobs, OldestQueued(j), SetStatus(j, "resolving"),
               job' = [job EXCEPT ![w] = j], Goto(w, "spawn")
        PROVE  TypeOK'
    <3>1. TableType' /\ CreatedInOrder'
      BY <1>1, <1>6, <2>2, SetStatusType DEF Claim, OldestQueued, TableType
    <3>2. WorkersType'
      <4>1. pc' \in [Workers -> Labels]
        BY <1>1, <2>2, GotoType
      <4>2. job' \in [Workers -> Jobs \union {NoJob}]
        BY <1>1, <2>2 DEF WorkersType
      <4> QED
        BY <1>1, <1>6, <4>1, <4>2 DEF Claim, WorkersType
    <3> QED
      BY <1>1, <1>2, <1>4, <1>6, <3>1, <3>2 DEF Claim
  <2> QED
    BY <1>6, <2>1, <2>2 DEF Claim
<1>7. CASE CheckWake(w) \/ Park(w)
  <2>1. pc' \in [Workers -> Labels]
    BY <1>1, <1>7, GotoType DEF CheckWake, Park
  <2> QED
    BY <1>1, <1>2, <1>3, <1>4, <1>7, <2>1 DEF CheckWake, Park, WorkersType
<1>8. CASE Spawn(w)
  <2>1. pc' \in [Workers -> Labels]
    BY <1>1, <1>8, GotoType DEF Spawn
  <2> QED
    BY <1>1, <1>2, <1>3, <1>8, <2>1 DEF Spawn, ProcessType, WorkersType
<1>9. CASE StartTask(w)
  <2>1. WorkersType'
    BY <1>1, <1>9, EndType, EnterType DEF StartTask
  <2> QED
    BY <1>1, <1>2, <1>3, <1>4, <1>9, <2>1 DEF StartTask
<1>10. CASE Update(w)
  <2>1. CASE Exists(status[job[w]])
    <3>1. TableType' /\ CreatedInOrder'
      <4>1. stage[w] \in JL!Statuses /\ stage[w] # "absent" /\ job[w] \in Jobs
        BY <1>1, <1>10 DEF Update
      <4>2. /\ status[job[w]] # "absent" /\ SetStatus(job[w], stage[w])
            /\ delivery' = delivery /\ delivered' \subseteq Jobs
        BY <1>1, <1>10, <2>1 DEF Update, Exists, TableType
      <4> QED
        BY <1>1, <4>1, <4>2, SetStatusType
    <3>2. pc' \in [Workers -> Labels]
      BY <1>1, <1>10, <2>1, GotoType DEF Update
    <3> QED
      BY <1>1, <1>2, <1>4, <1>10, <2>1, <3>1, <3>2 DEF Update, WorkersType
  <2>2. CASE ~Exists(status[job[w]])
    <3>1. WorkersType'
      BY <1>1, <1>10, <2>2, EndType DEF Update
    <3> QED
      BY <1>1, <1>2, <1>3, <1>4, <1>10, <2>2, <3>1 DEF Update, table
  <2> QED
    BY <2>1, <2>2
<1>11. CASE Reread(w)
  <2>1. CASE End(w, "failed")
    BY <1>1, <1>2, <1>3, <1>4, <1>11, <2>1, EndType DEF Reread
  <2>2. CASE Goto(w, IF stage[w] = "publishing" THEN "deliver" ELSE "await")
             /\ UNCHANGED <<stage, verdict>>
    <3>1. pc' \in [Workers -> Labels]
      BY <1>1, <2>2, GotoType
    <3> QED
      BY <1>1, <1>2, <1>3, <1>4, <1>11, <2>2, <3>1 DEF Reread, WorkersType
  <2> QED
    BY <1>11, <2>1, <2>2 DEF Reread
<1>12. CASE Resume(w)
  <2>1. WorkersType'
    <3>1. CASE End(w, "cancelled") \/ End(w, "failed")
      BY <1>1, <1>12, <3>1, EndType DEF Resume
    <3>2. CASE Goto(w, "deliver") /\ UNCHANGED <<stage, verdict>>
      <4>1. pc' \in [Workers -> Labels]
        BY <1>1, <3>2, GotoType
      <4> QED
        BY <1>1, <1>12, <3>2, <4>1 DEF Resume, WorkersType
    <3>3. CASE Enter(w, NextStage(w))
      <4>1. NextStage(w) \in JL!Active
        BY DEF NextStage
      <4> QED
        BY <1>1, <1>12, <3>3, <4>1, EnterType DEF Resume
    <3> QED
      BY <1>12, <3>1, <3>2, <3>3 DEF Resume
  <2> QED
    BY <1>1, <1>2, <1>3, <1>4, <1>12, <2>1 DEF Resume
<1>13. CASE Deliver(w)
  <2>1. WorkersType'
    <3>1. CASE End(w, "failed")
      BY <1>1, <1>13, <3>1, EndType DEF Deliver
    <3>2. CASE End(w, IF w \in mustCancel THEN "cancelled" ELSE "ok")
      BY <1>1, <1>13, <3>2, EndType DEF Deliver
    <3> QED
      BY <1>13, <3>1, <3>2 DEF Deliver
  <2>2. TableType' /\ CreatedInOrder'
    BY <1>1, <1>13 DEF Deliver, TableType, CreatedInOrder
  <2> QED
    BY <1>1, <1>2, <1>4, <1>13, <2>1, <2>2 DEF Deliver
<1>14. CASE Settle(w)
  <2>1. CASE Release(w, "again")
    <3>1. ProcessType' /\ WorkersType'
      BY <1>1, <2>1, ReleaseType
    <3>2. TableType' /\ CreatedInOrder'
      <4>1. CASE UNCHANGED status
        BY <1>3, <1>14, <4>1 DEF Settle, table
      <4>2. CASE SetStatus(job[w], IF Cancellable(status[job[w]]) THEN "cancelled"
                                   ELSE status[job[w]])
        <5>1. CASE Cancellable(status[job[w]])
          BY <1>1, <1>14, <4>2, <5>1, SetStatusType
             DEF Settle, Cancellable, Exists, TableType
        <5>2. CASE ~Cancellable(status[job[w]])
          <6>1. UNCHANGED status
            BY <1>1, <1>14, <4>2, <5>2 DEF Settle, SetStatus, TableType
          <6> QED
            BY <1>3, <1>14, <6>1 DEF Settle, table
        <5> QED
          BY <5>1, <5>2
      <4> QED
        BY <1>14, <4>1, <4>2 DEF Settle
    <3> QED
      BY <1>2, <1>14, <3>1, <3>2 DEF Settle
  <2>2. CASE Goto(w, "finish") /\ UNCHANGED <<status, process, job, stage, verdict, mustCancel>>
    <3>1. pc' \in [Workers -> Labels]
      BY <1>1, <2>2, GotoType
    <3> QED
      BY <1>1, <1>2, <1>3, <1>4, <1>14, <2>2, <3>1 DEF Settle, WorkersType, table
  <2> QED
    BY <1>14, <2>1, <2>2 DEF Settle
<1>15. CASE Finish(w)
  <2>1. CASE Exists(status[job[w]]) /\ SetStatus(job[w], Outcome(w)) /\ Goto(w, "confirm")
             /\ UNCHANGED <<process, job, stage, verdict, mustCancel>>
    <3>1. TableType' /\ CreatedInOrder'
      BY <1>1, <1>15, <2>1, SetStatusType DEF Finish, Outcome, Exists, TableType
    <3>2. pc' \in [Workers -> Labels]
      BY <1>1, <2>1, GotoType
    <3> QED
      BY <1>1, <1>2, <1>4, <1>15, <2>1, <3>1, <3>2 DEF Finish, WorkersType
  <2>2. CASE Release(w, "dead") /\ UNCHANGED status
    BY <1>1, <1>2, <1>3, <1>15, <2>2, ReleaseType DEF Finish, table
  <2> QED
    BY <1>15, <2>1, <2>2 DEF Finish
<1>16. CASE Confirm(w)
    BY <1>1, <1>2, <1>3, <1>16, ReleaseType DEF Confirm
<1> QED
    BY <1>5, <1>6, <1>7, <1>8, <1>9, <1>10, <1>11, <1>12, <1>13, <1>14, <1>15, <1>16
       DEF WorkerStep

\* Type correctness of every step.
LEMMA NextTypeOK == TypeOK /\ TaskShape /\ [Next]_vars => TypeOK'
<1> SUFFICES ASSUME TypeOK, TaskShape, [Next]_vars PROVE TypeOK'
    OBVIOUS
<1> USE DEF TaskShape, CreatedInOrder, Executing, BatchHolding, JL!Terminal, TypeOK,
        TableType, ProcessType, WorkersType, CallersType, BatchType, table, process, workers,
        callers, batch, Goto, SetStatus
<1>1. ASSUME NEW w \in Workers, WorkerStep(w) PROVE TypeOK'
    BY <1>1, WorkerTypeOK
<1>2. ASSUME NEW c \in Callers, NEW j \in Jobs, CancelCommit(c, j) PROVE TypeOK'
    BY <1>2 DEF CancelCommit, Cancellable, Exists
<1>3. ASSUME NEW c \in Callers, NEW j \in Jobs, RetryCommit(c, j) PROVE TypeOK'
    BY <1>3 DEF RetryCommit, Retryable
<1>4. ASSUME NEW c \in Callers, CancelSignal(c) PROVE TypeOK'
    BY <1>4 DEF CancelSignal
<1>5. ASSUME NEW c \in Callers, RetryReread(c) PROVE TypeOK'
    BY <1>5 DEF RetryReread
<1>6. ASSUME NEW c \in Callers, RetryNotify(c) PROVE TypeOK'
    BY <1>6 DEF RetryNotify, Wake
<1>7. CASE ClearHistory
    BY <1>7 DEF ClearHistory, Clearable, HasArtifact
<1>8. ASSUME NEW n \in 1..MaxItems, NEW kind \in JL!Deliveries, SubmitBatch(n, kind)
      PROVE  TypeOK'
    BY <1>8 DEF SubmitBatch
<1>9. ASSUME NEW j \in Jobs, AcceptItem(j) PROVE TypeOK'
    BY <1>9 DEF AcceptItem, Insert, NextFree, BatchContinues, LoopFree
<1>10. ASSUME NEW j \in Jobs, RefuseItem(j) PROVE TypeOK'
    BY <1>10 DEF RefuseItem, Insert, NextFree, LoopFree
<1>11. CASE RejectItem
  <2>1. bjob \in Jobs /\ delivery' = delivery /\ delivered' = delivered
    BY <1>11 DEF RejectItem
  <2>2. CASE Exists(status[bjob])
    <3>1. SetStatus(bjob, "failed") /\ status[bjob] # "absent"
      BY <1>11, <2>2 DEF RejectItem, Exists
    <3>2. TableType' /\ CreatedInOrder'
      BY <2>1, <3>1, SetStatusType
    <3> QED
      BY <1>11, <2>2, <3>2 DEF RejectItem
  <2>3. CASE ~Exists(status[bjob])
    BY <1>11, <2>1, <2>3 DEF RejectItem, BatchEnds
  <2> QED
    BY <2>2, <2>3
<1>12. CASE ConfirmItem
    BY <1>12 DEF ConfirmItem, BatchEnds, BatchContinues
<1>13. CASE NoMoreIds
    BY <1>13 DEF NoMoreIds, LoopFree
<1>14. CASE ItemEscapes
    BY <1>14 DEF ItemEscapes, BatchEnds
<1>15. CASE BatchNotify
    BY <1>15 DEF BatchNotify, Wake, BatchEnds
<1>16. CASE StartService
    BY <1>16 DEF StartService, Recovered
<1>17. CASE StopService
    BY <1>17 DEF StopService, Wake, LoopFree
<1>18. CASE Exit
    BY <1>18 DEF Exit, NoProcess, BatchEnds
<1>19. CASE Crash
    BY <1>19 DEF Crash, NoProcess, BatchEnds
<1>20. CASE UNCHANGED vars
    BY <1>20 DEF vars
<1> QED
    BY <1>1, <1>2, <1>3, <1>4, <1>5, <1>6, <1>7, <1>8, <1>9, <1>10, <1>11, <1>12, <1>13, <1>14,
       <1>15, <1>16, <1>17, <1>18, <1>19, <1>20
       DEF Next, CallerStep, BatchStep

-----------------------------------------------------------------------------
(* The step of one worker *)

\* A worker's step holds or takes the loop, moves that worker only, and writes
\* at most the row and the artifact of the job it has or claims.
LEMMA StepOfOne ==
    ASSUME TypeOK, TaskShape, NEW w \in Workers, WorkerStep(w)
    PROVE  /\ pc[w] \in Holding \/ LoopFree
           /\ pc[w] # "off" /\ pc'[w] # "off"
           /\ UNCHANGED <<phase, callers, batch, delivery>>
           /\ \A v \in Workers \ {w} :
                  /\ pc'[v] = pc[v] /\ job'[v] = job[v]
                  /\ stage'[v] = stage[v] /\ verdict'[v] = verdict[v]
           /\ \A k \in Jobs \ {job[w], job'[w]} : status'[k] = status[k]
           /\ delivered \subseteq delivered' /\ delivered' \subseteq delivered \union {job[w]}
<1> USE DEF TypeOK, WorkersType, TableType, Goto, Release, SetStatus, End, Enter,
        process, table, Holding
<1>0. job \in [Workers -> Jobs \union {NoJob}] /\ pc \in [Workers -> Labels]
    OBVIOUS
<1>1. CASE Begin(w)
    BY <1>1 DEF Begin
<1>2. CASE Claim(w)
    BY <1>2 DEF Claim, OldestQueued
<1>3. CASE CheckWake(w) \/ Park(w)
    BY <1>3 DEF CheckWake, Park
<1>4. CASE Spawn(w)
    BY <1>4 DEF Spawn
<1>5. CASE StartTask(w)
    BY <1>5 DEF StartTask
<1>6. CASE Update(w)
    BY <1>6 DEF Update
<1>7. CASE Reread(w)
    BY <1>7 DEF Reread
<1>8. CASE Resume(w)
    BY <1>8 DEF Resume
<1>9. CASE Deliver(w)
    BY <1>9 DEF Deliver
<1>10. CASE Settle(w)
    BY <1>10 DEF Settle
<1>11. CASE Finish(w)
    BY <1>11 DEF Finish
<1>12. CASE Confirm(w)
    BY <1>12 DEF Confirm
<1> QED
    BY <1>1, <1>2, <1>3, <1>4, <1>5, <1>6, <1>7, <1>8, <1>9, <1>10, <1>11, <1>12
       DEF WorkerStep

\* The variables of the worker that moves fit its new program counter.
LEMMA OwnShape ==
    ASSUME TypeOK, TaskShape, NEW w \in Workers, WorkerStep(w)
    PROVE  /\ job'[w] # NoJob <=> pc'[w] \in Executing
           /\ pc'[w] \in {"update", "reread", "await", "deliver"} => stage'[w] \in JL!Active
           /\ verdict'[w] # "none" => pc'[w] \in {"ended", "finish", "confirm"}
<1> USE DEF TypeOK, WorkersType, Goto, Release, SetStatus, End, Enter,
        process, table, Executing
<1>0. /\ job \in [Workers -> Jobs \union {NoJob}] /\ pc \in [Workers -> Labels]
      /\ stage \in [Workers -> JL!Active \union {"none"}]
      /\ verdict \in [Workers -> {"none", "ok", "failed", "cancelled"}]
      /\ job[w] # NoJob <=> pc[w] \in Executing
      /\ pc[w] \in {"update", "reread", "await", "deliver"} => stage[w] \in JL!Active
      /\ verdict[w] # "none" => pc[w] \in {"ended", "finish", "confirm"}
    BY DEF TaskShape
<1>1. CASE Begin(w)
    BY <1>0, <1>1 DEF Begin
<1>2. CASE Claim(w)
    BY <1>0, <1>2 DEF Claim
<1>3. CASE CheckWake(w) \/ Park(w)
    BY <1>0, <1>3 DEF CheckWake, Park
<1>4. CASE Spawn(w)
    BY <1>0, <1>4 DEF Spawn
<1>5. CASE StartTask(w)
    BY <1>0, <1>5 DEF StartTask
<1>6. CASE Update(w)
    BY <1>0, <1>6 DEF Update
<1>7. CASE Reread(w)
    BY <1>0, <1>7 DEF Reread
<1>8. CASE Resume(w)
    BY <1>0, <1>8 DEF Resume, NextStage
<1>9. CASE Deliver(w)
    BY <1>0, <1>9 DEF Deliver
<1>10. CASE Settle(w)
    BY <1>0, <1>10 DEF Settle
<1>11. CASE Finish(w)
    BY <1>0, <1>11 DEF Finish
<1>12. CASE Confirm(w)
    BY <1>0, <1>12 DEF Confirm
<1> QED
    BY <1>1, <1>2, <1>3, <1>4, <1>5, <1>6, <1>7, <1>8, <1>9, <1>10, <1>11, <1>12
       DEF WorkerStep

LEMMA WorkerTaskShape ==
    ASSUME TypeOK, TaskShape, NEW w \in Workers, WorkerStep(w)
    PROVE  TaskShape'
<1>1. /\ pc[w] # "off" /\ pc'[w] # "off" /\ UNCHANGED <<phase, batch>>
      /\ \A v \in Workers \ {w} :
             /\ pc'[v] = pc[v] /\ job'[v] = job[v]
             /\ stage'[v] = stage[v] /\ verdict'[v] = verdict[v]
    BY StepOfOne
<1>2. /\ job'[w] # NoJob <=> pc'[w] \in Executing
      /\ pc'[w] \in {"update", "reread", "await", "deliver"} => stage'[w] \in JL!Active
      /\ verdict'[w] # "none" => pc'[w] \in {"ended", "finish", "confirm"}
    BY OwnShape
<1> QED
    BY <1>1, <1>2 DEF TaskShape, batch

LEMMA WorkerLoopHeldOnce ==
    ASSUME TypeOK, TaskShape, LoopHeldOnce, NEW w \in Workers, WorkerStep(w)
    PROVE  LoopHeldOnce'
<1>1. /\ pc[w] \in Holding \/ LoopFree
      /\ UNCHANGED batch
      /\ \A v \in Workers \ {w} : pc'[v] = pc[v]
    BY StepOfOne
<1> QED
    BY <1>1 DEF LoopHeldOnce, LoopFree, batch

\* The row of the job the moving worker has, before and after the step.
LEMMA OwnRow ==
    ASSUME TypeOK, TaskShape, OwnedRow, NEW w \in Workers, WorkerStep(w)
    PROVE  /\ job'[w] # NoJob =>
                /\ status'[job'[w]] # "absent"
                /\ status'[job'[w]] \in {"queued", "completed", "failed"} => pc'[w] = "confirm"
                /\ pc'[w] = "confirm" => status'[job'[w]] \notin JL!Active
           /\ job[w] # NoJob =>
                /\ status'[job[w]] # "absent"
                /\ status[job[w]] = "gone" => status'[job[w]] = "gone"
                /\ job'[w] = job[w] \/ job'[w] = NoJob
                /\ job'[w] = NoJob => status'[job[w]] \notin JL!Active
           /\ job[w] = NoJob /\ job'[w] # NoJob =>
                pc[w] \in Holding /\ status[job'[w]] = "queued" /\ status'[job'[w]] = "resolving"
<1> USE DEF TypeOK, WorkersType, TableType, Goto, Release, SetStatus, End, Enter,
        process, table, Executing
<1>0. /\ job \in [Workers -> Jobs \union {NoJob}] /\ pc \in [Workers -> Labels]
      /\ status \in [Jobs -> JL!Statuses]
      /\ job[w] # NoJob <=> pc[w] \in Executing
      /\ pc[w] = "update" => stage[w] \in JL!Active
      /\ job[w] # NoJob =>
           /\ status[job[w]] # "absent"
           /\ status[job[w]] \in {"queued", "completed", "failed"} => pc[w] = "confirm"
           /\ pc[w] = "confirm" => status[job[w]] \notin JL!Active
    BY DEF TaskShape, OwnedRow
<1>a. \A s \in JL!Active : s \notin {"absent", "gone", "queued", "completed", "failed", "cancelled"}
    BY DEF JL!Active
<1>b. \A s \in JL!Statuses : Exists(s) => s \in JL!Active \union {"queued"} \union JL!Terminal
    BY DEF JL!Statuses, JL!Live, Exists
<1>1. CASE Begin(w)
    BY <1>0, <1>1 DEF Begin
<1>2. CASE Claim(w)
    BY <1>0, <1>a, <1>2 DEF Claim, OldestQueued, Holding
<1>3. CASE CheckWake(w) \/ Park(w)
    BY <1>0, <1>3 DEF CheckWake, Park
<1>4. CASE Spawn(w)
    BY <1>0, <1>4 DEF Spawn
<1>5. CASE StartTask(w)
    BY <1>0, <1>5 DEF StartTask
<1>6. CASE Update(w)
    BY <1>0, <1>a, <1>6 DEF Update, Exists
<1>7. CASE Reread(w)
    BY <1>0, <1>7 DEF Reread
<1>8. CASE Resume(w)
    BY <1>0, <1>8 DEF Resume
<1>9. CASE Deliver(w)
    BY <1>0, <1>9 DEF Deliver
<1>10. CASE Settle(w)
    BY <1>0, <1>a, <1>b, <1>10 DEF Settle, StillWanted, Cancellable, Exists, JL!Terminal
<1>11. CASE Finish(w)
    BY <1>0, <1>a, <1>11 DEF Finish, Outcome, Exists
<1>12. CASE Confirm(w)
    BY <1>0, <1>a, <1>12 DEF Confirm
<1> QED
    BY <1>1, <1>2, <1>3, <1>4, <1>5, <1>6, <1>7, <1>8, <1>9, <1>10, <1>11, <1>12
       DEF WorkerStep

\* Delivery, seen from the moving worker.
LEMMA OwnArtifact ==
    ASSUME TypeOK, TaskShape, OwnedRow, DeliveredRow, NEW w \in Workers, WorkerStep(w)
    PROVE  /\ verdict'[w] = "ok" => job'[w] \in delivered'
           /\ job[w] # NoJob =>
                /\ status'[job[w]] = "completed" => job[w] \in delivered'
                /\ job[w] \in delivered' /\ delivery[job[w]] = "browser"
                       => status'[job[w]] # "gone"
<1> USE DEF TypeOK, WorkersType, TableType, Goto, Release, SetStatus, End, Enter,
        process, table, Executing
<1>0. /\ job \in [Workers -> Jobs \union {NoJob}] /\ pc \in [Workers -> Labels]
      /\ status \in [Jobs -> JL!Statuses]
      /\ verdict \in [Workers -> {"none", "ok", "failed", "cancelled"}]
      /\ job[w] # NoJob <=> pc[w] \in Executing
      /\ verdict[w] # "none" => pc[w] \in {"ended", "finish", "confirm"}
      /\ verdict[w] = "ok" => job[w] \in delivered
      /\ pc[w] = "update" => stage[w] \in JL!Active
      /\ \A j \in Jobs : status[j] = "completed" => j \in delivered
      /\ \A j \in Jobs : j \in delivered /\ delivery[j] = "browser" => status[j] # "gone"
    BY DEF TaskShape, DeliveredRow, CompletedMeansDelivered, ArtifactKeepsRow, HasArtifact
<1>a. \A s \in JL!Active : s \notin {"absent", "gone", "queued", "completed", "failed", "cancelled"}
    BY DEF JL!Active
<1>1. CASE Begin(w)
    BY <1>0, <1>1 DEF Begin
<1>2. CASE Claim(w)
    BY <1>0, <1>a, <1>2 DEF Claim, OldestQueued
<1>3. CASE CheckWake(w) \/ Park(w)
    BY <1>0, <1>3 DEF CheckWake, Park
<1>4. CASE Spawn(w)
    BY <1>0, <1>4 DEF Spawn
<1>5. CASE StartTask(w)
    BY <1>0, <1>5 DEF StartTask
<1>6. CASE Update(w)
    BY <1>0, <1>a, <1>6 DEF Update, Exists
<1>7. CASE Reread(w)
    BY <1>0, <1>7 DEF Reread
<1>8. CASE Resume(w)
    BY <1>0, <1>8 DEF Resume
<1>9. CASE Deliver(w)
    BY <1>0, <1>9 DEF Deliver, CanDeliver, Exists
<1>10. CASE Settle(w)
    BY <1>0, <1>10 DEF Settle, Cancellable, Exists
<1>11. CASE Finish(w)
    BY <1>0, <1>11 DEF Finish, Outcome, Exists
<1>12. CASE Confirm(w)
    BY <1>0, <1>12 DEF Confirm
<1> QED
    BY <1>1, <1>2, <1>3, <1>4, <1>5, <1>6, <1>7, <1>8, <1>9, <1>10, <1>11, <1>12
       DEF WorkerStep

\* A claimed job is queued, so nobody else has it: a worker whose job is queued
\* again is at its last step and holds the loop.
LEMMA WorkerOneWorkerPerJob ==
    ASSUME TypeOK, TaskShape, LoopHeldOnce, OneWorkerPerJob, OwnedRow,
           NEW w \in Workers, WorkerStep(w)
    PROVE  OneWorkerPerJob'
<1>1. \A v \in Workers \ {w} : job'[v] = job[v]
    BY StepOfOne
<1>2. job[w] # NoJob => job'[w] \in {job[w], NoJob}
    BY OwnRow
<1>3. ASSUME job[w] = NoJob, job'[w] # NoJob, NEW v \in Workers \ {w}
      PROVE  job[v] # job'[w]
  <2>1. pc[w] \in Holding /\ status[job'[w]] = "queued"
    BY <1>3, OwnRow
  <2>2. job[v] = job'[w] => pc[v] = "confirm"
    BY <1>3, <2>1 DEF OwnedRow
  <2> QED
    BY <2>1, <2>2 DEF LoopHeldOnce, Holding
<1> QED
    BY <1>1, <1>2, <1>3 DEF OneWorkerPerJob

LEMMA WorkerOwnedRow ==
    ASSUME TypeOK, TaskShape, OneWorkerPerJob, OwnedRow, OneWorkerPerJob',
           NEW w \in Workers, WorkerStep(w)
    PROVE  OwnedRow'
<1>1. /\ \A v \in Workers \ {w} : pc'[v] = pc[v] /\ job'[v] = job[v]
      /\ \A k \in Jobs \ {job[w], job'[w]} : status'[k] = status[k]
    BY StepOfOne
<1>2. ASSUME NEW v \in Workers \ {w}, job'[v] # NoJob
      PROVE  job'[v] \in Jobs \ {job[w], job'[w]}
    BY <1>1, <1>2 DEF TypeOK, WorkersType, OneWorkerPerJob
<1> QED
    BY <1>1, <1>2, OwnRow DEF OwnedRow

\* While create_batch refuses a job it holds the loop.
LEMMA WorkerRefusedRow ==
    ASSUME TypeOK, TaskShape, LoopHeldOnce, RefusedRow, NEW w \in Workers, WorkerStep(w)
    PROVE  RefusedRow'
<1>1. bjob = NoJob
    BY StepOfOne DEF TaskShape, LoopHeldOnce, LoopFree, BatchHolding
<1> QED
    BY <1>1, StepOfOne DEF RefusedRow, batch

LEMMA WorkerActiveRow ==
    ASSUME TypeOK, TaskShape, OwnedRow, ActiveRow, NEW w \in Workers, WorkerStep(w)
    PROVE  ActiveRow'
<1> SUFFICES ASSUME phase' # "down", NEW j \in Jobs, status'[j] \in JL!Active
             PROVE  Owned(j)'
    BY DEF ActiveRow
<1>1. CASE j = job'[w]
    BY <1>1 DEF Owned, Owns
<1>2. CASE j = job[w] /\ j # job'[w]
    BY <1>2, OwnRow DEF TypeOK, WorkersType
<1>3. CASE j \notin {job[w], job'[w]}
  <2>1. status[j] \in JL!Active /\ phase # "down"
    BY <1>3, StepOfOne
  <2>2. PICK v \in Workers : job[v] = j
    BY <2>1 DEF ActiveRow, Owned, Owns
  <2> QED
    BY <1>3, <2>2, StepOfOne DEF Owned, Owns
<1> QED
    BY <1>1, <1>2, <1>3

LEMMA WorkerDeliveredRow ==
    ASSUME TypeOK, TaskShape, OwnedRow, DeliveredRow, NEW w \in Workers, WorkerStep(w)
    PROVE  DeliveredRow'
<1>1. /\ \A v \in Workers \ {w} : job'[v] = job[v] /\ verdict'[v] = verdict[v]
      /\ \A k \in Jobs \ {job[w], job'[w]} : status'[k] = status[k]
      /\ delivered \subseteq delivered' /\ delivered' \subseteq delivered \union {job[w]}
      /\ delivery' = delivery
    BY StepOfOne
<1>2. \A v \in Workers : verdict'[v] = "ok" => job'[v] \in delivered'
    BY <1>1, OwnArtifact DEF DeliveredRow
<1>3. ASSUME NEW j \in Jobs
      PROVE  /\ j \in delivered' => status'[j] # "absent"
             /\ status'[j] = "completed" => j \in delivered'
             /\ j \in delivered' /\ delivery'[j] = "browser" => status'[j] # "gone"
  <2>1. CASE j = job[w]
    BY <1>1, <2>1, OwnRow, OwnArtifact
  <2>2. CASE j # job[w] /\ j = job'[w]
    <3>1. job[w] = NoJob
      BY <2>2, OwnRow
    <3> QED
      BY <2>2, <3>1, OwnRow
  <2>3. CASE j \notin {job[w], job'[w]}
    BY <1>1, <2>3 DEF DeliveredRow, CompletedMeansDelivered, ArtifactKeepsRow, HasArtifact
  <2> QED
    BY <2>1, <2>2, <2>3
<1>4. delivered' \subseteq Jobs
    BY WorkerTypeOK DEF TypeOK, TableType
<1> QED
    BY <1>2, <1>3, <1>4
       DEF DeliveredRow, CompletedMeansDelivered, ArtifactKeepsRow, HasArtifact

\* One step of one worker preserves the inductive invariant.
LEMMA WorkerIInv ==
    ASSUME IInv, NEW w \in Workers, WorkerStep(w)
    PROVE  IInv'
<1> USE DEF IInv, Ownership
<1>1. TypeOK' /\ TaskShape' /\ LoopHeldOnce'
    BY WorkerTypeOK, WorkerTaskShape, WorkerLoopHeldOnce
<1>2. OneWorkerPerJob'
    BY WorkerOneWorkerPerJob
<1>3. OwnedRow' /\ RefusedRow' /\ ActiveRow' /\ DeliveredRow'
    BY <1>2, WorkerOwnedRow, WorkerRefusedRow, WorkerActiveRow, WorkerDeliveredRow
<1> QED
    BY <1>1, <1>2, <1>3

\* Every step that is not a worker's preserves the inductive invariant.
LEMMA OtherIInv ==
    ASSUME IInv, TypeOK', [Next]_vars
    PROVE  (\E w \in Workers : WorkerStep(w)) \/ IInv'
<1> USE DEF IInv, Ownership, TypeOK, TableType, ProcessType, WorkersType, BatchType, table,
        process, workers, callers, batch, SetStatus, Goto, JL!Active, JL!Terminal
<1>1. ASSUME NEW c \in Callers, NEW j \in Jobs, CancelCommit(c, j) PROVE IInv'
  <2>1. TaskShape' /\ LoopHeldOnce'
    BY <1>1 DEF TaskShape, LoopHeldOnce, CancelCommit
  <2>2. OneWorkerPerJob' /\ OwnedRow'
    BY <1>1 DEF OneWorkerPerJob, OwnedRow, CancelCommit
  <2>3. RefusedRow' /\ ActiveRow'
    BY <1>1 DEF RefusedRow, ActiveRow, Owned, Owns, CancelCommit
  <2>4. DeliveredRow'
    BY <1>1 DEF DeliveredRow, CompletedMeansDelivered, ArtifactKeepsRow, HasArtifact,
                CancelCommit
  <2> QED
    BY <2>1, <2>2, <2>3, <2>4
<1>2. ASSUME NEW c \in Callers, NEW j \in Jobs, RetryCommit(c, j) PROVE IInv'
  <2>1. TaskShape' /\ LoopHeldOnce'
    BY <1>2 DEF TaskShape, LoopHeldOnce, RetryCommit
  <2>2. OneWorkerPerJob' /\ OwnedRow'
    BY <1>2 DEF OneWorkerPerJob, OwnedRow, RetryCommit, Retryable
  <2>3. RefusedRow' /\ ActiveRow'
    BY <1>2 DEF RefusedRow, ActiveRow, Owned, Owns, RetryCommit
  <2>4. DeliveredRow'
    BY <1>2 DEF DeliveredRow, CompletedMeansDelivered, ArtifactKeepsRow, HasArtifact,
                RetryCommit
  <2> QED
    BY <2>1, <2>2, <2>3, <2>4
<1>3. ASSUME NEW c \in Callers, CancelSignal(c) PROVE IInv'
  <2>1. TaskShape' /\ LoopHeldOnce'
    BY <1>3 DEF TaskShape, LoopHeldOnce, CancelSignal
  <2>2. OneWorkerPerJob' /\ OwnedRow'
    BY <1>3 DEF OneWorkerPerJob, OwnedRow, CancelSignal
  <2>3. RefusedRow' /\ ActiveRow'
    BY <1>3 DEF RefusedRow, ActiveRow, Owned, Owns, CancelSignal
  <2>4. DeliveredRow'
    BY <1>3 DEF DeliveredRow, CompletedMeansDelivered, ArtifactKeepsRow, HasArtifact,
                CancelSignal
  <2> QED
    BY <2>1, <2>2, <2>3, <2>4
<1>4. ASSUME NEW c \in Callers, RetryReread(c) PROVE IInv'
  <2>1. TaskShape' /\ LoopHeldOnce'
    BY <1>4 DEF TaskShape, LoopHeldOnce, RetryReread
  <2>2. OneWorkerPerJob' /\ OwnedRow'
    BY <1>4 DEF OneWorkerPerJob, OwnedRow, RetryReread
  <2>3. RefusedRow' /\ ActiveRow'
    BY <1>4 DEF RefusedRow, ActiveRow, Owned, Owns, RetryReread
  <2>4. DeliveredRow'
    BY <1>4 DEF DeliveredRow, CompletedMeansDelivered, ArtifactKeepsRow, HasArtifact,
                RetryReread
  <2> QED
    BY <2>1, <2>2, <2>3, <2>4
<1>5. ASSUME NEW c \in Callers, RetryNotify(c) PROVE IInv'
  <2>1. TaskShape' /\ LoopHeldOnce'
    BY <1>5 DEF TaskShape, LoopHeldOnce, Executing, Holding, RetryNotify, Wake
  <2>2. OneWorkerPerJob' /\ OwnedRow'
    BY <1>5 DEF OneWorkerPerJob, OwnedRow, RetryNotify, Wake
  <2>3. RefusedRow' /\ ActiveRow'
    BY <1>5 DEF RefusedRow, ActiveRow, Owned, Owns, RetryNotify
  <2>4. DeliveredRow'
    BY <1>5 DEF DeliveredRow, CompletedMeansDelivered, ArtifactKeepsRow, HasArtifact,
                RetryNotify
  <2> QED
    BY <2>1, <2>2, <2>3, <2>4
<1>6. CASE ClearHistory
  <2>1. TaskShape' /\ LoopHeldOnce'
    BY <1>6 DEF TaskShape, LoopHeldOnce, ClearHistory
  <2>2. OneWorkerPerJob' /\ OwnedRow'
    BY <1>6 DEF OneWorkerPerJob, OwnedRow, ClearHistory
  <2>3. RefusedRow' /\ ActiveRow'
    BY <1>6 DEF RefusedRow, ActiveRow, Owned, Owns, ClearHistory
  <2>4. DeliveredRow'
    BY <1>6 DEF DeliveredRow, CompletedMeansDelivered, ArtifactKeepsRow, HasArtifact,
                ClearHistory, Clearable
  <2> QED
    BY <2>1, <2>2, <2>3, <2>4
<1>7. ASSUME NEW n \in 1..MaxItems, NEW kind \in JL!Deliveries, SubmitBatch(n, kind) PROVE IInv'
  <2>1. TaskShape' /\ LoopHeldOnce'
    BY <1>7 DEF TaskShape, LoopHeldOnce, BatchHolding, SubmitBatch
  <2>2. OneWorkerPerJob' /\ OwnedRow'
    BY <1>7 DEF OneWorkerPerJob, OwnedRow, SubmitBatch
  <2>3. RefusedRow' /\ ActiveRow'
    BY <1>7 DEF RefusedRow, ActiveRow, Owned, Owns, SubmitBatch
  <2>4. DeliveredRow'
    BY <1>7 DEF DeliveredRow, CompletedMeansDelivered, ArtifactKeepsRow, HasArtifact,
                SubmitBatch
  <2> QED
    BY <2>1, <2>2, <2>3, <2>4
<1>8. ASSUME NEW j \in Jobs, AcceptItem(j) PROVE IInv'
  <2>1. TaskShape' /\ LoopHeldOnce'
    BY <1>8 DEF TaskShape, LoopHeldOnce, AcceptItem, BatchContinues, LoopFree
  <2>2. OneWorkerPerJob' /\ OwnedRow'
    BY <1>8 DEF OneWorkerPerJob, OwnedRow, AcceptItem, Insert, NextFree
  <2>3. RefusedRow' /\ ActiveRow'
    BY <1>8 DEF RefusedRow, ActiveRow, Owned, Owns, AcceptItem, Insert, BatchContinues
  <2>4. DeliveredRow'
    BY <1>8 DEF DeliveredRow, CompletedMeansDelivered, ArtifactKeepsRow, HasArtifact,
                AcceptItem, Insert
  <2> QED
    BY <2>1, <2>2, <2>3, <2>4
<1>9. ASSUME NEW j \in Jobs, RefuseItem(j) PROVE IInv'
  <2>1. TaskShape' /\ LoopHeldOnce'
    BY <1>9 DEF TaskShape, LoopHeldOnce, RefuseItem, LoopFree
  <2>2. OneWorkerPerJob' /\ OwnedRow'
    BY <1>9 DEF OneWorkerPerJob, OwnedRow, RefuseItem, Insert, NextFree
  <2>3. RefusedRow' /\ ActiveRow'
    BY <1>9 DEF RefusedRow, ActiveRow, OwnedRow, Owned, Owns, RefuseItem, Insert, NextFree
  <2>4. DeliveredRow'
    BY <1>9 DEF DeliveredRow, CompletedMeansDelivered, ArtifactKeepsRow, HasArtifact,
                RefuseItem, Insert
  <2> QED
    BY <2>1, <2>2, <2>3, <2>4
<1>10. CASE RejectItem
  <2>1. TaskShape' /\ LoopHeldOnce'
    BY <1>10 DEF TaskShape, LoopHeldOnce, RejectItem, BatchEnds
  <2>2. OneWorkerPerJob' /\ OwnedRow'
    BY <1>10 DEF OneWorkerPerJob, OwnedRow, RefusedRow, Owned, Owns, RejectItem
  <2>3. RefusedRow' /\ ActiveRow'
    BY <1>10 DEF RefusedRow, ActiveRow, Owned, Owns, RejectItem, BatchEnds
  <2>4. DeliveredRow'
    BY <1>10 DEF DeliveredRow, CompletedMeansDelivered, ArtifactKeepsRow, HasArtifact,
                 RejectItem
  <2> QED
    BY <2>1, <2>2, <2>3, <2>4
<1>11. CASE ConfirmItem
  <2>1. TaskShape' /\ LoopHeldOnce'
    BY <1>11 DEF TaskShape, LoopHeldOnce, ConfirmItem, BatchEnds, BatchContinues
  <2>2. OneWorkerPerJob' /\ OwnedRow'
    BY <1>11 DEF OneWorkerPerJob, OwnedRow, ConfirmItem
  <2>3. RefusedRow' /\ ActiveRow'
    BY <1>11 DEF RefusedRow, ActiveRow, Owned, Owns, ConfirmItem, BatchEnds, BatchContinues
  <2>4. DeliveredRow'
    BY <1>11 DEF DeliveredRow, CompletedMeansDelivered, ArtifactKeepsRow, HasArtifact,
                 ConfirmItem
  <2> QED
    BY <2>1, <2>2, <2>3, <2>4
<1>12. CASE NoMoreIds
  <2>1. TaskShape' /\ LoopHeldOnce'
    BY <1>12 DEF TaskShape, LoopHeldOnce, NoMoreIds, LoopFree
  <2>2. OneWorkerPerJob' /\ OwnedRow'
    BY <1>12 DEF OneWorkerPerJob, OwnedRow, NoMoreIds
  <2>3. RefusedRow' /\ ActiveRow'
    BY <1>12 DEF RefusedRow, ActiveRow, Owned, Owns, NoMoreIds
  <2>4. DeliveredRow'
    BY <1>12 DEF DeliveredRow, CompletedMeansDelivered, ArtifactKeepsRow, HasArtifact, NoMoreIds
  <2> QED
    BY <2>1, <2>2, <2>3, <2>4
<1>13. CASE ItemEscapes
  <2>1. TaskShape' /\ LoopHeldOnce'
    BY <1>13 DEF TaskShape, LoopHeldOnce, BatchHolding, ItemEscapes, BatchEnds
  <2>2. OneWorkerPerJob' /\ OwnedRow'
    BY <1>13 DEF OneWorkerPerJob, OwnedRow, ItemEscapes
  <2>3. RefusedRow' /\ ActiveRow'
    BY <1>13 DEF RefusedRow, ActiveRow, Owned, Owns, ItemEscapes, BatchEnds
  <2>4. DeliveredRow'
    BY <1>13 DEF DeliveredRow, CompletedMeansDelivered, ArtifactKeepsRow, HasArtifact,
                 ItemEscapes
  <2> QED
    BY <2>1, <2>2, <2>3, <2>4
<1>14. CASE BatchNotify
  <2>1. TaskShape' /\ LoopHeldOnce'
    BY <1>14 DEF TaskShape, LoopHeldOnce, Executing, Holding, BatchNotify, Wake, BatchEnds
  <2>2. OneWorkerPerJob' /\ OwnedRow'
    BY <1>14 DEF OneWorkerPerJob, OwnedRow, BatchNotify, Wake
  <2>3. RefusedRow' /\ ActiveRow'
    BY <1>14 DEF RefusedRow, ActiveRow, Owned, Owns, BatchNotify, BatchEnds
  <2>4. DeliveredRow'
    BY <1>14 DEF DeliveredRow, CompletedMeansDelivered, ArtifactKeepsRow, HasArtifact,
                 BatchNotify
  <2> QED
    BY <2>1, <2>2, <2>3, <2>4
<1>15. CASE StartService
  <2>1. TaskShape' /\ LoopHeldOnce'
    BY <1>15 DEF TaskShape, LoopHeldOnce, Executing, Holding, StartService
  <2>2. OneWorkerPerJob' /\ OwnedRow'
    BY <1>15 DEF OneWorkerPerJob, OwnedRow, TaskShape, Executing, StartService
  <2>3. RefusedRow' /\ ActiveRow'
    BY <1>15 DEF RefusedRow, ActiveRow, Owned, Owns, StartService, Recovered
  <2>4. DeliveredRow'
    BY <1>15 DEF DeliveredRow, CompletedMeansDelivered, ArtifactKeepsRow, HasArtifact,
                 StartService, Recovered
  <2> QED
    BY <2>1, <2>2, <2>3, <2>4
<1>16. CASE StopService
  <2>1. TaskShape' /\ LoopHeldOnce'
    BY <1>16 DEF TaskShape, LoopHeldOnce, Executing, Holding, StopService, Wake
  <2>2. OneWorkerPerJob' /\ OwnedRow'
    BY <1>16 DEF OneWorkerPerJob, OwnedRow, StopService, Wake
  <2>3. RefusedRow' /\ ActiveRow'
    BY <1>16 DEF RefusedRow, ActiveRow, Owned, Owns, StopService
  <2>4. DeliveredRow'
    BY <1>16 DEF DeliveredRow, CompletedMeansDelivered, ArtifactKeepsRow, HasArtifact,
                 StopService
  <2> QED
    BY <2>1, <2>2, <2>3, <2>4
<1>17. CASE Exit
  <2>1. TaskShape' /\ LoopHeldOnce'
    BY <1>17 DEF TaskShape, LoopHeldOnce, Executing, Holding, Exit, NoProcess, BatchEnds
  <2>2. OneWorkerPerJob' /\ OwnedRow'
    BY <1>17 DEF OneWorkerPerJob, OwnedRow, Exit, NoProcess
  <2>3. RefusedRow' /\ ActiveRow'
    BY <1>17 DEF RefusedRow, ActiveRow, Exit, NoProcess, BatchEnds
  <2>4. DeliveredRow'
    BY <1>17 DEF DeliveredRow, CompletedMeansDelivered, ArtifactKeepsRow, HasArtifact, Exit,
                 NoProcess
  <2> QED
    BY <2>1, <2>2, <2>3, <2>4
<1>18. CASE Crash
  <2>1. TaskShape' /\ LoopHeldOnce'
    BY <1>18 DEF TaskShape, LoopHeldOnce, Executing, Holding, Crash, NoProcess, BatchEnds
  <2>2. OneWorkerPerJob' /\ OwnedRow'
    BY <1>18 DEF OneWorkerPerJob, OwnedRow, Crash, NoProcess
  <2>3. RefusedRow' /\ ActiveRow'
    BY <1>18 DEF RefusedRow, ActiveRow, Crash, NoProcess, BatchEnds
  <2>4. DeliveredRow'
    BY <1>18 DEF DeliveredRow, CompletedMeansDelivered, ArtifactKeepsRow, HasArtifact, Crash,
                 NoProcess
  <2> QED
    BY <2>1, <2>2, <2>3, <2>4
<1>19. CASE UNCHANGED vars
    BY <1>19 DEF vars, TaskShape, LoopHeldOnce, OneWorkerPerJob, OwnedRow, RefusedRow, Owned,
                 Owns, ActiveRow, DeliveredRow, CompletedMeansDelivered, ArtifactKeepsRow,
                 HasArtifact
<1> QED
    BY <1>1, <1>2, <1>3, <1>4, <1>5, <1>6, <1>7, <1>8, <1>9, <1>10, <1>11, <1>12, <1>13,
       <1>14, <1>15, <1>16, <1>17, <1>18, <1>19
       DEF Next, CallerStep, BatchStep

-----------------------------------------------------------------------------
(* What no step may do *)

\* A worker leaves a finished row alone, and a cancelled one when its task was
\* stopped or is over.
LEMMA WorkerLeavesFinished ==
    ASSUME IInv, NEW w \in Workers, WorkerStep(w), NEW j \in Jobs,
           status[j] \in {"completed", "failed"} \/ CancelSettled(j)
    PROVE  status'[j] = status[j]
<1> USE DEF IInv, TypeOK, TableType, WorkersType, SetStatus
<1>1. status \in [Jobs -> JL!Statuses] /\ job \in [Workers -> Jobs \union {NoJob}]
    OBVIOUS
<1>2. status[j] # "queued" /\ Exists(status[j])
    BY DEF CancelSettled, Exists
<1>3. /\ j = job[w] /\ status[j] # "cancelled" => pc[w] = "confirm"
      /\ j = job[w] /\ status[j] = "cancelled" =>
             pc[w] \in {"ended"} \/ (w \in mustCancel /\ pc[w] \in {"created", "await"})
    BY DEF Ownership, OwnedRow, CancelSettled, Owns
<1>4. CASE Begin(w) \/ CheckWake(w) \/ Park(w) \/ Spawn(w) \/ StartTask(w) \/ Reread(w)
           \/ Resume(w) \/ Deliver(w) \/ Confirm(w)
    BY <1>4 DEF Begin, CheckWake, Park, Spawn, StartTask, Reread, Resume, Deliver, Confirm,
                table
<1>5. CASE Claim(w)
    BY <1>1, <1>2, <1>5 DEF Claim, OldestQueued
<1>6. CASE Update(w)
    BY <1>1, <1>3, <1>6 DEF Update
<1>7. CASE Settle(w)
    BY <1>1, <1>2, <1>3, <1>7 DEF Settle, Cancellable, JL!Terminal
<1>8. CASE Finish(w)
    BY <1>1, <1>3, <1>8 DEF Finish
<1> QED
    BY <1>4, <1>5, <1>6, <1>7, <1>8 DEF WorkerStep

\* Every other step clears a finished row, retries a failed one, or leaves it.
LEMMA OtherLeavesFinished ==
    ASSUME IInv, [Next]_vars, \A w \in Workers : ~WorkerStep(w), NEW j \in Jobs
    PROVE  /\ status[j] = "completed" => status'[j] \in {"completed", "gone"}
           /\ status[j] = "failed" => status'[j] \in {"failed", "queued", "gone"}
           /\ CancelSettled(j) => status'[j] \in {"cancelled", "gone"}
<1> USE DEF IInv, TypeOK, TableType, SetStatus, table
<1>0. CancelSettled(j) => status[j] = "cancelled" /\ bjob # j
    BY DEF CancelSettled
<1>1. ASSUME NEW c \in Callers, NEW k \in Jobs, CancelCommit(c, k)
      PROVE  status[j] \in JL!Terminal => status'[j] = status[j]
    BY <1>1 DEF CancelCommit, Cancellable
<1>2. ASSUME NEW c \in Callers, NEW k \in Jobs, RetryCommit(c, k)
      PROVE  status'[j] # status[j] => status[j] = "failed" /\ status'[j] = "queued"
    BY <1>2 DEF RetryCommit, Retryable
<1>3. ASSUME NEW c \in Callers, CallerStep(c) PROVE status'[j] = status[j]
    BY <1>3 DEF CallerStep, CancelSignal, RetryReread, RetryNotify
<1>4. CASE ClearHistory
    BY <1>0, <1>4 DEF ClearHistory
<1>5. ASSUME NEW n \in 1..MaxItems, NEW kind \in JL!Deliveries, SubmitBatch(n, kind)
      PROVE  status'[j] = status[j]
    BY <1>5 DEF SubmitBatch
<1>6. ASSUME NEW k \in Jobs, AcceptItem(k) \/ RefuseItem(k)
      PROVE  status[j] # "absent" => status'[j] = status[j]
    BY <1>6 DEF AcceptItem, RefuseItem, Insert, NextFree
<1>7. CASE RejectItem
  <2>1. bjob \in Jobs /\ status[bjob] \in {"queued", "cancelled", "gone"}
    BY <1>7 DEF RejectItem, Ownership, RefusedRow, TaskShape, BatchType
  <2> QED
    BY <1>0, <1>7, <2>1 DEF RejectItem
<1>8. CASE StartService
    BY <1>0, <1>8 DEF StartService, Recovered, JL!Active
<1>9. CASE ConfirmItem \/ NoMoreIds \/ ItemEscapes \/ BatchNotify \/ StopService \/ Exit
           \/ Crash \/ UNCHANGED vars
    BY <1>0, <1>9
       DEF ConfirmItem, NoMoreIds, ItemEscapes, BatchNotify, StopService, Exit, Crash, vars
<1> QED
    BY <1>0, <1>1, <1>2, <1>3, <1>4, <1>5, <1>6, <1>7, <1>8, <1>9
       DEF Next, BatchStep, JL!Terminal

\* A worker that has a cancelled job, and cannot write its row, still cannot
\* after a step of its own: the step is its task's end or the release of the job.
LEMMA OwnStepKeepsSettled ==
    ASSUME IInv, NEW w \in Workers, WorkerStep(w), NEW j \in Jobs, CancelSettled(j),
           job'[w] = j
    PROVE  pc'[w] = "ended" \/ (w \in mustCancel' /\ pc'[w] \in {"created", "await"})
<1> USE DEF IInv, TypeOK, TableType, WorkersType, SetStatus, Goto, End, Release
<1>1. pc \in [Workers -> Labels] /\ job \in [Workers -> Jobs \union {NoJob}]
      /\ j # NoJob /\ status[j] = "cancelled"
    BY DEF CancelSettled, Jobs, NoJob
<1>2. job[w] = j => pc[w] = "ended" \/ (w \in mustCancel /\ pc[w] \in {"created", "await"})
    BY DEF CancelSettled, Owns
<1>3. CASE Claim(w)
    BY <1>1, <1>2, <1>3 DEF Claim, OldestQueued
<1>4. CASE StartTask(w) \/ Resume(w)
    BY <1>1, <1>2, <1>4 DEF StartTask, Resume
<1>5. CASE Settle(w)
    BY <1>1, <1>2, <1>5 DEF Settle, StillWanted
<1>6. CASE Begin(w) \/ CheckWake(w) \/ Park(w) \/ Spawn(w) \/ Update(w) \/ Reread(w)
           \/ Deliver(w) \/ Finish(w) \/ Confirm(w)
    BY <1>1, <1>2, <1>6
       DEF Begin, CheckWake, Park, Spawn, Update, Reread, Deliver, Finish, Confirm
<1> QED
    BY <1>3, <1>4, <1>5, <1>6 DEF WorkerStep

\* A step of one worker leaves the others where they are.
LEMMA OthersUntouched ==
    ASSUME IInv, NEW v \in Workers, WorkerStep(v), NEW w \in Workers, w # v
    PROVE  /\ job'[w] = job[w] /\ pc'[w] = pc[w]
           /\ w \in mustCancel => w \in mustCancel'
<1> USE DEF IInv, TypeOK, WorkersType, Goto, End, Enter, Release
<1>1. CASE Begin(v) \/ Claim(v) \/ CheckWake(v) \/ Park(v) \/ Spawn(v) \/ StartTask(v)
    BY <1>1 DEF Begin, Claim, CheckWake, Park, Spawn, StartTask
<1>2. CASE Update(v) \/ Reread(v) \/ Resume(v) \/ Deliver(v)
    BY <1>2 DEF Update, Reread, Resume, Deliver
<1>3. CASE Settle(v) \/ Finish(v) \/ Confirm(v)
    BY <1>3 DEF Settle, Finish, Confirm
<1> QED
    BY <1>1, <1>2, <1>3 DEF WorkerStep

\* Steps of threads, batches and the process take no worker's cancel away.
LEMMA OtherKeepsSettled ==
    ASSUME IInv, [Next]_vars, \A w \in Workers : ~WorkerStep(w), NEW j \in Jobs,
           CancelSettled(j), NEW w \in Workers, job'[w] = j
    PROVE  pc'[w] = "ended" \/ (w \in mustCancel' /\ pc'[w] \in {"created", "await"})
<1> USE DEF IInv, TypeOK, WorkersType
<1>1. j # NoJob
    BY DEF Jobs, NoJob
<1>2. job[w] = j => pc[w] = "ended" \/ (w \in mustCancel /\ pc[w] \in {"created", "await"})
    BY DEF CancelSettled, Owns
<1>3. ASSUME NEW c \in Callers, NEW k \in Jobs, CancelCommit(c, k) \/ RetryCommit(c, k)
      PROVE  UNCHANGED workers
    BY <1>3 DEF CancelCommit, RetryCommit
<1>4. ASSUME NEW c \in Callers, CallerStep(c)
      PROVE  /\ job' = job /\ mustCancel \subseteq mustCancel'
             /\ pc[w] # "parked" => pc'[w] = pc[w]
    BY <1>4 DEF CallerStep, CancelSignal, RetryReread, RetryNotify, Wake, workers
<1>5. ASSUME NEW n \in 1..MaxItems, NEW kind \in JL!Deliveries, SubmitBatch(n, kind)
      PROVE  UNCHANGED workers
    BY <1>5 DEF SubmitBatch
<1>6. CASE BatchStep
  <2>1. /\ job' = job /\ mustCancel' = mustCancel
        /\ pc[w] # "parked" => pc'[w] = pc[w]
    BY <1>6 DEF BatchStep, AcceptItem, RefuseItem, RejectItem, ConfirmItem, NoMoreIds,
                ItemEscapes, BatchNotify, Wake, workers
  <2> QED
    BY <1>2, <2>1
<1>7. CASE StartService
    BY <1>1, <1>7 DEF StartService, TaskShape, Executing
<1>8. CASE StopService
  <2>1. /\ job' = job /\ mustCancel \subseteq mustCancel'
        /\ pc[w] # "parked" => pc'[w] = pc[w]
    BY <1>8 DEF StopService, Wake
  <2> QED
    BY <1>2, <2>1
<1>9. CASE Exit \/ Crash
    BY <1>1, <1>9 DEF Exit, Crash, NoProcess
<1>10. CASE ClearHistory \/ UNCHANGED vars
    BY <1>2, <1>10 DEF ClearHistory, vars, workers
<1> QED
    BY <1>2, <1>3, <1>4, <1>5, <1>6, <1>7, <1>8, <1>9, <1>10 DEF Next, workers

\* No batch takes up a job that has its row.
LEMMA NoBatchTakesSettled ==
    ASSUME IInv, [Next]_vars, NEW j \in Jobs, CancelSettled(j)
    PROVE  bjob' # j
<1>1. bjob # j /\ status[j] = "cancelled" /\ j # NoJob
    BY DEF CancelSettled, Jobs, NoJob
<1>2. ASSUME NEW w \in Workers, WorkerStep(w) PROVE bjob' = bjob
    BY <1>2 DEF WorkerStep, Begin, Claim, CheckWake, Park, Spawn, StartTask, Update, Reread,
                Resume, Deliver, Settle, Finish, Confirm, batch
<1>3. ASSUME NEW c \in Callers, NEW k \in Jobs, CancelCommit(c, k) \/ RetryCommit(c, k)
      PROVE  bjob' = bjob
    BY <1>3 DEF CancelCommit, RetryCommit, batch
<1>4. ASSUME NEW c \in Callers, CallerStep(c) PROVE bjob' = bjob
    BY <1>4 DEF CallerStep, CancelSignal, RetryReread, RetryNotify, batch
<1>5. ASSUME NEW k \in Jobs, AcceptItem(k) \/ RefuseItem(k) PROVE bjob' # j
    BY <1>1, <1>5 DEF AcceptItem, RefuseItem, Insert, NextFree, BatchContinues
<1>6. CASE RejectItem \/ ConfirmItem \/ NoMoreIds \/ ItemEscapes \/ BatchNotify
    BY <1>1, <1>6 DEF RejectItem, ConfirmItem, NoMoreIds, ItemEscapes, BatchNotify, BatchEnds,
                      BatchContinues
<1>7. CASE ClearHistory \/ StartService \/ StopService \/ Exit \/ Crash \/ UNCHANGED vars
    BY <1>1, <1>7 DEF ClearHistory, StartService, StopService, Exit, Crash, NoProcess,
                      BatchEnds, batch, vars
<1>8. ASSUME NEW n \in 1..MaxItems, NEW kind \in JL!Deliveries, SubmitBatch(n, kind)
      PROVE  bjob' = bjob
    BY <1>8 DEF SubmitBatch
<1> QED
    BY <1>1, <1>2, <1>3, <1>4, <1>5, <1>6, <1>7, <1>8 DEF Next, BatchStep

-----------------------------------------------------------------------------
(* The inductive invariant and what follows from it *)

LEMMA InitIInv == Init => IInv
<1> SUFFICES ASSUME Init PROVE IInv
    OBVIOUS
<1>1. TypeOK
    BY InitTypeOK
<1>2. TaskShape /\ Ownership
    BY DEF Init, TaskShape, Executing, Ownership, LoopHeldOnce, OneWorkerPerJob, OwnedRow,
           RefusedRow, ActiveRow, Holding, BatchHolding
<1>3. DeliveredRow
    BY DEF Init, DeliveredRow, CompletedMeansDelivered, ArtifactKeepsRow, HasArtifact
<1> QED
    BY <1>1, <1>2, <1>3 DEF IInv

LEMMA NextIInv == IInv /\ [Next]_vars => IInv'
<1> SUFFICES ASSUME IInv, [Next]_vars PROVE IInv'
    OBVIOUS
<1>1. TypeOK'
    BY NextTypeOK DEF IInv
<1>2. CASE \E w \in Workers : WorkerStep(w)
    BY <1>2, WorkerIInv
<1> QED
    BY <1>1, <1>2, OtherIInv

\* What workers, rows, endpoint threads and the batch know of one another, whoever
\* is where in _worker, _run, cancel and create_batch: the inductive invariant.
THEOREM InvariantHolds == Spec => []IInv
    BY InitIInv, NextIInv, PTL DEF Spec

\* Every variable keeps its type and rows are created in the order of their
\* ids: the jobs table, QueueService's workers and create_batch stay well formed.
THEOREM TypeCorrect == Spec => []TypeOK
<1>1. IInv => TypeOK
    BY DEF IInv
<1> QED
    BY InvariantHolds, <1>1, PTL

\* QueueService never has two workers execute one job, for any number of
\* workers, jobs and threads and whatever is cancelled, retried, cleared, crashed.
THEOREM JobsAreExclusive == Spec => []OneWorkerPerJob
<1>1. IInv => OneWorkerPerJob
    BY DEF IInv, Ownership
<1> QED
    BY InvariantHolds, <1>1, PTL

\* While the service is up a job in an active status has its worker: claim_next,
\* recover_interrupted and the worker's exception paths orphan none.
THEOREM NoOrphans == Spec => []ActiveIsOwned
<1>1. IInv => ActiveIsOwned
    BY DEF IInv, Ownership, ActiveRow, ActiveIsOwned
<1> QED
    BY InvariantHolds, <1>1, PTL

\* The worker's transition to COMPLETED is only reached after to_server or
\* to_browser succeeded for that job.
THEOREM CompletionIsHonest == Spec => []CompletedMeansDelivered
<1>1. IInv => CompletedMeansDelivered
    BY DEF IInv, DeliveredRow
<1> QED
    BY InvariantHolds, <1>1, PTL

\* clear_terminal_history and the foreign key of browser_artifacts keep the row
\* of every file a browser may still fetch.
THEOREM ArtifactsKeepTheirJob == Spec => []ArtifactKeepsRow
<1>1. IInv => ArtifactKeepsRow
    BY DEF IInv, DeliveredRow
<1> QED
    BY InvariantHolds, <1>1, PTL

\* A completed job is only ever cleared, a failed one only retried or cleared.
THEOREM OutcomesAreFinal == Spec => OutcomeIsFinal
<1>1. ASSUME IInv, [Next]_vars, NEW j \in Jobs
      PROVE  /\ status[j] = "completed" => status'[j] \in {"completed", "gone"}
             /\ status[j] = "failed" => status'[j] \in {"failed", "queued", "gone"}
    BY <1>1, WorkerLeavesFinished, OtherLeavesFinished
<1>2. IInv /\ [Next]_vars =>
      [\A j \in Jobs :
         /\ status[j] = "completed" => status'[j] \in {"completed", "gone"}
         /\ status[j] = "failed" => status'[j] \in {"failed", "queued", "gone"}]_vars
    BY <1>1
<1> QED
    BY InvariantHolds, <1>2, PTL DEF Spec, OutcomeIsFinal

\* Once a cancel is settled nothing runs, fails or completes the job again.
THEOREM SettledCancelsAreFinal == Spec => SettledCancelIsFinal
<1>1. ASSUME IInv, [Next]_vars, NEW j \in Jobs, CancelSettled(j)
      PROVE  status'[j] = "gone" \/ CancelSettled(j)'
  <2>1. status[j] = "cancelled"
    BY <1>1 DEF CancelSettled
  <2>2. status'[j] \in {"cancelled", "gone"}
    BY <1>1, <2>1, WorkerLeavesFinished, OtherLeavesFinished
  <2>3. ASSUME NEW w \in Workers, job'[w] = j
        PROVE  pc'[w] = "ended" \/ (w \in mustCancel' /\ pc'[w] \in {"created", "await"})
    <3>1. CASE WorkerStep(w)
      BY <1>1, <2>3, <3>1, OwnStepKeepsSettled
    <3>2. CASE \E v \in Workers \ {w} : WorkerStep(v)
      BY <1>1, <2>3, <3>2, OthersUntouched DEF CancelSettled, Owns
    <3>3. CASE \A v \in Workers : ~WorkerStep(v)
      BY <1>1, <2>3, <3>3, OtherKeepsSettled
    <3> QED
      BY <3>1, <3>2, <3>3
  <2>4. bjob' # j
    BY <1>1, NoBatchTakesSettled
  <2> QED
    BY <2>2, <2>3, <2>4 DEF CancelSettled, Owns
<1>2. IInv /\ [Next]_vars =>
      [\A j \in Jobs : CancelSettled(j) => status'[j] = "gone" \/ CancelSettled(j)']_vars
    BY <1>1
<1> QED
    BY InvariantHolds, <1>2, PTL DEF Spec, SettledCancelIsFinal
=============================================================================
