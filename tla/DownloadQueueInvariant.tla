----------------------- MODULE DownloadQueueInvariant -----------------------
(***************************************************************************)
(* The inductive invariant behind the safety properties of DownloadQueue.  *)
(* None of OneWorkerPerJob, ActiveIsOwned or CompletedMeansDelivered is    *)
(* inductive: each rests on who has the event loop and on what the row of  *)
(* an owned job may say at each point of its worker.                       *)
(***************************************************************************)
EXTENDS DownloadQueue

\* From the claim to the finally clause.
Executing == {"spawn", "created", "update", "reread", "await", "deliver",
              "ended", "finish", "confirm"}

\* The program counters say which of the other variables are in use.
TaskShape ==
    /\ \A w \in Workers : job[w] # NoJob <=> pc[w] \in Executing
    /\ \A w \in Workers : pc[w] \in {"update", "reread", "await", "deliver"}
           => stage[w] \in JL!Active
    /\ \A w \in Workers : verdict[w] # "none" => pc[w] \in {"ended", "finish", "confirm"}
    /\ bjob # NoJob <=> bpc \in {"reject", "confirm"}
    /\ bpc \in {"prepare", "reject", "confirm"} => left > 0
    /\ \A w \in Workers : phase = "down" <=> pc[w] = "off"

\* asyncio runs one coroutine step at a time.
LoopHeldOnce ==
    /\ \A v, w \in Workers : pc[v] \in Holding /\ pc[w] \in Holding => v = w
    /\ bpc \in BatchHolding => \A w \in Workers : pc[w] \notin Holding

\* While a worker owns a job the row has an outcome, or is queued again, only
\* at the worker's last step, when it has the loop and nobody can claim.
OwnedRow ==
    \A w \in Workers : job[w] # NoJob =>
        /\ status[job[w]] # "absent"
        /\ status[job[w]] \in {"queued", "completed", "failed"} => pc[w] = "confirm"
        /\ pc[w] = "confirm" => status[job[w]] \notin JL!Active

\* The row a batch is refusing is its own: no worker has seen it.
RefusedRow ==
    bjob # NoJob =>
        /\ ~Owned(bjob) /\ status[bjob] # "absent"
        /\ bpc = "reject" => status[bjob] \in {"queued", "cancelled", "gone"}

ActiveRow ==
    phase # "down" => \A j \in Jobs : status[j] \in JL!Active => Owned(j)

DeliveredRow ==
    /\ \A w \in Workers : verdict[w] = "ok" => job[w] \in delivered
    /\ \A j \in delivered : status[j] # "absent"
    /\ CompletedMeansDelivered
    /\ ArtifactKeepsRow

\* A job a worker owns is that worker's alone, its row is as the worker's
\* program counter says, and whatever is active is owned.
Ownership == LoopHeldOnce /\ OneWorkerPerJob /\ OwnedRow /\ RefusedRow /\ ActiveRow

\* Checked by TLC, proved inductive in DownloadQueueProofs.
IInv == TypeOK /\ TaskShape /\ Ownership /\ DeliveredRow

-----------------------------------------------------------------------------
(* The row also follows the task, stage by stage, unless it is cancelled. *)

\* The status a row has while its task is about to enter stage s.
Before(s) ==
    CASE s = "tagging" -> "downloading"
      [] s = "publishing" -> "tagging"
      [] OTHER -> "resolving"

\* Cancelled, and perhaps cleared after that.
CalledOff(j) == status[j] \in {"cancelled", "gone"}

\* The status of an owned row is the one its task last wrote, unless a thread has
\* cancelled it since.
OnStage(w) ==
    IF job[w] = NoJob THEN stage[w] = "none"
    ELSE LET s == status[job[w]] IN
         /\ pc[w] = "await" => stage[w] # "publishing"
         /\ stage[w] = "publishing" => delivery[job[w]] = "server"
         /\ \/ CalledOff(job[w])
            \/ /\ pc[w] \in {"spawn", "created"} => s = "resolving"
               /\ pc[w] = "update" => s = Before(stage[w])
               /\ pc[w] \in {"reread", "await", "deliver"} => s = stage[w]
               /\ pc[w] = "deliver" \/ (verdict[w] = "ok" /\ pc[w] # "confirm")
                      => s = JL!LastStage(delivery[job[w]])

StageRow == \A w \in Workers : OnStage(w)

\* Where nobody cancels, a row that is still being worked on is not called off.
NoneCalledOff ==
    /\ \A w \in Workers : job[w] # NoJob /\ pc[w] # "confirm" => ~CalledOff(job[w])
    /\ bpc = "reject" => status[bjob] = "queued"
=============================================================================
