---------------------------- MODULE JobLifecycle ----------------------------
(***************************************************************************)
(* What the download queue promises about one row of the jobs table, with  *)
(* no worker, thread or event loop in sight: the order of the stages, who  *)
(* may end a job, and which steps lead out of a terminal status.  The      *)
(* module DownloadQueue is the mechanism; it is shown to implement this.   *)
(***************************************************************************)
EXTENDS Naturals

CONSTANT Jobs      \* job ids, in order of created_at

VARIABLES
    status,        \* the status column; "absent" before INSERT, "gone" after DELETE
    delivery       \* the delivery the job was submitted with

lifecycle == <<status, delivery>>

-----------------------------------------------------------------------------

\* JobStatus.terminal
Terminal == {"completed", "failed", "cancelled"}

\* The statuses recover_interrupted re-queues: neither terminal nor queued.
Active == {"resolving", "downloading", "tagging", "publishing"}

Live == Active \union {"queued"}

Statuses == Live \union Terminal \union {"absent", "gone"}

Deliveries == {"server", "browser"}

\* The stage that follows each one; a browser delivery skips "publishing".
Follows(from, to, kind) ==
    \/ from = "resolving"   /\ to = "downloading"
    \/ from = "downloading" /\ to = "tagging"
    \/ from = "tagging"     /\ to = "publishing" /\ kind = "server"

LastStage(kind) == IF kind = "server" THEN "publishing" ELSE "tagging"

-----------------------------------------------------------------------------

Init ==
    /\ status = [j \in Jobs |-> "absent"]
    /\ delivery = [j \in Jobs |-> "server"]   \* the default, until Submit sets it

Becomes(j, s) == status' = [status EXCEPT ![j] = s] /\ UNCHANGED delivery

Submit(j, kind) ==
    /\ status[j] = "absent"
    /\ \A k \in Jobs : k < j => status[k] # "absent"
    /\ status' = [status EXCEPT ![j] = "queued"]
    /\ delivery' = [delivery EXCEPT ![j] = kind]

\* A batch item that is invalid or already in the library never runs.
Reject(j) == status[j] = "queued" /\ Becomes(j, "failed")

\* First come, first served among the queued jobs.
Start(j) ==
    /\ status[j] = "queued"
    /\ \A k \in Jobs : k < j => status[k] # "queued"
    /\ Becomes(j, "resolving")

Advance(j) ==
    \E s \in Active : Follows(status[j], s, delivery[j]) /\ Becomes(j, s)

Complete(j) == status[j] = LastStage(delivery[j]) /\ Becomes(j, "completed")

Fail(j) == status[j] \in Active /\ Becomes(j, "failed")

Cancel(j) == status[j] \in Live /\ Becomes(j, "cancelled")

Retry(j) == status[j] = "failed" /\ Becomes(j, "queued")

\* A restart returns every interrupted job to the queue, all at once.
Recover ==
    /\ status' = [j \in Jobs |-> IF status[j] \in Active THEN "queued" ELSE status[j]]
    /\ UNCHANGED delivery

\* Clearing the history deletes finished jobs only.
Clear ==
    \E S \in SUBSET {j \in Jobs : status[j] \in Terminal} :
        /\ status' = [j \in Jobs |-> IF j \in S THEN "gone" ELSE status[j]]
        /\ UNCHANGED delivery

Next ==
    \/ \E j \in Jobs :
        \/ \E kind \in Deliveries : Submit(j, kind)
        \/ Reject(j) \/ Start(j) \/ Advance(j) \/ Complete(j)
        \/ Fail(j) \/ Cancel(j) \/ Retry(j)
    \/ Recover
    \/ Clear

Spec == Init /\ [][Next]_lifecycle

-----------------------------------------------------------------------------
(* What is left of the promise when a cancel may be lost: the row goes on at *)
(* some later stage or outcome, and everything else is as above.             *)

Overwrite(j) ==
    /\ status[j] = "cancelled"
    /\ \E s \in Active \union {"completed", "failed"} : Becomes(j, s)

LossyNext == Next \/ \E j \in Jobs : Overwrite(j)

LossySpec == Init /\ [][LossyNext]_lifecycle
=============================================================================
