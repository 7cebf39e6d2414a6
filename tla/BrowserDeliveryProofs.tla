------------------------- MODULE BrowserDeliveryProofs -------------------------
(***************************************************************************)
(* BrowserDelivery, for any jobs and requests: DeliveryInv is inductive,   *)
(* and what is offered, completed or being sent follows from it.           *)
(***************************************************************************)
EXTENDS BrowserDelivery, TLAPS

USE DeliveryAssumption

\* Nothing is offered before the first job.
LEMMA InitDelivery == Init => DeliveryInv
BY DEF Init, DeliveryInv, DeliveryTypeOK, DeliveringRow, ArtifactRow,
       CompletedIsRetrievable, SendingArtifact, Terminal, Running

\* A step of the queue changes one row, and none with an artifact into one that
\* would deliver again.
LEMMA QueueKeeps ==
    ASSUME DeliveryInv, NEW j \in Jobs, QueueStep(j)
    PROVE  DeliveryInv'
<1> USE DEF DeliveryInv, DeliveryTypeOK, DeliveringRow, ArtifactRow,
            CompletedIsRetrievable, SendingArtifact, Terminal, Running, SetRow
<1>1. CASE Submit(j) BY <1>1 DEF Submit
<1>2. CASE Claim(j) BY <1>2 DEF Claim
<1>3. CASE Revalidate(j) BY <1>3 DEF Revalidate
<1>4. CASE FailEarly(j) BY <1>4 DEF FailEarly
<1>5. CASE Cancel(j) BY <1>5 DEF Cancel
<1>6. CASE Retry(j) BY <1>6 DEF Retry
<1>7. CASE Lapse(j) BY <1>7 DEF Lapse
<1>8. QED BY <1>1, <1>2, <1>3, <1>4, <1>5, <1>6, <1>7 DEF QueueStep

\* to_browser, effect by effect.
LEMMA DeliveryKeeps ==
    ASSUME DeliveryInv, DeliveryStep \/ \E j \in Jobs : MakeDirectory(j)
    PROVE  DeliveryInv'
<1> USE DEF DeliveryInv, DeliveryTypeOK, DeliveringRow, ArtifactRow,
            CompletedIsRetrievable, SendingArtifact, Terminal, Running, SetRow,
            Failing, Completing, Idle
<1>1. ASSUME NEW j \in Jobs, MakeDirectory(j) PROVE DeliveryInv'
  BY <1>1 DEF MakeDirectory
<1>2. CASE WriteFile BY <1>2 DEF WriteFile
<1>3. CASE Register BY <1>3 DEF Register
<1>4. CASE Complete BY <1>4 DEF Complete
<1>5. QED BY <1>1, <1>2, <1>3, <1>4 DEF DeliveryStep

\* The endpoints and the clock never take an artifact away.
LEMMA EndpointsKeep ==
    ASSUME DeliveryInv,
           \/ ClearHistory
           \/ \E j \in Jobs : Expire(j)
           \/ \E r \in Requests : (\E j \in Jobs : Open(r, j)) \/ Sent(r) \/ Dropped(r)
    PROVE  DeliveryInv'
<1> USE DEF DeliveryInv, DeliveryTypeOK, DeliveringRow, ArtifactRow,
            CompletedIsRetrievable, SendingArtifact, Terminal, Running, Spend
<1>1. CASE ClearHistory BY <1>1 DEF ClearHistory, Clearable
<1>2. ASSUME NEW j \in Jobs, Expire(j) PROVE DeliveryInv'
  BY <1>2 DEF Expire
<1>3. ASSUME NEW r \in Requests, NEW j \in Jobs, Open(r, j) PROVE DeliveryInv'
  BY <1>3 DEF Open
<1>4. ASSUME NEW r \in Requests, Sent(r) PROVE DeliveryInv'
  BY <1>4 DEF Sent
<1>5. ASSUME NEW r \in Requests, Dropped(r) PROVE DeliveryInv'
  BY <1>5 DEF Dropped
<1>6. QED BY <1>1, <1>2, <1>3, <1>4, <1>5

\* A crash takes the snapshot of every job it sends back to the queue.
LEMMA CrashKeeps == DeliveryInv /\ Crash => DeliveryInv'
BY DEF Crash, Idle, DeliveryInv, DeliveryTypeOK, DeliveringRow, ArtifactRow,
       CompletedIsRetrievable, SendingArtifact, Terminal, Running

LEMMA StepKeeps == DeliveryInv /\ [Next]_vars => DeliveryInv'
<1> SUFFICES ASSUME DeliveryInv, [Next]_vars PROVE DeliveryInv'
  OBVIOUS
<1>1. CASE UNCHANGED vars
  BY <1>1 DEF vars, DeliveryInv, DeliveryTypeOK, DeliveringRow, ArtifactRow,
              CompletedIsRetrievable, SendingArtifact
<1>2. CASE Next
  BY <1>2, QueueKeeps, DeliveryKeeps, EndpointsKeep, CrashKeeps DEF Next
<1>3. QED BY <1>1, <1>2

\* The inductive invariant holds in every behaviour.
THEOREM DeliveryInvariant == Spec => []DeliveryInv
BY InitDelivery, StepKeeps, PTL DEF Spec

\* Rows, artifacts, directories and to_browser's locals keep their types.
THEOREM DeliveryTypes == Spec => []DeliveryTypeOK
<1>1. DeliveryInv => DeliveryTypeOK
  BY DEF DeliveryInv
<1>2. QED BY <1>1, DeliveryInvariant, PTL

\* What the router offers or sends is a whole file of a job that has its row:
\* browser_artifacts never outlives the file or the job.
THEOREM WholeArtifacts == Spec => []ArtifactIsWhole
<1>1. DeliveryInv => ArtifactIsWhole
  BY DEF DeliveryInv, DeliveryTypeOK, ArtifactRow, SendingArtifact, ArtifactIsWhole
<1>2. QED BY <1>1, DeliveryInvariant, PTL

\* A job recorded as completed has an artifact to fetch.
THEOREM CompletedHasArtifact == Spec => []CompletedIsRetrievable
<1>1. DeliveryInv => CompletedIsRetrievable
  BY DEF DeliveryInv
<1>2. QED BY <1>1, DeliveryInvariant, PTL

\* No step touches a file that is being sent, nor offers a delivered one again:
\* to_browser has left the job of an artifact for good.
LEMMA StepDeliversOnce ==
    ASSUME DeliveryInv, [Next]_vars, NEW j \in Jobs
    PROVE  /\ (\E r \in Requests : get[r] = j) => dir'[j] = dir[j]
           /\ artifact[j] = "spent" => artifact'[j] = "spent"
<1>1. CASE artifact[j] = "none"
  BY <1>1 DEF DeliveryInv, SendingArtifact, DeliveryTypeOK
<1>2. CASE artifact[j] # "none"
  <2> USE <1>2 DEF DeliveryInv, DeliveryTypeOK, DeliveringRow, ArtifactRow
  <2>1. CASE UNCHANGED vars BY <2>1 DEF vars
  <2>2. ASSUME NEW k \in Jobs, QueueStep(k) PROVE dir' = dir /\ artifact' = artifact
    BY <2>2 DEF QueueStep, Submit, Claim, Revalidate, FailEarly, Cancel, Retry, Lapse
  <2>3. ASSUME NEW k \in Jobs, MakeDirectory(k)
        PROVE  dir'[j] = dir[j] /\ artifact' = artifact
    BY <2>3 DEF MakeDirectory
  <2>4. CASE WriteFile BY <2>4 DEF WriteFile
  <2>5. CASE Register BY <2>5 DEF Register
  <2>6. CASE Complete BY <2>6 DEF Complete
  <2>7. CASE ClearHistory \/ Crash BY <2>7 DEF ClearHistory, Crash
  <2>8. ASSUME NEW k \in Jobs, Expire(k)
        PROVE  dir' = dir /\ (artifact[j] = "spent" => artifact'[j] = "spent")
    BY <2>8 DEF Expire, Spend
  <2>9. ASSUME NEW r \in Requests, (\E k \in Jobs : Open(r, k)) \/ Sent(r) \/ Dropped(r)
        PROVE  dir' = dir /\ (artifact[j] = "spent" => artifact'[j] = "spent")
    BY <2>9 DEF Open, Sent, Dropped, Spend
  <2>10. QED
    BY <2>1, <2>2, <2>3, <2>4, <2>5, <2>6, <2>7, <2>8, <2>9 DEF Next, DeliveryStep
<1>3. QED BY <1>1, <1>2

THEOREM DeliveriesHappenOnce == Spec => DeliveredOnce
<1>1. DeliveryInv /\ [Next]_vars =>
        [\A j \in Jobs :
           /\ (\E r \in Requests : get[r] = j) => dir'[j] = dir[j]
           /\ artifact[j] = "spent" => artifact'[j] = "spent"]_vars
  BY StepDeliversOnce
<1>2. QED BY <1>1, DeliveryInvariant, PTL DEF Spec, DeliveredOnce
=============================================================================
