------------------------------- MODULE Transfer -------------------------------
(***************************************************************************)
(* What the program expects of a request it makes to the outside: it runs, *)
(* it ends, and what it leaves behind is either a whole file of the length *)
(* the platform had promised, or nothing.                                  *)
(***************************************************************************)
EXTENDS Naturals

CONSTANTS
    Requests,
    MaxBytes,     \* the limit of a body
    None

VARIABLES
    phase,        \* "idle", "running", "done", "failed"
    promised,     \* the length announced for the file of a request
    saved         \* the length of the file, None when there is none

transferVars == <<phase, promised, saved>>

To(r, p) == phase' = [phase EXCEPT ![r] = p]

Start(r) ==
    /\ phase[r] = "idle" /\ To(r, "running")
    /\ UNCHANGED <<promised, saved>>

\* Its URL was refused before anything was sent.
Refuse(r) == phase[r] = "idle" /\ To(r, "failed") /\ UNCHANGED <<promised, saved>>

Promise(r) ==
    /\ phase[r] = "running" /\ UNCHANGED <<phase, saved>>
    /\ promised'[r] \in Nat /\ promised' = [promised EXCEPT ![r] = promised'[r]]

Save(r) ==
    /\ phase[r] = "running" /\ To(r, "done")
    /\ promised[r] \in 1..MaxBytes /\ saved' = [saved EXCEPT ![r] = promised[r]]
    /\ UNCHANGED promised

Finish(r) ==
    /\ phase[r] = "running"
    /\ To(r, "done") \/ To(r, "failed")
    /\ UNCHANGED <<promised, saved>>

\* The caller is through with a request, or the process was killed.
Clear(R) ==
    /\ phase' = [r \in Requests |-> IF r \in R THEN "idle" ELSE phase[r]]
    /\ promised' = [r \in Requests |-> IF r \in R THEN None ELSE promised[r]]
    /\ saved' = [r \in Requests |-> IF r \in R THEN None ELSE saved[r]]

TransferInit ==
    /\ phase = [r \in Requests |-> "idle"]
    /\ promised = [r \in Requests |-> None] /\ saved = [r \in Requests |-> None]

TransferNext ==
    \/ \E r \in Requests :
          Start(r) \/ Refuse(r) \/ Promise(r) \/ Save(r) \/ Finish(r) \/ Clear({r})
    \/ Clear(Requests)

TransferSpec == TransferInit /\ [][TransferNext]_transferVars
=============================================================================
