---------------------------- MODULE MCWorkbench ----------------------------
(* An instance of Workbench for TLC. *)
EXTENDS Workbench, TLC

\* Tracks differ in nothing but their ids, and so do the slots of requests.
Interchangeable == Permutations(Tracks) \cup Permutations(Slots)

\* Bound: requests on their way at once, of all kinds.
CONSTANT MaxInFlight

InFlight ==
    Cardinality({s \in Slots : ~Free(s)})
        + Cardinality({t \in Tracks : asks[t] > 0}) + Cardinality({t \in Tracks : asks[t] > 1})
        + Cardinality({t \in Tracks : click[t] # "idle"}) + batches

Few == InFlight <= MaxInFlight
=============================================================================
