---------------------------- MODULE MCAccountLists ----------------------------
(* Instances of AccountLists, and of the sessions in it, for TLC. *)
EXTENDS AccountLists, TLC

CONSTANTS a, b

\* The same account logs in twice, then another.
TwiceThenOther == <<a, a, b>>

\* Requests differ in nothing but their ids, and so do jobs.
Interchangeable == Permutations(Requests) \union Permutations(Jobs)

\* Downloads and list requests share nothing but the session: a behaviour has
\* one kind or the other.
OneKind ==
    \/ \A j \in Jobs : stage[j] = "new"
    \/ /\ \A r \in Requests : at[r] = "idle"
       /\ ids = NoCache /\ list = NoCache /\ ~raced
       /\ \A x \in Accounts : liked[x] = {}
=============================================================================
