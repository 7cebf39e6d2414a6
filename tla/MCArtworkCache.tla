---------------------------- MODULE MCArtworkCache ----------------------------
(* An instance of ArtworkCache for TLC. *)
EXTENDS ArtworkCache, FiniteSets

CONSTANTS c1, c2, pre, dow, api, log

Requested == {c1, c2, pre, dow, api, log}
KindOf ==
    [r \in Requested |-> CASE r = pre -> "preview" [] r = dow -> "download"
                           [] r = api -> "api" [] r = log -> "login" [] OTHER -> "cover"]

\* Requests share nothing with one another and nothing with the cache, so one is
\* on its way at a time, while the threads wait (a thread waits with what it
\* fetched as well), and one that is no cover while the cache is as new. This
\* keeps requests from starting, never from ending.
Busy == {r \in Requested : at[r] # "idle"}
Apart ==
    /\ Cardinality(Busy) <= 1
    /\ Busy # {} => \A t \in Threads : step[t] \in {"idle", "asking"}
    /\ \/ Busy \subseteq Threads /\ \A r \in Requested : file[r] = None
       \/ now = 0 /\ entry = <<None, None, None>> /\ \A t \in Threads : step[t] = "idle"

MCNext == CacheNext /\ Apart'
MCSpec == CacheInit /\ [][MCNext]_allVars /\ NetFairness
=============================================================================
