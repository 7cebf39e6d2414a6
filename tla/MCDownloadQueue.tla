--------------------------- MODULE MCDownloadQueue ---------------------------
(* Instances of DownloadQueue for TLC. *)
EXTENDS DownloadQueueInvariant, TLC

\* The workers are interchangeable; runs with liveness properties do not use it.
Interchangeable == Permutations(Workers)
=============================================================================
