--------------------------- MODULE MCManagedLibrary ---------------------------
(* Instances of ManagedLibrary for TLC. *)
EXTENDS ManagedLibrary, TLC

\* The songs differ in nothing but their ids.
Interchangeable == Permutations(Songs)

\* Bound: the operator's files in the directory at once, audio and lyrics.
CONSTANT MaxForeign

FewForeign == Cardinality({p \in Paths : file[p] = Foreign}) + Cardinality(lyrics) <= MaxForeign
=============================================================================
