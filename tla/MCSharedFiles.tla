----------------------------- MODULE MCSharedFiles -----------------------------
(***************************************************************************)
(* SharedFiles for TLC: the clusters are interchangeable, and so are the   *)
(* machines.                                                               *)
(***************************************************************************)
EXTENDS SharedFiles, TLC

Interchangeable == Permutations(Cluster) \cup Permutations(Machine)

=============================================================================
