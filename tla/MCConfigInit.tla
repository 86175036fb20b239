------------------------------ MODULE MCConfigInit ------------------------------
(***************************************************************************)
(* ConfigInit for TLC: the operators who run init are interchangeable.     *)
(***************************************************************************)
EXTENDS ConfigInit, TLC

Interchangeable == Permutations(Process)

=============================================================================
