------------------------------- MODULE MCFork -------------------------------
(* A small instance of Fork for TLC: a stack, a page of data and a shared page. *)
EXTENDS Fork, TLC

CONSTANTS root, child, third

MCVaSeq == <<"data", "lib", "stack">>
MCSymmetry == Permutations({child, third})
=============================================================================
