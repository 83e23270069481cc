------------------------------- MODULE MCPmap -------------------------------
(* Small instances of Pmap for TLC. *)
EXTENDS Pmap, TLC

CONSTANTS e1, e2, d1, d2, t1, p1, p2, p3, p4, p5, p6

Pages == Permutations(Page)
=============================================================================
