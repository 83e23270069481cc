------------------------------- MODULE MCPipe -------------------------------
(* Small instances of Pipe for TLC: a parent, a child and a grandchild. *)
EXTENDS Pipe

CONSTANTS parent, child, other
=============================================================================
