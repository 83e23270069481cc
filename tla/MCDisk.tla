------------------------------- MODULE MCDisk -------------------------------
(* A small instance of VirtioDisk for TLC: two clients, a queue of 8. *)
EXTENDS VirtioDisk, TLC

CONSTANTS c1, c2

MCSrc == (c1 :> {1}) @@ (c2 :> {2})
MCCalls == (c1 :> 1) @@ (c2 :> 1)
=============================================================================
