------------------------------ MODULE MCEnvLib ------------------------------
(* Small instances of EnvSched and EnvLib for TLC. *)
EXTENDS EnvLib

CONSTANTS e1, e2, e3

MCEnvs == <<e1, e2, e3>>
=============================================================================
