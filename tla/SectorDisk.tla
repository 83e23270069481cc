----------------------------- MODULE SectorDisk -----------------------------
(***************************************************************************)
(* What ide_read() and ide_write() of fs/ide.c promise for one sector: the *)
(* disk is an array of registers, and between the call and the return of   *)
(* an operation there is one instant at which it takes effect.             *)
(***************************************************************************)
EXTENDS Naturals

CONSTANTS Client, \* environments that call ide_read and ide_write
          Sector, Value

VARIABLES disk, \* the contents of every sector
          call, \* call[c]: the operation of c on one sector, and how far it is
          dst   \* dst[c]: what the last operation of c returned

Phase == {"idle", "called", "done"}
Call == [phase : Phase, write : BOOLEAN, sector : Sector, value : Value]

Invoke(c) == \E w \in BOOLEAN, s \in Sector, v \in Value :
    /\ call[c].phase = "idle"
    /\ call' = [call EXCEPT ![c] = [phase |-> "called", write |-> w, sector |-> s, value |-> v]]
    /\ UNCHANGED <<disk, dst>>

Apply(c) ==
    /\ call[c].phase = "called"
    /\ IF call[c].write
       THEN /\ disk' = [disk EXCEPT ![call[c].sector] = call[c].value]
            /\ call' = [call EXCEPT ![c].phase = "done"]
       ELSE /\ call' = [call EXCEPT ![c].phase = "done", ![c].value = disk[call[c].sector]]
            /\ UNCHANGED disk
    /\ UNCHANGED dst

Return(c) ==
    /\ call[c].phase = "done"
    /\ call' = [call EXCEPT ![c].phase = "idle"]
    /\ dst' = IF call[c].write THEN dst ELSE [dst EXCEPT ![c] = call[c].value]
    /\ UNCHANGED disk

Init == /\ disk \in [Sector -> Value]
        /\ call \in [Client -> {k \in Call : k.phase = "idle"}]
        /\ dst \in [Client -> Value]

Next == \E c \in Client : Invoke(c) \/ Apply(c) \/ Return(c)

Spec == Init /\ [][Next]_<<disk, call, dst>>
=============================================================================
