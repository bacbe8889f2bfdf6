------------------------------ MODULE MCNetwork ------------------------------
(***************************************************************************)
(* An instance of Network for TLC.                                         *)
(***************************************************************************)
EXTENDS Network

CONSTANTS
  k1, k2  \* process and destination; k2 belongs to a process from a suspicious path

MixedExe   == [k \in Keys |-> IF k = k1 THEN {} ELSE {"suspicious"}]
\* k1 is seen often enough for a full array and more, k2 competes for the slot.
Sightings7 == [k \in Keys |-> IF k = k1 THEN 7 ELSE 4]
Connects5  == [k \in Keys |-> IF k = k1 THEN 5 ELSE 1]
Clock      == {-1, 1, 2}

\* Ports and their processes: one scans, the other competes for the slot.
FivePorts  == 1..5
Syns6      == <<6, 1>>
=============================================================================
