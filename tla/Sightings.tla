------------------------------ MODULE Sightings ------------------------------
(***************************************************************************)
(* What the connection tracks promise, whatever array they keep: for every *)
(* destination that is followed, the last MaxIntervals gaps between        *)
(* sightings, each later than all before it.                               *)
(***************************************************************************)
EXTENDS Integers, Sequences

CONSTANTS
  Keys,           \* a process and a destination
  Times,          \* values of time(NULL)
  MaxIntervals    \* gaps that are kept

VARIABLES
  followed,  \* keys that have a track
  last,      \* last[k]: the latest sighting of k
  gaps       \* gaps[k]: the gaps before it, oldest first

sightingVars == <<followed, last, gaps>>

LastOnes(s) ==
  SubSeq(s, IF Len(s) > MaxIntervals THEN Len(s) - MaxIntervals + 1 ELSE 1, Len(s))

Empty ==
  /\ followed = {}
  /\ gaps = [k \in Keys |-> <<>>]

Follow(k, t) ==
  /\ k \notin followed
  /\ followed' = followed \union {k}
  /\ last' = [last EXCEPT ![k] = t]
  /\ UNCHANGED gaps

\* A sighting that is not later than the last one leaves no trace.
SeeLater(k, t) ==
  /\ k \in followed
  /\ t > last[k]
  /\ last' = [last EXCEPT ![k] = t]
  /\ gaps' = [gaps EXCEPT ![k] = LastOnes(Append(@, t - last[k]))]
  /\ UNCHANGED followed

See == \E k \in Keys, t \in Times : Follow(k, t) \/ SeeLater(k, t)

SightingsSpec == Empty /\ [][See]_sightingVars
=============================================================================
