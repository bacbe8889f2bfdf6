------------------------------ MODULE EventRing ------------------------------
(***************************************************************************)
(* The ring of events of src/src/core/event.c: a static array, the number  *)
(* of records in it and the place of the next one.  Every part of the      *)
(* daemon adds to it; creating or touching a case writes its timeline.     *)
(***************************************************************************)
EXTENDS Integers, Sequences

CONSTANTS
  Pids,       \* pids that callers give, also ones that no process has
  Details,    \* category and detail of an event, cut to their buffers
  NoDetail,   \* the empty strings of a record that is all zero
  MaxEvents   \* RW_MAX_EVENTS

\* Pids are integers, the array has a place.
ASSUME EventRingAssumption == Pids \subseteq Int /\ MaxEvents \in Nat \ {0}

VARIABLES
  ring,       \* g_events
  count,      \* g_event_count
  next,       \* g_event_next
  timeline    \* the records in timeline.txt, as it was written last

vars == <<ring, count, next, timeline>>

Places  == 0..(MaxEvents - 1)
Records == [pid : {p \in Pids : p > 0}, detail : Details]
Zeroed  == [pid |-> 0, detail |-> NoDetail]

\* rw_event_init
Init ==
  /\ ring = [i \in Places |-> Zeroed]
  /\ count = 0
  /\ next = 0
  /\ timeline = <<>>

\* rw_event_add
Add(pid, detail) ==
  /\ pid > 0
  /\ ring' = [ring EXCEPT ![next] = [pid |-> pid, detail |-> detail]]
  /\ next' = (next + 1) % MaxEvents
  /\ count' = IF count < MaxEvents THEN count + 1 ELSE count
  /\ UNCHANGED timeline

\* Mutant of Start: the walk begins at the record written last.
StartAtNewest == IF count = MaxEvents THEN (next + MaxEvents - 1) % MaxEvents ELSE 0

\* Where the walk over the records begins.
Start == IF count = MaxEvents THEN next ELSE 0

\* The records in the order of the walk.
Walk == [i \in 1..count |-> ring[(Start + i - 1) % MaxEvents]]

\* rw_event_write_timeline; related are the pids that rw_lineage_is_related accepts for the case,
\* which never asks it about a record without a pid.
WriteTimeline(case, related) ==
  /\ case > 0 /\ case \in related
  /\ LET listed == {pid \in related : pid > 0}
     IN  timeline' = SelectSeq(Walk, LAMBDA ev : ev.pid \in listed)
  /\ UNCHANGED <<ring, count, next>>

Next ==
  \/ \E pid \in Pids, detail \in Details : Add(pid, detail)
  \/ \E case \in Pids, related \in SUBSET Pids : WriteTimeline(case, related)

Spec == Init /\ [][Next]_vars

-----------------------------------------------------------------------------
(***************************************************************************)
(* Properties                                                              *)
(***************************************************************************)
\* The places below the count hold records; the next one is the first free place until the
\* array is full.
TypeOK ==
  /\ count \in 0..MaxEvents
  /\ next \in Places
  /\ count < MaxEvents => next = count
  /\ ring \in [Places -> Records \union {Zeroed}]
  /\ \A i \in 0..(count - 1) : ring[i] \in Records

Log == INSTANCE EventLog WITH recent <- Walk

\* Walking the array from Start, rw_event_write_timeline sees the last MaxEvents events, oldest
\* first, however often the ring has gone round: the ring implements the log.
ImplementsLog == Log!LogSpec
=============================================================================
