------------------------------- MODULE EventLog -------------------------------
(***************************************************************************)
(* What src/src/core/event.c promises: the last MaxEvents events, oldest   *)
(* first, and a timeline of a case that holds those of them whose process  *)
(* is related to the process of the case.                                  *)
(***************************************************************************)
EXTENDS Integers, Sequences

CONSTANTS
  Pids,       \* pids that callers give, also ones that no process has
  Details,    \* category and detail of an event
  MaxEvents   \* RW_MAX_EVENTS

VARIABLES
  recent,     \* the events that are kept, oldest first
  timeline    \* timeline.txt written last

logvars == <<recent, timeline>>

Records == [pid : {p \in Pids : p > 0}, detail : Details]

\* Records whose process is related to the case, in their order.
Selected(records, related) == SelectSeq(records, LAMBDA ev : ev.pid \in related)

LogInit == recent = <<>> /\ timeline = <<>>

\* The oldest event makes room for a new one.
LogAdd(ev) ==
  /\ recent' = Append(IF Len(recent) < MaxEvents THEN recent ELSE Tail(recent), ev)
  /\ UNCHANGED timeline

\* Which processes are related is for the lineage to say, at the time of writing.
LogWrite(related) ==
  /\ timeline' = Selected(recent, related)
  /\ UNCHANGED recent

LogNext ==
  \/ \E ev \in Records : LogAdd(ev)
  \/ \E related \in SUBSET Pids : LogWrite(related)

LogSpec == LogInit /\ [][LogNext]_logvars
=============================================================================
