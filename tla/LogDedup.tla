------------------------------- MODULE LogDedup -------------------------------
(***************************************************************************)
(* The filter of repeated lines of src/src/core/util.c.  should_emit_line  *)
(* keeps, in a slot chosen by the hash of level and text, the line that    *)
(* was written last, when, and how often it was left out since.            *)
(***************************************************************************)
EXTENDS Integers, Sequences, FiniteSets

CONSTANTS
  Lines,        \* level and text of a line
  Slots,        \* places of g_dedup
  SlotOf,       \* SlotOf[l]: the hash of l modulo the number of slots
  NoLine,       \* the hash in a slot that was never used
  Rates,        \* values of --log-rate-seconds
  Elapses,      \* what the clock may do at once; it may be set back
  MaxTime,      \* bound: the clock stays within 0..MaxTime
  MaxCalls      \* bound on the lines logged

VARIABLES
  rateSeconds,  \* g_log_rate_seconds
  now,          \* time(NULL)
  dedup,        \* g_dedup
  calls         \* history: every line logged, whether it was written, and with which number of repeats

vars == <<rateSeconds, now, dedup, calls>>

Init ==
  /\ rateSeconds \in Rates
  /\ now = 0
  /\ dedup = [s \in Slots |-> [hash |-> NoLine, last |-> 0, suppressed |-> 0]]
  /\ calls = <<>>

\* Mutant of IsRepeat: the line in the slot is not compared.
IsRepeatOfAny(l) ==
  LET slot == dedup[SlotOf[l]] IN slot.hash # NoLine /\ now - slot.last < rateSeconds

\* The line in its slot is the same and less than rateSeconds old.
IsRepeat(l) ==
  LET slot == dedup[SlotOf[l]] IN slot.hash = l /\ now - slot.last < rateSeconds

Called(l, written, repeats) ==
  Append(calls, [line |-> l, at |-> now, written |-> written, repeats |-> repeats])

\* A filter of 0 seconds lets everything pass and uses no slot.
LogUnfiltered(l) ==
  /\ rateSeconds = 0
  /\ calls' = Called(l, TRUE, 0)
  /\ UNCHANGED <<rateSeconds, now, dedup>>

Suppress(l) ==
  /\ rateSeconds # 0 /\ IsRepeat(l)
  /\ dedup' = [dedup EXCEPT ![SlotOf[l]].suppressed = @ + 1]
  /\ calls' = Called(l, FALSE, 0)
  /\ UNCHANGED <<rateSeconds, now>>

\* Mutant of Emit: the count of repeats is not reset.
EmitCounting(l) ==
  /\ rateSeconds # 0 /\ ~IsRepeat(l)
  /\ LET slot == dedup[SlotOf[l]]
     IN  /\ calls' = Called(l, TRUE, IF slot.hash = l THEN slot.suppressed ELSE 0)
         /\ dedup' = [dedup EXCEPT ![SlotOf[l]].hash = l, ![SlotOf[l]].last = now]
  /\ UNCHANGED <<rateSeconds, now>>

\* The line takes the slot; the repeats of another line that had it are forgotten.
Emit(l) ==
  /\ rateSeconds # 0 /\ ~IsRepeat(l)
  /\ LET slot == dedup[SlotOf[l]]
     IN  calls' = Called(l, TRUE, IF slot.hash = l THEN slot.suppressed ELSE 0)
  /\ dedup' = [dedup EXCEPT ![SlotOf[l]] = [hash |-> l, last |-> now, suppressed |-> 0]]
  /\ UNCHANGED <<rateSeconds, now>>

\* should_emit_line
Log(l) ==
  /\ Len(calls) < MaxCalls
  /\ LogUnfiltered(l) \/ Suppress(l) \/ Emit(l)

Tick ==
  /\ \E d \in Elapses : now + d \in 0..MaxTime /\ now' = now + d
  /\ UNCHANGED <<rateSeconds, dedup, calls>>

Next == Tick \/ \E l \in Lines : Log(l)

Spec == Init /\ [][Next]_vars

-----------------------------------------------------------------------------
(***************************************************************************)
(* Properties                                                              *)
(***************************************************************************)
Between(i, j) == {c \in (i + 1)..(j - 1) : calls[c].line = calls[i].line}
\* The calls i < j log the same line, and no other line used its slot between them.
Undisturbed(i, j) ==
  /\ i < j /\ calls[i].line = calls[j].line
  /\ \A c \in (i + 1)..(j - 1) :
       SlotOf[calls[c].line] = SlotOf[calls[i].line] => calls[c].line = calls[i].line

\* A line that is left out was written less than rateSeconds before, by the clock of the program,
\* also when another line has the same slot: the filter loses no line altogether.
SuppressedWasWritten ==
  \A j \in DOMAIN calls : ~calls[j].written =>
    \E i \in DOMAIN calls : /\ Undisturbed(i, j) /\ calls[i].written
                            /\ calls[j].at - calls[i].at < rateSeconds

\* A line is written twice within rateSeconds only when another line took its slot meanwhile; a
\* clock that is set back makes the silence longer, never shorter.  The second time it tells how
\* often it was left out since the first.
RepeatsAreReported ==
  \A i, j \in DOMAIN calls :
    Undisturbed(i, j) /\ calls[i].written /\ calls[j].written =>
      /\ rateSeconds > 0 => calls[j].at - calls[i].at >= rateSeconds
      /\ (\A c \in Between(i, j) : ~calls[c].written)
           => calls[j].repeats = Cardinality(Between(i, j))
=============================================================================
