------------------------------- MODULE SynScan -------------------------------
(***************************************************************************)
(* The SYN windows of src/src/net/netmon.c.  A connection that a round     *)
(* sees in SYN_SENT counts for its process: update_syn_scan_track counts   *)
(* sightings and different targets in a window that begins anew when it is *)
(* over, and alerts once in a window.                                      *)
(***************************************************************************)
EXTENDS Integers, Sequences, FiniteSets

CONSTANTS
  Pids,
  Targets,      \* address and port, numbered 1, 2, ...
  Window,       \* the 30 seconds of a window
  SynLimit,     \* threshold_syn
  UniqueLimit,  \* threshold_unique
  KeySlots,     \* length of keys
  MaxTracks,    \* RW_SYN_TRACKS
  MaxTime,      \* bound: the last second
  MaxSightings  \* MaxSightings[p]: bound on the sightings of a process

VARIABLES
  now,       \* time(NULL)
  tracked,   \* pids that have a slot in g_syn_tracks
  window,    \* that slot
  sightings, \* history: the target and time of each sighting of a process
  alerts     \* history: the times of the alerts of a process

vars == <<now, tracked, window, sightings, alerts>>

Fresh   == [start |-> now, syns |-> 0, keys |-> {}, alerted |-> FALSE]

Init ==
  /\ now = 0
  /\ tracked = {}
  /\ window = [p \in Pids |-> Fresh]
  /\ sightings = [p \in Pids |-> <<>>]
  /\ alerts = [p \in Pids |-> <<>>]

\* Mutant of Current: a new window does not forget the sightings of the old one.
CurrentKeeping(w) == IF now - w.start > Window THEN [w EXCEPT !.start = now, !.alerted = FALSE] ELSE w

\* Mutant of Current: a window is over as soon as the clock moves.
CurrentSecond(w) == IF now > w.start THEN Fresh ELSE w

\* The window, begun anew when it is over.
Current(w) == IF now - w.start > Window THEN Fresh ELSE w

Counted(w, t) ==
  [w EXCEPT !.syns = @ + 1,
            !.keys = IF Cardinality(@) < KeySlots THEN @ \union {t} ELSE @]

\* The test for an alert.
Alerts(w) == ~w.alerted /\ Cardinality(w.keys) >= UniqueLimit /\ w.syns >= SynLimit

\* The targets a process has been seen with.
Seen(p) == {sightings[p][i].target : i \in DOMAIN sightings[p]}

\* update_syn_scan_track for a connection in SYN_SENT; without a slot left it returns at once.
\* What an alert does next is SynScanAlert of ScoreCase.  Targets come in the order of their
\* numbers, which stand for nothing but being different.
SynSent(p, t) ==
  /\ Len(sightings[p]) < MaxSightings[p]
  /\ t = 1 \/ t - 1 \in Seen(p)
  /\ p \in tracked \/ Cardinality(tracked) < MaxTracks
  /\ LET w == Counted(Current(IF p \in tracked THEN window[p] ELSE Fresh), t)
     IN  /\ tracked' = tracked \union {p}
         /\ window' = [window EXCEPT ![p] = [w EXCEPT !.alerted = @ \/ Alerts(w)]]
         /\ alerts' = IF Alerts(w) THEN [alerts EXCEPT ![p] = Append(@, now)] ELSE alerts
  /\ sightings' = [sightings EXCEPT ![p] = Append(@, [target |-> t, at |-> now])]
  /\ UNCHANGED now

Tick ==
  /\ now < MaxTime
  /\ now' = now + 1
  /\ UNCHANGED <<tracked, window, sightings, alerts>>

Next == Tick \/ \E p \in Pids, t \in Targets : SynSent(p, t)

Spec == Init /\ [][Next]_vars

-----------------------------------------------------------------------------
(***************************************************************************)
(* Properties                                                              *)
(***************************************************************************)
Between(p, from, to) == {i \in DOMAIN sightings[p] : sightings[p][i].at \in from..to}
TargetsOf(p, is)     == {sightings[p][i].target : i \in is}

\* An alert is for as many sightings and as many different targets as the limits ask for, all
\* of them within the 30 seconds before it: nothing of an older window is counted.  Windows
\* tumble, so alerts can come right after each other, but of any three the last is more than a
\* window later than the first.
AlertIsForOneWindow ==
  \A p \in Pids : \A i \in DOMAIN alerts[p] :
    LET recent == Between(p, alerts[p][i] - Window, alerts[p][i])
    IN  /\ Cardinality(recent) >= SynLimit /\ Cardinality(TargetsOf(p, recent)) >= UniqueLimit
        /\ \A j \in DOMAIN alerts[p] : j >= i + 2 => alerts[p][j] - alerts[p][i] > Window

\* A scan cannot hide at the seam of two windows: whoever is seen with 2 * SynLimit - 1 different
\* targets within one window's time has been alerted on, no longer than a window before.
LargeScanAlerts ==
  \A p \in tracked : \A from \in 0..now :
    Cardinality(TargetsOf(p, Between(p, from, from + Window))) >= 2 * SynLimit - 1
      => \E i \in DOMAIN alerts[p] : alerts[p][i] \in (from - Window)..(from + Window)
=============================================================================
