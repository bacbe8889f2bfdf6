----------------------------- MODULE ConnectTrack -----------------------------
(***************************************************************************)
(* The connect tracks of src/src/platform/ebpfmon.c.  The kernel program   *)
(* puts a record into a ring buffer when a process calls connect; a poll   *)
(* of the module handles records until the buffer is empty.  A record has  *)
(* no time: update_ebpf_connect_track takes the time at which it runs.     *)
(***************************************************************************)
EXTENDS BeaconScore, FiniteSets

CONSTANTS
  Keys,           \* a process and a destination
  WebPorts,       \* keys whose port is 80, 443, 8080 or 8443
  CaseThreshold,  \* cfg->case_threshold
  RingSize,       \* records the ring buffer holds
  MaxTracks,      \* RW_EBPF_CONNECT_TRACKS
  MaxIntervals,   \* length of the array of intervals
  Elapses,        \* seconds that may pass at once
  Round,          \* a poll ends at most so many seconds after the one before
  MaxTime,        \* bound: the last second
  MaxConnects     \* MaxConnects[k]: bound on the connects to a destination

VARIABLES
  now,        \* time(NULL)
  ring,       \* the ring buffer, oldest record first
  polling,    \* ring_buffer__poll is running
  pollEnd,    \* when it last returned
  tracked,    \* keys that have a slot in g_connect_tracks
  track,      \* that slot
  connectAt,  \* history: the times at which the process called connect
  seenAt,     \* history: for a tracked key, the times taken for its sightings
  alerts      \* history: the alerts, with the gaps they were given for

vars == <<now, ring, polling, pollEnd, tracked, track, connectAt, seenAt, alerts>>

Places == 0..(MaxIntervals - 1)

\* A slot after memset, and after get_or_create_connect_track.
Zeroed   == [last |-> 0, intervals |-> [i \in Places |-> 0], count |-> 0, seen |-> 0,
             alerted |-> FALSE]
NewTrack == [Zeroed EXCEPT !.last = now]

Init ==
  /\ now = 0
  /\ ring = <<>>
  /\ polling = FALSE
  /\ pollEnd = 0
  /\ tracked = {}
  /\ track = [k \in Keys |-> Zeroed]
  /\ connectAt = [k \in Keys |-> <<>>]
  /\ seenAt = [k \in Keys |-> <<>>]
  /\ alerts = <<>>

\* The gaps a track holds, oldest first.
Gaps(t) == [i \in 1..t.count |-> t.intervals[i - 1]]

\* Mutant of Recorded: a gap that is not counted yet is written into the last place only.
RecordedLast(t, x) ==
  IF t.count < MaxIntervals
    THEN [t EXCEPT !.count = @ + 1, !.intervals[MaxIntervals - 1] = x]
    ELSE [t EXCEPT !.intervals = [i \in Places |-> IF i < MaxIntervals - 1 THEN @[i + 1] ELSE x]]

\* The interval goes behind the others or, in a full array, after a memmove; the last place of
\* the array is written in either case, also when it is not in use yet.
Recorded(t, x) ==
  IF t.count < MaxIntervals
    THEN [t EXCEPT !.count = @ + 1, !.intervals = [@ EXCEPT ![t.count] = x, ![MaxIntervals - 1] = x]]
    ELSE [t EXCEPT !.intervals = [i \in Places |-> IF i < MaxIntervals - 1 THEN @[i + 1] ELSE x]]

\* The part of update_ebpf_connect_track that records the interval, when the sighting is later.
WithInterval(t) == IF now > t.last THEN [Recorded(t, now - t.last) EXCEPT !.last = now] ELSE t

AlertThreshold == IF CaseThreshold > 0 THEN CaseThreshold ELSE 85

Score(k, t) == ConnectScore(t.seen, Gaps(t), k \in WebPorts)

\* Mutant of Alerts: a track may be alerted on again.
AlertsAgain(k, t) == Score(k, t) >= AlertThreshold

\* The test for an alert.
Alerts(k, t) == Score(k, t) >= AlertThreshold /\ ~t.alerted

-----------------------------------------------------------------------------
(***************************************************************************)
(* Actions                                                                 *)
(***************************************************************************)
\* rw_trace_connect: the record is dropped when the buffer is full.
Connect(k) ==
  /\ Len(connectAt[k]) < MaxConnects[k]
  /\ connectAt' = [connectAt EXCEPT ![k] = Append(@, now)]
  /\ ring' = IF Len(ring) < RingSize THEN Append(ring, k) ELSE ring
  /\ UNCHANGED <<now, polling, pollEnd, tracked, track, seenAt, alerts>>

\* rw_ebpf_poll
Poll ==
  /\ ~polling
  /\ polling' = TRUE
  /\ UNCHANGED <<now, ring, pollEnd, tracked, track, connectAt, seenAt, alerts>>

\* update_ebpf_connect_track for the next record; without a slot left it returns at once.
Handle ==
  /\ polling /\ ring # <<>>
  /\ ring' = Tail(ring)
  /\ LET k   == Head(ring)
         old == IF k \in tracked THEN track[k] ELSE NewTrack
         new == [WithInterval(old) EXCEPT !.seen = @ + 1]
     IN  \/ /\ k \notin tracked /\ Cardinality(tracked) >= MaxTracks
            /\ UNCHANGED <<tracked, track, seenAt, alerts>>
         \/ /\ k \in tracked \/ Cardinality(tracked) < MaxTracks
            /\ tracked' = tracked \union {k}
            /\ track' = [track EXCEPT ![k] = [new EXCEPT !.alerted = @ \/ Alerts(k, new)]]
            /\ alerts' = IF Alerts(k, new) THEN Append(alerts, [key |-> k, gaps |-> Gaps(new)])
                         ELSE alerts
            /\ seenAt' = IF k \notin tracked \/ now > old.last
                           THEN [seenAt EXCEPT ![k] = Append(@, now)] ELSE seenAt
  /\ UNCHANGED <<now, polling, pollEnd, connectAt>>

\* Mutant of EndPoll: a poll returns although there are records.
EndPollEarly ==
  /\ polling
  /\ polling' = FALSE
  /\ pollEnd' = now
  /\ UNCHANGED <<now, ring, tracked, track, connectAt, seenAt, alerts>>

\* ring_buffer__poll returns when it has consumed every record.
EndPoll ==
  /\ polling /\ ring = <<>>
  /\ polling' = FALSE
  /\ pollEnd' = now
  /\ UNCHANGED <<now, ring, tracked, track, connectAt, seenAt, alerts>>

\* Time passes, but a round takes no longer than Round.
Tick ==
  /\ \E d \in Elapses : /\ now + d <= MaxTime /\ now + d <= pollEnd + Round
                        /\ now' = now + d
  /\ UNCHANGED <<ring, polling, pollEnd, tracked, track, connectAt, seenAt, alerts>>

Next == Poll \/ Handle \/ EndPoll \/ Tick \/ \E k \in Keys : Connect(k)

Spec == Init /\ [][Next]_vars

-----------------------------------------------------------------------------
(***************************************************************************)
(* Properties                                                              *)
(***************************************************************************)

Kept == INSTANCE Sightings WITH
  Times <- 0..MaxTime, followed <- tracked, last <- [k \in Keys |-> track[k].last],
  gaps <- [k \in Keys |-> Gaps(track[k])]

\* Although every interval is also written into the last place of the array, the part in use
\* holds the last gaps between sightings.
ImplementsSightings == Kept!SightingsSpec

\* The time taken for a sighting is that of its handling; a poll empties the buffer, so the
\* process did connect within one round before.
SightingIsFresh ==
  \A k \in tracked : \A i \in DOMAIN seenAt[k] :
    \E j \in DOMAIN connectAt[k] : connectAt[k][j] \in (seenAt[k][i] - Round)..seenAt[k][i]

\* An alert is for at least three regular gaps, and the process did connect at least once for
\* each of the sightings they lie between; no destination is alerted on twice.
AlertHasReconnects ==
  \A i \in DOMAIN alerts :
    LET a == alerts[i] IN
      /\ AlertThreshold > 30 => Len(a.gaps) >= 3 /\ LowJitter(a.gaps)
      /\ Len(connectAt[a.key]) > Len(a.gaps)
      /\ \A j \in DOMAIN alerts : alerts[j].key = a.key => i = j
=============================================================================
