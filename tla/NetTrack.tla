------------------------------- MODULE NetTrack -------------------------------
(***************************************************************************)
(* The connection tracks of src/src/net/netmon.c.  Every round sees the    *)
(* established connections in /proc/net/tcp again; rw_update_track keeps,  *)
(* for a process and a destination, the gaps between the times at which it *)
(* saw one, and alerts once when they look like a beacon.                  *)
(***************************************************************************)
EXTENDS BeaconScore, FiniteSets

CONSTANTS
  Keys,           \* a process and a destination
  Exe,            \* Exe[k]: traits of the executable of that process
  WebPorts,       \* keys whose port is 80, 443, 8080 or 8443
  CaseThreshold,  \* cfg->case_threshold
  MaxTracks,      \* RW_MAX_TRACKS
  MaxIntervals,   \* length of the array of intervals
  Elapses,        \* what the clock may do at once; it may be set back
  MaxTime,        \* bound: the clock stays within 0..MaxTime
  MaxConnects,    \* bound: connections made to a destination
  MaxSightings    \* MaxSightings[k]: bound on the sightings of a destination

\* The array has 16 places; with less than three gaps nothing looks like a beacon.
ASSUME NetTrackAssumption ==
  /\ Exe \in [Keys -> SUBSET ExeTraits]
  /\ WebPorts \subseteq Keys
  /\ CaseThreshold \in Int
  /\ MaxTracks \in Nat /\ MaxIntervals \in Nat /\ MaxIntervals >= 3
  /\ Elapses \subseteq Int
  /\ MaxTime \in Nat /\ MaxConnects \in Nat
  /\ MaxSightings \in [Keys -> Nat]

VARIABLES
  now,       \* time(NULL)
  open,      \* open[k]: established connections of the process to the destination
  tracked,   \* keys that have a slot in g_tracks
  track,     \* that slot
  made,      \* history: connections it made to the destination
  seenAt,    \* history: for a tracked key, each time later than all before at which it was seen
  alerts     \* history: the alerts, with the gaps they were given for

vars == <<now, open, tracked, track, made, seenAt, alerts>>

Places == 0..(MaxIntervals - 1)
Tracks == [last : Nat, intervals : [Places -> Nat], count : 0..MaxIntervals, seen : Nat,
           alerted : BOOLEAN]

\* A slot after memset, and after get_or_create_track.
Zeroed       == [last |-> 0, intervals |-> [i \in Places |-> 0], count |-> 0, seen |-> 0,
                 alerted |-> FALSE]
NewTrack     == [Zeroed EXCEPT !.last = now]

Init ==
  /\ now = 0
  /\ open = [k \in Keys |-> 0]
  /\ tracked = {}
  /\ track = [k \in Keys |-> Zeroed]
  /\ made = [k \in Keys |-> 0]
  /\ seenAt = [k \in Keys |-> <<>>]
  /\ alerts = <<>>

\* The gaps a track holds, oldest first.
Gaps(t) == [i \in 1..t.count |-> t.intervals[i - 1]]

\* Mutant of Shifted: the memmove is one short.
ShiftedShort(a, x) == [i \in Places |-> IF i < MaxIntervals - 2 THEN a[i + 1]
                                        ELSE IF i = MaxIntervals - 1 THEN x ELSE a[i]]

\* memmove by one place and the new interval in the last one.
Shifted(a, x) == [i \in Places |-> IF i < MaxIntervals - 1 THEN a[i + 1] ELSE x]

\* The part of rw_update_track that records the interval, when the sighting is later.
WithInterval(t) ==
  IF now <= t.last THEN t
  ELSE IF t.count < MaxIntervals
    THEN [t EXCEPT !.last = now, !.count = @ + 1, !.intervals[t.count] = now - t.last]
    ELSE [t EXCEPT !.last = now, !.intervals = Shifted(@, now - t.last)]

AlertThreshold == IF CaseThreshold > 0 THEN CaseThreshold ELSE 60

Score(k, t) == ProcTcpScore(t.seen, Gaps(t), k \in WebPorts, Exe[k])

\* The test for an alert.
Alerts(k, t) == Score(k, t) >= AlertThreshold /\ ~t.alerted

-----------------------------------------------------------------------------
(***************************************************************************)
(* Actions                                                                 *)
(***************************************************************************)
Connect(k) ==
  /\ made[k] < MaxConnects
  /\ made' = [made EXCEPT ![k] = @ + 1]
  /\ open' = [open EXCEPT ![k] = @ + 1]
  /\ UNCHANGED <<now, tracked, track, seenAt, alerts>>

Close(k) ==
  /\ open[k] > 0
  /\ open' = [open EXCEPT ![k] = @ - 1]
  /\ UNCHANGED <<now, tracked, track, made, seenAt, alerts>>

\* rw_update_track for an established connection that a round has seen.  Without a slot left it
\* returns at once.  What an alert does next is TrackUpdate of ScoreCase.
Sight(k) ==
  /\ open[k] > 0
  /\ k \in tracked \/ Cardinality(tracked) < MaxTracks
  /\ LET old == IF k \in tracked THEN track[k] ELSE NewTrack
         new == [WithInterval(old) EXCEPT !.seen = @ + 1]
     IN  /\ old.seen < MaxSightings[k]
         /\ tracked' = tracked \union {k}
         /\ track' = [track EXCEPT ![k] = [new EXCEPT !.alerted = @ \/ Alerts(k, new)]]
         /\ alerts' = IF Alerts(k, new) THEN Append(alerts, [key |-> k, gaps |-> Gaps(new)])
                      ELSE alerts
         /\ seenAt' = IF k \notin tracked \/ now > Last(seenAt[k])
                        THEN [seenAt EXCEPT ![k] = Append(@, now)] ELSE seenAt
  /\ UNCHANGED <<now, open, made>>

Tick ==
  /\ \E d \in Elapses : now + d \in 0..MaxTime /\ now' = now + d
  /\ UNCHANGED <<open, tracked, track, made, seenAt, alerts>>

Next == Tick \/ \E k \in Keys : Connect(k) \/ Close(k) \/ Sight(k)

Spec == Init /\ [][Next]_vars

-----------------------------------------------------------------------------
(***************************************************************************)
(* Properties                                                              *)
(***************************************************************************)
\* Every slot is one that get_or_create_track and rw_update_track can leave, and the array is
\* never written outside its places.
TypeOK ==
  /\ now \in 0..MaxTime
  /\ open \in [Keys -> Nat] /\ made \in [Keys -> Nat]
  /\ tracked \subseteq Keys /\ Cardinality(tracked) <= MaxTracks
  /\ track \in [Keys -> Tracks]
  /\ \A k \in tracked : track[k].seen > track[k].count
  /\ \A k \in Keys \ tracked : track[k] = Zeroed

Kept == INSTANCE Sightings WITH
  Times <- 0..MaxTime, followed <- tracked, last <- [k \in Keys |-> track[k].last],
  gaps <- [k \in Keys |-> Gaps(track[k])]

\* The array of a track, with its count and its memmove, holds the last gaps between sightings,
\* and a clock that is set back adds none.
ImplementsSightings == Kept!SightingsSpec

\* A destination that was seen at equal distances for the last MaxIntervals gaps, or ever since
\* it was first seen and at least four times, has been alerted on, unless the process looks like
\* a browser or the threshold is above the 85 points that this gives.
SteadyBeaconIsFound ==
  \A k \in tracked :
    LET n    == Len(seenAt[k])
        from == IF n > MaxIntervals + 1 THEN n - MaxIntervals ELSE 1
        gap  == seenAt[k][n] - seenAt[k][n - 1]
    IN  /\ n >= 4
        /\ gap \in 2..600
        /\ \A i \in from..(n - 1) : seenAt[k][i + 1] - seenAt[k][i] = gap
        /\ "browser" \notin Exe[k]
        /\ AlertThreshold <= 85
        => \E i \in DOMAIN alerts : alerts[i].key = k

\* A destination is alerted on once, however long its track lives.  With a threshold of 60 or more
\* the alert on a process that neither runs from a suspicious path nor looks like a browser is for
\* at least three regular gaps between sightings.
AlertHasTiming ==
  \A i \in DOMAIN alerts :
    LET a == alerts[i] IN
      /\ \A j \in DOMAIN alerts : alerts[j].key = a.key => i = j
      /\ AlertThreshold >= 60 /\ Exe[a.key] = {} => Len(a.gaps) >= 3 /\ LowJitter(a.gaps)

(***************************************************************************)
(* What the documentation says and the code does not do                    *)
(***************************************************************************)
\* README: a beacon is a matter of reconnect timing, so a destination that is alerted on was
\* connected to more than once.  A single long connection is seen in every round.
BeaconReconnects == \A i \in DOMAIN alerts : made[alerts[i].key] >= 2
=============================================================================
