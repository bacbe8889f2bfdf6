----------------------------- MODULE BeaconScore -----------------------------
(***************************************************************************)
(* The score of a connection track, from how often it was seen and from    *)
(* the gaps between its sightings: score_track in src/src/net/netmon.c and *)
(* ebpf_score_connect_track in src/src/platform/ebpfmon.c.  Averages are   *)
(* compared after multiplying out, as exact rationals.                     *)
(***************************************************************************)
EXTENDS Integers, Sequences, SequencesExt

\* What score_track looks at in the path of the executable.
ExeTraits == {"browser", "suspicious"}

Total(s)    == FoldLeft(LAMBDA a, b : a + b, 0, s)
Distance(a, b) == IF a > b THEN a - b ELSE b - a

\* avg_interval(s) is in low..high.
AverageWithin(s, low, high) == low * Len(s) <= Total(s) /\ Total(s) <= high * Len(s)

\* interval_jitter(s) <= 0.30 * avg_interval(s): the mean distance from the mean.
LowJitter(s) ==
  10 * Total([i \in DOMAIN s |-> Distance(Len(s) * s[i], Total(s))]) <= 3 * Len(s) * Total(s)

\* Mutant of Beaconing: two gaps are enough.
BeaconingEarly(s, low) == Len(s) >= 2 /\ AverageWithin(s, low, 600) /\ LowJitter(s)

\* The test for regular gaps.
Beaconing(s, low) == Len(s) >= 3 /\ AverageWithin(s, low, 600) /\ LowJitter(s)

If(cond, points) == IF cond THEN points ELSE 0

\* score_track
ProcTcpScore(seen, gaps, webPort, exe) ==
  LET browser    == "browser" \in exe
      suspicious == "suspicious" \in exe
      score == If(seen >= 4, IF browser THEN 5 ELSE 25)
               + If(Beaconing(gaps, 2), IF browser THEN 10 ELSE 60)
               + If(webPort /\ ~browser, 5)
               + If(suspicious, 30)
  IN  IF browser /\ ~suspicious /\ score < 85 THEN 0 ELSE If(score > 100, 100) + If(score <= 100, score)

\* ebpf_score_connect_track
ConnectScore(seen, gaps, webPort) ==
  If(seen >= 4, 25) + If(Beaconing(gaps, 1), 60) + If(webPort, 5)
=============================================================================
