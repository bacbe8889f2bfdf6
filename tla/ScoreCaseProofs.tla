--------------------------- MODULE ScoreCaseProofs ---------------------------
(***************************************************************************)
(* Facts about the risk model, and the type correctness of the scoring and *)
(* case core for any set of processes, table sizes, thresholds and         *)
(* findings enabled.                                                       *)
(***************************************************************************)
EXTENDS ScoreCase, TLAPS

-----------------------------------------------------------------------------
(***************************************************************************)
(* The risk model, for all buckets, flags, floors and times                *)
(***************************************************************************)
LEMMA PercentFacts ==
  /\ \A v \in Percent : v \in Int /\ 0 <= v /\ v <= 100
  /\ \A v \in Int : 0 <= v /\ v <= 100 => v \in Percent
BY DEF Percent

\* clamp_int returns a value of the range it is given.
LEMMA ClampRange ==
  ASSUME NEW v \in Int, NEW low \in Int, NEW high \in Int, low <= high
  PROVE  ClampInt(v, low, high) \in low..high
BY DEF ClampInt

\* clamp_int keeps the order of its arguments.
LEMMA ClampMonotone ==
  ASSUME NEW v \in Int, NEW w \in Int, v <= w
  PROVE  ClampInt(v, 0, 100) <= ClampInt(w, 0, 100)
BY DEF ClampInt

\* The correlation bonus is a number; 60 is its most.
LEMMA BonusRange ==
  ASSUME NEW flags
  PROVE  CorrelationBonus(flags) \in 0..60
<1> DEFINE Pair(a, b, bonus) == IF {a, b} \subseteq flags THEN bonus ELSE 0
<1>1. \A a, b : \A bonus \in Int : Pair(a, b, bonus) \in Int
  OBVIOUS
<1> DEFINE total ==   Pair("MEMFD", "NOP", 25)
                    + Pair("EXEC_MEMORY", "BEACON", 20)
                    + Pair("RWX", "RAW_SOCKET", 25)
                    + Pair("TMP_EXEC", "BEACON", 20)
                    + Pair("RAW_SOCKET", "SYNSCAN", 20)
                    + Pair("PTRACE", "PROCESS_VM", 25)
                    + Pair("TMP_EXEC", "EXEC_MEMORY", 15)
                    + Pair("PE_ELF", "RWX", 15)
<1>2. total \in Int
  <2> HIDE DEF Pair
  <2> QED BY <1>1
<1>3. CorrelationBonus(flags) = ClampInt(total, 0, 60)
  BY DEF CorrelationBonus
<1> HIDE DEF total
<1> QED BY <1>2, <1>3 DEF ClampInt

\* The strongest bucket is at most 100 and grows with the buckets.
LEMMA StrongestRange ==
  ASSUME NEW cat \in [Categories -> Percent]
  PROVE  StrongestCategory(cat) \in Percent
BY DEF StrongestCategory, Larger, Categories, Percent

LEMMA StrongestMonotone ==
  ASSUME NEW low \in [Categories -> Percent], NEW high \in [Categories -> Percent],
         \A c \in Categories : low[c] <= high[c]
  PROVE  StrongestCategory(low) <= StrongestCategory(high)
<1>1. \A c \in Categories : low[c] \in Int /\ high[c] \in Int /\ low[c] <= high[c]
  BY DEF Percent
<1>2. \A a, b, c, d \in Int :
        a <= c /\ b <= d => /\ Larger(a, b) \in Int /\ Larger(c, d) \in Int
                            /\ Larger(a, b) <= Larger(c, d)
  BY DEF Larger
<1> DEFINE Low1 == Larger(low["filesystem"], low["lineage"])
           High1 == Larger(high["filesystem"], high["lineage"])
           Low2 == Larger(low["process"], Low1)
           High2 == Larger(high["process"], High1)
           Low3 == Larger(low["network"], Low2)
           High3 == Larger(high["network"], High2)
           Low4 == Larger(low["memory"], Low3)
           High4 == Larger(high["memory"], High3)
<1>3. Low1 \in Int /\ High1 \in Int /\ Low1 <= High1
  BY <1>1, <1>2 DEF Categories
<1> HIDE DEF Low1, High1
<1>4. Low2 \in Int /\ High2 \in Int /\ Low2 <= High2
  BY <1>1, <1>2, <1>3 DEF Categories
<1> HIDE DEF Low2, High2
<1>5. Low3 \in Int /\ High3 \in Int /\ Low3 <= High3
  BY <1>1, <1>2, <1>4 DEF Categories
<1> HIDE DEF Low3, High3
<1>6. Low4 <= High4
  BY <1>1, <1>2, <1>5 DEF Categories
<1> QED BY <1>6 DEF StrongestCategory, Low4, Low3, Low2, Low1, High4, High3, High2, High1

\* So does the weighted mix.
LEMMA WeightedRange ==
  ASSUME NEW cat \in [Categories -> Percent]
  PROVE  WeightedScore(cat) \in Percent
<1> DEFINE mix == (  cat["memory"] * 30 + cat["network"] * 25 + cat["process"] * 20
                   + cat["filesystem"] * 15 + cat["lineage"] * 10) \div 100
           top == (StrongestCategory(cat) * 85) \div 100
<1>1. mix \in Int
  <2>1. \A c \in Categories : cat[c] \in Int
    BY DEF Percent
  <2> QED BY <2>1 DEF Categories
<1>2. top \in Int
  BY StrongestRange DEF Percent
<1>3. WeightedScore(cat) = ClampInt(Larger(mix, top), 0, 100)
  BY DEF WeightedScore
<1> HIDE DEF mix, top
<1>4. Larger(mix, top) \in Int
  BY <1>1, <1>2 DEF Larger
<1> QED BY <1>3, <1>4 DEF ClampInt, Percent

LEMMA WeightedMonotone ==
  ASSUME NEW low \in [Categories -> Percent], NEW high \in [Categories -> Percent],
         \A c \in Categories : low[c] <= high[c]
  PROVE  WeightedScore(low) <= WeightedScore(high)
<1> DEFINE Sum(cat) == cat["memory"] * 30 + cat["network"] * 25 + cat["process"] * 20
                       + cat["filesystem"] * 15 + cat["lineage"] * 10
           Top(cat) == StrongestCategory(cat) * 85
<1>1. Sum(low) \in Int /\ Sum(high) \in Int /\ Sum(low) <= Sum(high)
  <2>1. \A c \in Categories : low[c] \in Int /\ high[c] \in Int /\ low[c] <= high[c]
    BY DEF Percent
  <2> QED BY <2>1 DEF Categories
<1>2. Top(low) \in Int /\ Top(high) \in Int /\ Top(low) <= Top(high)
  BY StrongestRange, StrongestMonotone DEF Percent
<1>3. /\ WeightedScore(low) = ClampInt(Larger(Sum(low) \div 100, Top(low) \div 100), 0, 100)
      /\ WeightedScore(high) = ClampInt(Larger(Sum(high) \div 100, Top(high) \div 100), 0, 100)
  BY DEF WeightedScore
<1> HIDE DEF Sum, Top
<1>4. /\ Sum(low) \div 100 \in Int /\ Sum(high) \div 100 \in Int
      /\ Sum(low) \div 100 <= Sum(high) \div 100
  BY <1>1
<1>5. /\ Top(low) \div 100 \in Int /\ Top(high) \div 100 \in Int
      /\ Top(low) \div 100 <= Top(high) \div 100
  BY <1>2
<1>6. /\ Larger(Sum(low) \div 100, Top(low) \div 100) \in Int
      /\ Larger(Sum(high) \div 100, Top(high) \div 100) \in Int
      /\ Larger(Sum(low) \div 100, Top(low) \div 100) <= Larger(Sum(high) \div 100, Top(high) \div 100)
  BY <1>4, <1>5 DEF Larger
<1> QED BY <1>3, <1>6, ClampMonotone

\* A risk is between its floor and 100.
LEMMA RiskRange ==
  ASSUME NEW cat \in [Categories -> Percent], NEW flags, NEW floor \in Percent
  PROVE  Risk(cat, flags, floor) \in Percent /\ floor <= Risk(cat, flags, floor)
<1>1. WeightedScore(cat) \in Percent /\ CorrelationBonus(flags) \in 0..60
  BY WeightedRange, BonusRange
<1> QED BY <1>1 DEF Risk, Larger, ClampInt, Percent

\* With the flags it has, a process is at more risk the fuller its buckets and the higher
\* its floor.
LEMMA RiskMonotone ==
  ASSUME NEW low \in [Categories -> Percent], NEW high \in [Categories -> Percent],
         \A c \in Categories : low[c] <= high[c],
         NEW flags, NEW f1 \in Percent, NEW f2 \in Percent, f1 <= f2
  PROVE  Risk(low, flags, f1) <= Risk(high, flags, f2)
<1>1. /\ WeightedScore(low) \in Percent /\ WeightedScore(high) \in Percent
      /\ CorrelationBonus(flags) \in 0..60
  BY WeightedRange, BonusRange
<1>2. WeightedScore(low) <= WeightedScore(high)
  BY WeightedMonotone
<1> DEFINE w1 == WeightedScore(low)
           w2 == WeightedScore(high)
           bonus == CorrelationBonus(flags)
<1> HIDE DEF w1, w2, bonus
<1>3. w1 \in 0..100 /\ w2 \in 0..100 /\ bonus \in 0..60 /\ w1 <= w2
  BY <1>1, <1>2 DEF w1, w2, bonus, Percent
<1>4. /\ Larger(w1 + bonus, f1) \in Int /\ Larger(w2 + bonus, f2) \in Int
      /\ Larger(w1 + bonus, f1) <= Larger(w2 + bonus, f2)
  BY <1>3 DEF Larger, Percent
<1> QED BY <1>4, ClampMonotone DEF Risk, w1, w2, bonus

-----------------------------------------------------------------------------
\* What holds of a record between findings: the score is the risk of the buckets,
\* the flags and the floor, or staler and then higher.
Bounded(p) == /\ Risk(p.cat, p.flags, p.floor) <= p.score
              /\ p.floor <= p.score
              /\ p.score <= p.peak

\* The fields of a well-formed record.
LEMMA FieldTypes ==
  ASSUME NEW p \in ProcScores
  PROVE  /\ p.cat \in [Categories -> Percent]
         /\ p.flags \subseteq FlagNames
         /\ p.floor \in Int /\ 0 <= p.floor /\ p.floor <= 100
         /\ p.score \in Int /\ 0 <= p.score /\ p.score <= 100
         /\ p.peak \in Int /\ 0 <= p.peak /\ p.peak <= 100
         /\ p.lastDecay \in Nat
         /\ p.events \in Seq(FindingNames)
<1>1. p.floor \in Percent /\ p.score \in Percent /\ p.peak \in Percent
  BY DEF ProcScores
<1>2. /\ p.cat \in [Categories -> Percent] /\ p.flags \subseteq FlagNames
      /\ p.lastDecay \in Nat /\ p.events \in Seq(FindingNames)
  BY DEF ProcScores
<1> QED BY <1>1, <1>2, PercentFacts

LEMMA FreshTyped ==
  ASSUME NEW t \in Nat
  PROVE  FreshScore(t) \in ProcScores
BY DEF FreshScore, ProcScores, Percent

\* decay_proc keeps a record well formed, only lowers buckets and floor, and leaves
\* score, peak and flags as they are.
LEMMA DecayedFacts ==
  ASSUME NEW p \in ProcScores, NEW t \in Nat
  PROVE  /\ Decayed(p, t) \in ProcScores
         /\ \A c \in Categories : Decayed(p, t).cat[c] <= p.cat[c]
         /\ Decayed(p, t).floor <= p.floor
         /\ Decayed(p, t).flags = p.flags
         /\ Decayed(p, t).score = p.score
         /\ Decayed(p, t).peak = p.peak
<1> DEFINE n == DecayPeriods(p, t)
           Lose(v) == ClampInt(v - n * RW_DECAY_AMOUNT, 0, 100)
<1>1. n \in Nat
  BY DEF DecayPeriods, RW_DECAY_SECONDS, ProcScores
<1>2. Decayed(p, t) = [p EXCEPT !.cat = [c \in Categories |-> Lose(p.cat[c])],
                                !.floor = Lose(p.floor),
                                !.lastDecay = p.lastDecay + n * RW_DECAY_SECONDS]
  BY DEF Decayed, ProcScores
<1> HIDE DEF n
<1>3. \A v \in Percent : Lose(v) \in Percent /\ Lose(v) <= v
  BY <1>1 DEF ClampInt, Percent, RW_DECAY_AMOUNT
<1>4. p.lastDecay + n * RW_DECAY_SECONDS \in Nat
  BY <1>1 DEF RW_DECAY_SECONDS, ProcScores
<1> DEFINE cat2 == [c \in Categories |-> Lose(p.cat[c])]
<1>5. cat2 \in [Categories -> Percent] /\ \A c \in Categories : cat2[c] <= p.cat[c]
  BY <1>3 DEF ProcScores
<1>6. Lose(p.floor) \in Percent /\ Lose(p.floor) <= p.floor
  BY <1>3 DEF ProcScores
<1> HIDE DEF Lose, cat2
<1>7. Decayed(p, t) \in ProcScores
  BY <1>2, <1>4, <1>5, <1>6 DEF ProcScores, cat2
<1>8. /\ Decayed(p, t).cat = cat2 /\ Decayed(p, t).floor = Lose(p.floor)
      /\ Decayed(p, t).flags = p.flags
      /\ Decayed(p, t).score = p.score /\ Decayed(p, t).peak = p.peak
  BY <1>2 DEF ProcScores, cat2
<1> QED BY <1>5, <1>6, <1>7, <1>8

LEMMA DecayedBounded ==
  ASSUME NEW p \in ProcScores, NEW t \in Nat, Bounded(p)
  PROVE  Bounded(Decayed(p, t))
<1> DEFINE d == Decayed(p, t)
<1>1. /\ d \in ProcScores /\ \A c \in Categories : d.cat[c] <= p.cat[c]
      /\ d.floor <= p.floor /\ d.flags = p.flags /\ d.score = p.score /\ d.peak = p.peak
  BY DecayedFacts
<1> HIDE DEF d
<1>2. Risk(d.cat, p.flags, d.floor) <= Risk(p.cat, p.flags, p.floor)
  BY <1>1, RiskMonotone DEF ProcScores
<1>3. /\ Risk(d.cat, p.flags, d.floor) \in Percent /\ Risk(p.cat, p.flags, p.floor) \in Percent
  BY <1>1, RiskRange DEF ProcScores
<1>4. /\ p.floor \in Int /\ p.score \in Int /\ p.peak \in Int /\ d.floor \in Int
      /\ Risk(d.cat, p.flags, d.floor) \in Int /\ Risk(p.cat, p.flags, p.floor) \in Int
  BY <1>1, <1>3, FieldTypes, PercentFacts
<1>5. Bounded(d)
  BY <1>1, <1>2, <1>4 DEF Bounded
<1> QED BY <1>5 DEF d

\* Every finding has a bucket and a floor, and adds between 1 and 100 points.
LEMMA FindingFacts ==
  ASSUME NEW f \in Findings, NEW browser \in BOOLEAN
  PROVE  /\ ClassifyCategory(f) \in Categories
         /\ ClassifyFlags(f) \subseteq FlagNames
         /\ DefaultFloor(f) \in Percent
         /\ NormalizedPoints(f, browser) \in 1..100
<1>1. ClassifyCategory(f) \in Categories
  BY DEF ClassifyCategory, Categories
<1>2. ClassifyFlags(f) \subseteq FlagNames
  BY DEF ClassifyFlags
<1>3. DefaultFloor(f) \in Percent
  BY DEF DefaultFloor, Percent
<1>4. NormalizedPoints(f, browser) \in 1..100
  <2> DEFINE capped == IF CategoryHas(f, {"ebpf_connect"}) /\ f.points > 25 THEN 25 ELSE f.points
             reduced == IF /\ browser
                           /\ ClassifyCategory(f) = "memory"
                           /\ ReasonHas(f, {"mmap", "prot_exec"})
                        THEN capped \div 3 ELSE capped
  <2>1. capped \in Int
    BY DEF Findings
  <2>2. reduced \in Int
    <3> HIDE DEF capped
    <3> QED BY <2>1
  <2> HIDE DEF reduced
  <2>3. NormalizedPoints(f, browser) = ClampInt(reduced, 1, 100)
    BY DEF NormalizedPoints, reduced, capped
  <2> QED BY <2>2, <2>3 DEF ClampInt
<1> QED BY <1>1, <1>2, <1>3, <1>4

\* Accounting for a finding keeps a record well formed and never lowers its peak.
LEMMA AccountedTyped ==
  ASSUME NEW p \in ProcScores, NEW f \in Findings, NEW browser \in BOOLEAN,
         NEW listed \in BOOLEAN, NEW percent \in Percent
  PROVE  /\ Accounted(p, f, browser, listed, percent) \in ProcScores
         /\ Accounted(p, f, browser, listed, percent).peak = p.peak
<1> DEFINE bucket == ClassifyCategory(f)
           full   == NormalizedPoints(f, browser)
           points == IF listed THEN WhitelistedPoints(full, percent) ELSE full
           floor  == IF listed THEN WhitelistedFloor(DefaultFloor(f), percent) ELSE DefaultFloor(f)
           put    == ClampInt(p.cat[bucket] + points, 0, 100)
<1>1. bucket \in Categories /\ full \in 1..100 /\ DefaultFloor(f) \in Percent
  BY FindingFacts
<1>2. ClassifyFlags(f) \subseteq FlagNames
  BY FindingFacts
<1>3. Accounted(p, f, browser, listed, percent) =
        [p EXCEPT !.cat = [p.cat EXCEPT ![bucket] = put],
                  !.flags = p.flags \union ClassifyFlags(f),
                  !.floor = Larger(p.floor, floor)]
  BY <1>1 DEF Accounted, ProcScores
<1>4. points \in Int
  <2> HIDE DEF full
  <2>1. full * percent \in Int
    BY <1>1 DEF Percent
  <2>2. (full * percent) \div 100 \in Int
    BY <2>1
  <2> QED BY <1>1, <2>2 DEF WhitelistedPoints, Larger
<1>5. floor \in Percent
  <2> DEFINE d == DefaultFloor(f)
  <2>0. d \in Percent
    BY <1>1
  <2> HIDE DEF d
  <2>1. d * percent \in Int /\ 0 <= d * percent /\ d * percent <= 100 * 100
    BY <2>0, SMTT(30) DEF Percent
  <2>2. (d * percent) \div 100 \in Percent
    BY <2>1 DEF Percent
  <2> QED BY <1>1, <2>2 DEF WhitelistedFloor, d
<1>6. put \in Percent
  <2> HIDE DEF points, bucket
  <2>1. p.cat[bucket] + points \in Int
    <3>1. p.cat[bucket] \in Percent
      BY <1>1, FieldTypes
    <3> QED BY <3>1, <1>4, PercentFacts
  <2> QED BY <2>1 DEF ClampInt, Percent
<1>7. Larger(p.floor, floor) \in Percent
  <2> HIDE DEF floor
  <2> QED BY <1>5 DEF Larger, ProcScores
<1> HIDE DEF bucket, put, floor
<1> QED BY ZenonT(60), <1>1, <1>2, <1>3, <1>6, <1>7 DEF ProcScores

\* recompute_score brings score and peak in line with the buckets.
LEMMA RecomputedFacts ==
  ASSUME NEW p \in ProcScores
  PROVE  /\ Recomputed(p) \in ProcScores
         /\ Bounded(Recomputed(p))
         /\ p.peak <= Recomputed(p).peak
         /\ Recomputed(p).peak \in {p.peak, Recomputed(p).score}
         /\ Recomputed(p).score = Risk(p.cat, p.flags, p.floor)
<1> DEFINE risk == Risk(p.cat, p.flags, p.floor)
<1>1. risk \in Percent /\ p.floor <= risk
  BY RiskRange DEF ProcScores
<1>2. Recomputed(p) = [p EXCEPT !.score = risk, !.peak = Larger(p.peak, risk)]
  BY DEF Recomputed, ProcScores
<1>3. Recomputed(p).cat = p.cat /\ Recomputed(p).flags = p.flags /\ Recomputed(p).floor = p.floor
  BY <1>2 DEF ProcScores
<1> HIDE DEF risk
<1>4. Recomputed(p).score = risk /\ Recomputed(p).peak = Larger(p.peak, risk)
  BY <1>2 DEF ProcScores
<1>5. Recomputed(p) \in ProcScores
  BY <1>1, <1>2 DEF ProcScores, Larger
<1>6. Bounded(Recomputed(p))
  <2>1. Risk(Recomputed(p).cat, Recomputed(p).flags, Recomputed(p).floor) = risk
    BY <1>3 DEF risk
  <2>2. p.peak \in Int /\ risk \in Int
    BY <1>1, FieldTypes, PercentFacts
  <2>3. risk <= Larger(p.peak, risk) /\ risk <= risk
    BY <2>2 DEF Larger
  <2> QED BY <1>1, <1>3, <1>4, <2>1, <2>3 DEF Bounded
<1>7. p.peak <= Larger(p.peak, risk) /\ Larger(p.peak, risk) \in {p.peak, risk}
  BY <1>1, FieldTypes, PercentFacts DEF Larger
<1> QED BY <1>4, <1>5, <1>6, <1>7 DEF risk

LEMMA EventRecordedFacts ==
  ASSUME NEW p \in ProcScores, NEW f \in Findings
  PROVE  /\ EventRecorded(p, f) \in ProcScores
         /\ EventRecorded(p, f).cat = p.cat
         /\ EventRecorded(p, f).flags = p.flags
         /\ EventRecorded(p, f).floor = p.floor
         /\ EventRecorded(p, f).score = p.score
         /\ EventRecorded(p, f).peak = p.peak
<1> DEFINE longer == Append(p.events, f.name)
<1>1. longer \in Seq(FindingNames)
  BY FieldTypes DEF Findings
<1> HIDE DEF longer
<1>2. CASE Len(p.events) < MaxEvents
  <2>1. EventRecorded(p, f) = [p EXCEPT !.events = longer]
    BY <1>2 DEF EventRecorded, longer
  <2> QED BY <1>1, <2>1 DEF ProcScores
<1>3. CASE ~(Len(p.events) < MaxEvents)
  BY <1>3 DEF EventRecorded
<1> QED BY <1>2, <1>3

\* rw_score_add leaves a well-formed record whose score is exactly its risk, and whose
\* peak is the greater of the new score and the old peak.
THEOREM WithFindingFacts ==
  ASSUME NEW p \in ProcScores, NEW f \in Findings, NEW browser \in BOOLEAN,
         NEW listed \in BOOLEAN, NEW percent \in Percent, NEW t \in Nat,
         NEW q, q = WithFinding(p, f, browser, listed, percent, t)
  PROVE  /\ q \in ProcScores
         /\ Bounded(q)
         /\ q.score = Risk(q.cat, q.flags, q.floor)
         /\ p.peak <= q.peak
         /\ q.peak \in {p.peak, q.score}
<1> DEFINE d == Decayed(p, t)
           a == Accounted(d, f, browser, listed, percent)
           r == Recomputed(a)
           new == EventRecorded(r, f)
<1>1. d \in ProcScores /\ d.peak = p.peak
  BY DecayedFacts
<1> HIDE DEF d
<1>2. a \in ProcScores /\ a.peak = d.peak
  BY <1>1, AccountedTyped
<1> HIDE DEF a
<1>3. /\ r \in ProcScores /\ Bounded(r) /\ a.peak <= r.peak /\ r.peak \in {a.peak, r.score}
      /\ r.score = Risk(a.cat, a.flags, a.floor)
  BY <1>2, RecomputedFacts
<1>4. r.cat = a.cat /\ r.flags = a.flags /\ r.floor = a.floor
  BY <1>2 DEF Recomputed, ProcScores
<1> HIDE DEF r
<1>5. /\ new \in ProcScores /\ new.cat = r.cat /\ new.flags = r.flags
      /\ new.floor = r.floor /\ new.score = r.score /\ new.peak = r.peak
  BY <1>3, EventRecordedFacts
<1> HIDE DEF new
<1>6. q = new
  BY DEF WithFinding, new, r, a, d
<1> QED BY <1>1, <1>2, <1>3, <1>4, <1>5, <1>6 DEF Bounded

-----------------------------------------------------------------------------
(***************************************************************************)
(* Findings and calls                                                      *)
(***************************************************************************)
\* A finding is well formed when its parts are.
LEMMA FindingTyped ==
  ASSUME NEW name \in FindingNames, NEW category \in SUBSET CategoryWords,
         NEW reason \in SUBSET ReasonWords, NEW points \in 1..100
  PROVE  Finding(name, category, reason, points) \in Findings
BY DEF Finding, Findings

\* Every finding that a detector reports is well formed.
LEMMA CatalogTyped ==
  /\ RawSocketFindings \subseteq Findings
  /\ EbpfSocketFindings \subseteq Findings
  /\ SyscallFindings \subseteq Findings
  /\ MapFindings \subseteq Findings
  /\ MemoryFindings \subseteq Findings
  /\ SynScanFinding \in Findings
  /\ FileFinding \in Findings
  /\ TracedFinding \in Findings
  /\ \A points \in 1..100 : /\ ProcTcpFinding(points) \in Findings
                            /\ EbpfConnectFinding(points) \in Findings
<1>a. /\ {"raw_socket"} \in SUBSET CategoryWords /\ {"packet_socket"} \in SUBSET CategoryWords
      /\ {"synscan"} \in SUBSET CategoryWords /\ {"tcp"} \in SUBSET CategoryWords
      /\ {"connect", "ebpf_connect"} \in SUBSET CategoryWords
      /\ {"file"} \in SUBSET CategoryWords /\ {"inject"} \in SUBSET CategoryWords
      /\ {"mem"} \in SUBSET CategoryWords /\ {} \in SUBSET CategoryWords
  BY DEF CategoryWords
<1>b. /\ {"raw"} \in SUBSET ReasonWords /\ {"packet", "raw", "socket"} \in SUBSET ReasonWords
      /\ {"syn_sent"} \in SUBSET ReasonWords /\ {"packet"} \in SUBSET ReasonWords
      /\ {"ptrace"} \in SUBSET ReasonWords
      /\ {"process_vm", "process_vm_writev"} \in SUBSET ReasonWords
      /\ {"process_vm"} \in SUBSET ReasonWords /\ {"prot_exec"} \in SUBSET ReasonWords
      /\ {"mmap", "prot_exec"} \in SUBSET ReasonWords /\ {"memfd"} \in SUBSET ReasonWords
      /\ {"chmod"} \in SUBSET ReasonWords /\ {"rwx"} \in SUBSET ReasonWords
      /\ {"memfd", "executable memfd"} \in SUBSET ReasonWords
      /\ {"elf", "elf header"} \in SUBSET ReasonWords /\ {"pe header"} \in SUBSET ReasonWords
      /\ {"rwx", "scan"} \in SUBSET ReasonWords
      /\ {"memfd", "executable memfd", "scan"} \in SUBSET ReasonWords
      /\ {"shellcode"} \in SUBSET ReasonWords /\ {} \in SUBSET ReasonWords
  BY DEF ReasonWords
<1>c. /\ "raw socket" \in FindingNames /\ "packet socket" \in FindingNames
      /\ "synscan" \in FindingNames /\ "beacon" \in FindingNames
      /\ "connections" \in FindingNames /\ "ebpf_connect" \in FindingNames
      /\ "ebpf packet socket" \in FindingNames /\ "ebpf inet socket" \in FindingNames
      /\ "ptrace" \in FindingNames /\ "process_vm_writev" \in FindingNames
      /\ "process_vm_readv" \in FindingNames /\ "mprotect" \in FindingNames
      /\ "mmap" \in FindingNames /\ "memfd_create" \in FindingNames
      /\ "execve in /tmp/" \in FindingNames /\ "unlink" \in FindingNames
      /\ "chmod" \in FindingNames /\ "file" \in FindingNames /\ "rwx" \in FindingNames
      /\ "deleted" \in FindingNames /\ "memfd" \in FindingNames
      /\ "suspicious path" \in FindingNames /\ "ptraced" \in FindingNames
      /\ "elf" \in FindingNames /\ "pe" \in FindingNames /\ "rwx scanned" \in FindingNames
      /\ "memfd scanned" \in FindingNames /\ "shellcode" \in FindingNames
  BY DEF FindingNames
<1>d. /\ 25 \in 1..100 /\ 35 \in 1..100 /\ 60 \in 1..100 /\ 65 \in 1..100 /\ 75 \in 1..100
      /\ 80 \in 1..100 /\ 85 \in 1..100 /\ 90 \in 1..100 /\ 95 \in 1..100
  OBVIOUS
<1>1. RawSocketFindings \subseteq Findings
  <2>1. /\ Finding("raw socket", {"raw_socket"}, {"raw"}, 95) \in Findings
        /\ Finding("packet socket", {"packet_socket"}, {"packet", "raw", "socket"}, 95) \in Findings
    BY <1>a, <1>b, <1>c, <1>d, FindingTyped
  <2> QED BY <2>1 DEF RawSocketFindings
<1>2. EbpfSocketFindings \subseteq Findings
  <2>1. /\ Finding("ebpf packet socket", {"raw_socket"}, {"packet"}, 95) \in Findings
        /\ Finding("ebpf inet socket", {"raw_socket"}, {}, 95) \in Findings
    BY <1>a, <1>b, <1>c, <1>d, FindingTyped
  <2> QED BY <2>1 DEF EbpfSocketFindings
<1>3. SyscallFindings \subseteq Findings
  <2>1. /\ Finding("ptrace", {}, {"ptrace"}, 85) \in Findings
        /\ Finding("process_vm_writev", {}, {"process_vm", "process_vm_writev"}, 85) \in Findings
        /\ Finding("process_vm_readv", {}, {"process_vm"}, 75) \in Findings
        /\ Finding("mprotect", {}, {"prot_exec"}, 85) \in Findings
        /\ Finding("mmap", {}, {"mmap", "prot_exec"}, 85) \in Findings
        /\ Finding("memfd_create", {}, {"memfd"}, 75) \in Findings
        /\ Finding("execve in /tmp/", {}, {}, 75) \in Findings
        /\ Finding("unlink", {}, {}, 75) \in Findings
        /\ Finding("chmod", {}, {"chmod"}, 75) \in Findings
    BY <1>a, <1>b, <1>c, <1>d, FindingTyped
  <2> QED BY ZenonT(60), <2>1 DEF SyscallFindings
<1>4. MapFindings \subseteq Findings
  <2>1. /\ Finding("rwx", {"inject"}, {"rwx"}, 80) \in Findings
        /\ Finding("deleted", {"inject"}, {}, 80) \in Findings
        /\ Finding("memfd", {"inject"}, {"memfd", "executable memfd"}, 80) \in Findings
        /\ Finding("suspicious path", {"inject"}, {}, 80) \in Findings
    BY <1>a, <1>b, <1>c, <1>d, FindingTyped
  <2> QED BY <2>1 DEF MapFindings
<1>5. MemoryFindings \subseteq Findings
  <2>1. /\ Finding("elf", {"mem"}, {"elf", "elf header"}, 60) \in Findings
        /\ Finding("pe", {"mem"}, {"pe header"}, 60) \in Findings
        /\ Finding("rwx scanned", {"mem"}, {"rwx", "scan"}, 25) \in Findings
        /\ Finding("memfd scanned", {"mem"}, {"memfd", "executable memfd", "scan"}, 35) \in Findings
    BY <1>a, <1>b, <1>c, <1>d, FindingTyped
  <2>2. \A points \in ShellcodeScores : Finding("shellcode", {"mem"}, {"shellcode"}, points) \in Findings
    BY <1>a, <1>b, <1>c, <1>d, FindingTyped DEF ShellcodeScores
  <2> QED BY <2>1, <2>2 DEF MemoryFindings
<1>6. SynScanFinding \in Findings /\ FileFinding \in Findings /\ TracedFinding \in Findings
  BY <1>a, <1>b, <1>c, <1>d, FindingTyped DEF SynScanFinding, FileFinding, TracedFinding
<1>7. ASSUME NEW points \in 1..100
      PROVE  ProcTcpFinding(points) \in Findings /\ EbpfConnectFinding(points) \in Findings
  BY <1>a, <1>b, <1>c, FindingTyped DEF ProcTcpFinding, EbpfConnectFinding
<1> QED BY <1>1, <1>2, <1>3, <1>4, <1>5, <1>6, <1>7

\* Every call that is ever pending is well formed.
LEMMA CallTyped ==
  /\ \A f \in Findings, c \in Configs : Add(f, c) \in Calls
  /\ \A s \in Percent, c \in Configs : Detail(s, c) \in Calls /\ Event(s, c) \in Calls
  /\ \A c \in Configs, n \in 0..MaxMappings : MemScan(c, n) \in Calls /\ MapsScan(c, n) \in Calls
  /\ \A c \in Configs : TraceScan(c) \in Calls
  /\ CaseLog \in Calls
  /\ Stop \in Calls
BY DEF Add, Detail, Event, MemScan, MapsScan, TraceScan, CaseLog, Stop, Calls

\* The arguments of a pending call.
LEMMA CallArguments ==
  ASSUME NEW call \in Calls
  PROVE  /\ call.op = "add" => call.f \in Findings /\ call.cfg \in Configs
         /\ call.op \in {"detail", "event"} => call.score \in Percent /\ call.cfg \in Configs
         /\ call.op \in {"memscan", "maps"} => call.cfg \in Configs /\ call.left \in 0..MaxMappings
         /\ call.op = "status" => call.cfg \in Configs
BY DEF Calls

\* A scan that has found something has one finding less to go.
LEMMA ScanContinues ==
  ASSUME NEW call \in Calls, call.op \in {"memscan", "maps"}, call.left > 0
  PROVE  /\ [call EXCEPT !.left = @ - 1] \in Calls
         /\ [call EXCEPT !.left = @ - 1].op = call.op
<1>1. /\ call \in [op : {"memscan", "maps"}, cfg : Configs, left : 0..MaxMappings]
      /\ call.left - 1 \in 0..MaxMappings
  BY ScoreCaseAssumption DEF Calls
<1> QED BY <1>1 DEF Calls

\* Popping and pushing pending calls.
LEMMA HeadTail ==
  ASSUME NEW S, NEW s \in Seq(S), s # <<>>
  PROVE  Head(s) \in S /\ Tail(s) \in Seq(S)
OBVIOUS

\* A call is pushed in front of the pending ones.
LEMMA Push ==
  ASSUME NEW S, NEW s \in Seq(S), NEW x \in S
  PROVE  <<x>> \o s \in Seq(S)
OBVIOUS

\* The calls a detection starts with: no report to a case and no snapshot is among them.
StartCalls == {call \in Calls : call.op \notin {"event", "memscan", "log"}}

\* The calls that the detectors make are start calls.
LEMMA StartTyped ==
  /\ \A f \in Findings, c \in Configs : Add(f, c) \in StartCalls
  /\ \A s \in Percent, c \in Configs : Detail(s, c) \in StartCalls
  /\ \A c \in Configs : MapsScan(c, MaxMappings) \in StartCalls /\ TraceScan(c) \in StartCalls
  /\ Stop \in StartCalls
BY CallTyped, ScoreCaseAssumption DEF StartCalls, Add, Detail, MapsScan, TraceScan, Stop

\* A scan for injections starts with both of its files.
LEMMA InjectionCallsTyped ==
  ASSUME NEW c \in Configs
  PROVE  InjectionCalls(c) \in Seq(StartCalls)
<1>1. MapsScan(c, MaxMappings) \in StartCalls /\ TraceScan(c) \in StartCalls
  BY StartTyped
<1> QED BY <1>1 DEF InjectionCalls

\* With or without stop_suspicious, stopping is a sequence of start calls.
LEMMA StopCallsTyped == StopCalls \in Seq(StartCalls)
BY StartTyped DEF StopCalls

-----------------------------------------------------------------------------
(***************************************************************************)
(* Type correctness                                                        *)
(***************************************************************************)
\* rw_score_write_case writes a summary of the process' record.
LEMMA SummaryTyped ==
  ASSUME TypeOK
  PROVE  SummaryWritten \in [Pids -> {NoSummary} \union Summaries]
<1> DEFINE new == [written |-> TRUE, cat |-> score[cur].cat, flags |-> score[cur].flags,
                   floor |-> score[cur].floor, score |-> score[cur].score,
                   peak |-> score[cur].peak]
<1>1. score[cur] \in ProcScores /\ summary \in [Pids -> {NoSummary} \union Summaries]
  BY DEF TypeOK
<1>2. new \in Summaries
  BY <1>1 DEF ProcScores, Summaries
<1> HIDE DEF new
<1>3. [summary EXCEPT ![cur] = new] \in [Pids -> {NoSummary} \union Summaries]
  BY <1>1, <1>2
<1> QED BY <1>1, <1>3 DEF SummaryWritten, new

\* The threshold that a configuration gives is a number.
LEMMA ThresholdTyped ==
  ASSUME NEW c \in Configs
  PROVE  ThresholdOf(c) \in Int
BY ScoreCaseAssumption DEF ThresholdOf

\* Whichever way get_or_create_case goes, tables and pending calls stay well formed.
LEMMA GetOrCreateTyped ==
  ASSUME TypeOK, NEW s \in Percent, NEW c \in Configs,
         NEW then \in Seq(Calls), NEW rest \in Seq(Calls),
         GetOrCreateCase(s, c, then, rest)
  PROVE  /\ cases' \in Seq(Cases)
         /\ work' \in Seq(Calls)
         /\ summary' \in [Pids -> {NoSummary} \union Summaries]
         /\ refused' \subseteq Pids
<1> USE DEF TypeOK
<1>1. CASE HasCase(cur)
  <2> DEFINE k == FirstSlot(cur)
             new == [cases[k] EXCEPT !.maxScore = Larger(cases[k].maxScore, s)]
  <2>1. cases' = [cases EXCEPT ![k] = new] /\ work' = then
        /\ summary' = summary /\ refused' = refused
    BY <1>1 DEF GetOrCreateCase
  <2>2. CASE k \in DOMAIN cases
    <3>1. cases[k] \in Cases
      BY <2>2
    <3>2. Larger(cases[k].maxScore, s) \in Percent
      BY <3>1 DEF Cases, Larger
    <3>3. new \in Cases
      BY <3>1, <3>2 DEF Cases
    <3> HIDE DEF new, k
    <3> QED BY <2>1, <2>2, <3>3
  <2>3. CASE k \notin DOMAIN cases
    <3> HIDE DEF new, k
    <3>1. cases' = cases
      BY <2>1, <2>3
    <3> QED BY <2>1, <3>1
  <2> QED BY <2>2, <2>3
<1>2. CASE ~HasCase(cur) /\ s < ThresholdOf(c)
  <2>1. ~(s >= ThresholdOf(c))
    BY <1>2, ThresholdTyped, PercentFacts
  <2> QED BY <1>2, <2>1 DEF GetOrCreateCase
<1>3. CASE ~HasCase(cur) /\ s >= ThresholdOf(c) /\ CreateCase(s, c, then)
  <2>1. NewCase(s, c) \in Cases
    BY DEF NewCase, Cases
  <2>2. MemScan(c, MaxMappings) \in Calls
    BY CallTyped, ScoreCaseAssumption
  <2>3. <<MemScan(c, MaxMappings)>> \o then \in Seq(Calls)
    BY <2>2, Push
  <2> QED BY <1>3, <2>1, <2>3, SummaryTyped DEF CreateCase
<1>4. CASE ~HasCase(cur) /\ s >= ThresholdOf(c) /\ CaseRefused(rest)
  BY <1>4 DEF CaseRefused
<1> QED BY <1>1, <1>2, <1>3, <1>4 DEF GetOrCreateCase

\* The initial tables are well typed.
LEMMA InitTyped == Init => TypeOK
<1> SUFFICES ASSUME Init PROVE TypeOK
  OBVIOUS
<1>1. FreshScore(0) \in ProcScores
  BY FreshTyped
<1> QED BY <1>1 DEF Init, TypeOK, NoSummary

\* A detection starts with a well-formed sequence of calls.
LEMMA HandleTyped ==
  ASSUME TypeOK, NEW pid \in Pids, NEW calls \in Seq(Calls), Handle(pid, calls)
  PROVE  TypeOK'
BY DEF TypeOK, Handle

\* Calls of which the first is rw_score_add.
AddFirst == {calls \in Seq(StartCalls) : calls # <<>> /\ calls[1].op = "add"}

\* Whatever is to be called after them.
LEMMA AddFirstKept ==
  ASSUME NEW calls \in AddFirst, NEW rest \in Seq(StartCalls)
  PROVE  calls \o rest \in AddFirst
<1>1. calls \in Seq(StartCalls) /\ calls # <<>> /\ calls[1].op = "add"
  BY DEF AddFirst
<1>2. /\ calls \o rest \in Seq(StartCalls) /\ calls \o rest # <<>>
      /\ (calls \o rest)[1] = calls[1]
  BY <1>1
<1> QED BY <1>1, <1>2 DEF AddFirst

\* Every detection is handled by start calls about one process: it scores first, unless it
\* is a scan for injections.
LEMMA DetectionCalls ==
  ASSUME TypeOK, Detection
  PROVE  \E pid \in Pids : \E calls \in Seq(StartCalls) :
           Handle(pid, calls) /\ (calls \in AddFirst \/ calls = InjectionCalls("cfg"))
<1>1. PICK pid \in Pids :
        \/ RawSocketAlert(pid) \/ SynScanAlert(pid) \/ TrackUpdate(pid)
        \/ EbpfConnect(pid) \/ EbpfSocket(pid) \/ SyscallAlert(pid)
        \/ FileTouched(pid) \/ InjectionScan(pid)
  BY DEF Detection
<1>2. "cfg" \in Configs /\ "null" \in Configs
  BY DEF Configs
<1>3. InjectionCalls("cfg") \in Seq(StartCalls) /\ InjectionCalls("null") \in Seq(StartCalls)
      /\ StopCalls \in Seq(StartCalls)
  BY <1>2, InjectionCallsTyped, StopCallsTyped
<1>4. \A f \in Findings : Add(f, "cfg") \in StartCalls /\ <<Add(f, "cfg")>> \in AddFirst
  BY <1>2, StartTyped DEF AddFirst, Add
<1>5. ASSUME NEW f \in Findings, NEW s \in Percent
      PROVE  <<Add(f, "cfg"), Detail(s, "cfg")>> \in AddFirst
  BY <1>2, StartTyped DEF AddFirst, Add
<1>6. 95 \in Percent /\ 90 \in Percent /\ 65 \in Percent
      /\ (\A v \in 1..100 : v \in Percent) /\ TrackScores \subseteq 1..100
  BY ScoreCaseAssumption DEF Percent
<1>7. AddFirst \subseteq Seq(StartCalls)
  BY DEF AddFirst
<1>8. CASE RawSocketAlert(pid)
  <2>1. PICK f \in RawSocketFindings :
          Handle(pid, <<Add(f, "cfg"), Detail(95, "cfg")>> \o StopCalls)
    BY <1>8 DEF RawSocketAlert
  <2>2. <<Add(f, "cfg"), Detail(95, "cfg")>> \in AddFirst
    BY <1>5, <1>6, CatalogTyped
  <2>3. <<Add(f, "cfg"), Detail(95, "cfg")>> \o StopCalls \in AddFirst
    BY <1>3, <2>2, AddFirstKept
  <2> QED BY <1>7, <2>1, <2>3
<1>9. CASE SynScanAlert(pid)
  <2>1. <<Add(SynScanFinding, "cfg"), Detail(90, "cfg")>> \in AddFirst
    BY <1>5, <1>6, CatalogTyped
  <2>2. <<Add(SynScanFinding, "cfg"), Detail(90, "cfg")>> \o InjectionCalls("cfg")
          \o StopCalls \in AddFirst
    BY <1>3, <2>1, AddFirstKept
  <2> QED BY <1>7, <1>9, <2>2 DEF SynScanAlert
<1>10. CASE TrackUpdate(pid)
  <2>1. PICK points \in TrackScores :
          \/ Handle(pid, <<Add(ProcTcpFinding(points), "cfg")>>)
          \/ Handle(pid, <<Add(ProcTcpFinding(points), "cfg"), Detail(points, "cfg")>>
                         \o InjectionCalls("cfg") \o InjectionCalls("null") \o StopCalls)
    BY <1>10 DEF TrackUpdate
  <2>2. ProcTcpFinding(points) \in Findings /\ points \in Percent
    BY <1>6, CatalogTyped
  <2>3. <<Add(ProcTcpFinding(points), "cfg"), Detail(points, "cfg")>> \in AddFirst
    BY <1>5, <2>2
  <2>4. <<Add(ProcTcpFinding(points), "cfg"), Detail(points, "cfg")>>
          \o InjectionCalls("cfg") \o InjectionCalls("null") \o StopCalls \in AddFirst
    BY <1>3, <2>3, AddFirstKept
  <2>5. <<Add(ProcTcpFinding(points), "cfg")>> \in AddFirst
    BY <1>4, <2>2
  <2> QED BY <1>7, <2>1, <2>4, <2>5
<1>11. CASE EbpfConnect(pid)
  <2>1. PICK points \in TrackScores :
          \/ Handle(pid, <<Add(EbpfConnectFinding(points), "cfg")>>)
          \/ Handle(pid, <<Add(EbpfConnectFinding(points), "cfg"), Detail(points, "cfg")>>)
    BY <1>11 DEF EbpfConnect
  <2>2. EbpfConnectFinding(points) \in Findings /\ points \in Percent
    BY <1>6, CatalogTyped
  <2>3. <<Add(EbpfConnectFinding(points), "cfg"), Detail(points, "cfg")>> \in AddFirst
    BY <1>5, <2>2
  <2>4. <<Add(EbpfConnectFinding(points), "cfg")>> \in AddFirst
    BY <1>4, <2>2
  <2> QED BY <1>7, <2>1, <2>3, <2>4
<1>12. CASE EbpfSocket(pid)
  <2>1. PICK f \in EbpfSocketFindings : Handle(pid, <<Add(f, "cfg"), Detail(95, "cfg")>>)
    BY <1>12 DEF EbpfSocket
  <2>2. <<Add(f, "cfg"), Detail(95, "cfg")>> \in AddFirst
    BY <1>5, <1>6, CatalogTyped
  <2> QED BY <1>7, <2>1, <2>2
<1>13. CASE SyscallAlert(pid)
  <2>1. PICK f \in SyscallFindings : Handle(pid, <<Add(f, "cfg"), Detail(f.points, "cfg")>>)
    BY <1>13 DEF SyscallAlert
  <2>2. f \in Findings /\ f.points \in Percent
    BY <1>6, CatalogTyped DEF Findings
  <2>3. <<Add(f, "cfg"), Detail(f.points, "cfg")>> \in AddFirst
    BY <1>5, <2>2
  <2> QED BY <1>7, <2>1, <2>3
<1>14. CASE FileTouched(pid)
  <2>1. <<Add(FileFinding, "cfg"), Detail(65, "cfg")>> \in AddFirst
    BY <1>5, <1>6, CatalogTyped
  <2>2. <<Add(FileFinding, "cfg"), Detail(65, "cfg")>> \o InjectionCalls("cfg") \in AddFirst
    BY <1>3, <2>1, AddFirstKept
  <2> QED BY <1>7, <1>14, <2>2 DEF FileTouched
<1>15. CASE InjectionScan(pid)
  BY <1>3, <1>15 DEF InjectionScan
<1> QED BY <1>1, <1>8, <1>9, <1>10, <1>11, <1>12, <1>13, <1>14, <1>15

\* A detection leaves every variable well typed.
LEMMA DetectionTyped ==
  ASSUME TypeOK, Detection
  PROVE  TypeOK'
<1>1. PICK pid \in Pids, calls \in Seq(StartCalls) : Handle(pid, calls)
  BY DetectionCalls
<1>2. calls \in Seq(Calls)
  BY DEF StartCalls
<1> QED BY <1>1, <1>2, HandleTyped

\* The record that rw_score_add starts from, and what it makes of it.
OldScore == IF cur \in known THEN score[cur] ELSE FreshScore(now)
NewScore == LET call == Head(work) IN
  WithFinding(OldScore, call.f, cur \in Browsers,
              call.cfg = "cfg" /\ EnableWhitelist /\ cur \in matched,
              ClampInt(WhitelistPercent, 0, 100), now)

\* What rw_score_add computes: its arguments are well formed, and the record it stores is
\* bounded, states its own risk and does not lose the peak.
LEMMA ScoreAddFacts ==
  ASSUME TypeOK, Running("add")
  PROVE  /\ Head(work).f \in Findings /\ Head(work).cfg \in Configs
         /\ OldScore \in ProcScores
         /\ NewScore \in ProcScores
         /\ Bounded(NewScore)
         /\ NewScore.score = Risk(NewScore.cat, NewScore.flags, NewScore.floor)
         /\ OldScore.peak <= NewScore.peak
         /\ NewScore.peak \in {OldScore.peak, NewScore.score}
<1> DEFINE call == Head(work)
<1>1. call \in Calls /\ call.op = "add"
  BY HeadTail DEF TypeOK, Running
<1>2. call.f \in Findings /\ call.cfg \in Configs
  BY <1>1, CallArguments
<1>3. OldScore \in ProcScores
  BY FreshTyped DEF TypeOK, OldScore
<1>4. ClampInt(WhitelistPercent, 0, 100) \in Percent
  BY ScoreCaseAssumption DEF ClampInt, Percent
<1>5. now \in Nat /\ (cur \in Browsers) \in BOOLEAN
      /\ (call.cfg = "cfg" /\ EnableWhitelist /\ cur \in matched) \in BOOLEAN
  BY DEF TypeOK
<1> DEFINE browser == cur \in Browsers
           listed == call.cfg = "cfg" /\ EnableWhitelist /\ cur \in matched
           percent == ClampInt(WhitelistPercent, 0, 100)
<1>6. NewScore = WithFinding(OldScore, call.f, browser, listed, percent, now)
  BY DEF NewScore
<1>7. browser \in BOOLEAN /\ listed \in BOOLEAN /\ percent \in Percent
  BY <1>4, <1>5
<1> HIDE DEF browser, listed, percent
<1>8. /\ NewScore \in ProcScores
      /\ Bounded(NewScore)
      /\ NewScore.score = Risk(NewScore.cat, NewScore.flags, NewScore.floor)
      /\ OldScore.peak <= NewScore.peak
      /\ NewScore.peak \in {OldScore.peak, NewScore.score}
  BY SMTT(30), <1>2, <1>3, <1>5, <1>6, <1>7, WithFindingFacts
<1> QED BY <1>2, <1>3, <1>8

\* The two ways rw_score_add can go.
LEMMA ScoreAddCases ==
  ASSUME ScoreAdd
  PROVE  \/ /\ cur \notin known
            /\ work' = Tail(work)
            /\ UNCHANGED <<known, score, seen>>
         \/ /\ known' = known \union {cur}
            /\ score' = [score EXCEPT ![cur] = [NewScore EXCEPT
                           !.opened = @ \/ CrossesThreshold(NewScore.score, Head(work).cfg)]]
            /\ seen' = [seen EXCEPT ![cur] = @ \union {Head(work).f.name}]
            /\ work' = ReportCalls(NewScore.score, Head(work).cfg) \o Tail(work)
BY DEF ScoreAdd, NewScore, OldScore

\* Noting that the case was opened changes nothing else of the record.
LEMMA OpenedTyped ==
  ASSUME NEW p \in ProcScores, NEW over \in BOOLEAN
  PROVE  /\ [p EXCEPT !.opened = @ \/ over] \in ProcScores
         /\ [p EXCEPT !.opened = @ \/ over].cat = p.cat
         /\ [p EXCEPT !.opened = @ \/ over].flags = p.flags
         /\ [p EXCEPT !.opened = @ \/ over].floor = p.floor
         /\ [p EXCEPT !.opened = @ \/ over].score = p.score
         /\ [p EXCEPT !.opened = @ \/ over].peak = p.peak
BY DEF ProcScores

\* The report of rw_score_add is at most one well-formed call.
LEMMA ReportCallsTyped ==
  ASSUME NEW s \in Percent, NEW c \in Configs
  PROVE  ReportCalls(s, c) \in Seq(Calls)
<1>1. Event(s, c) \in Calls
  BY CallTyped
<1> QED BY <1>1 DEF ReportCalls

\* Every pending call leaves every variable well typed.
LEMMA StepTyped ==
  ASSUME TypeOK, Step
  PROVE  TypeOK'
<1>1. work \in Seq(Calls)
  BY DEF TypeOK
<1>2. ASSUME NEW op, Running(op)
      PROVE  Head(work) \in Calls /\ Head(work).op = op /\ Tail(work) \in Seq(Calls)
  BY <1>1, <1>2, HeadTail DEF Running
<1>3. CASE ScoreAdd
  <2>1. Running("add") /\ UNCHANGED <<cases, cur, matched, now, stopped, summary, handled, refused>>
    BY <1>3 DEF ScoreAdd
  <2>2. Tail(work) \in Seq(Calls)
    BY <1>2, <2>1
  <2>3. CASE work' = Tail(work) /\ UNCHANGED <<known, score, seen>>
    BY <2>1, <2>2, <2>3 DEF TypeOK
  <2>4. CASE /\ known' = known \union {cur}
             /\ score' = [score EXCEPT ![cur] = [NewScore EXCEPT
                            !.opened = @ \/ CrossesThreshold(NewScore.score, Head(work).cfg)]]
             /\ seen' = [seen EXCEPT ![cur] = @ \union {Head(work).f.name}]
             /\ work' = ReportCalls(NewScore.score, Head(work).cfg) \o Tail(work)
    <3> DEFINE over == CrossesThreshold(NewScore.score, Head(work).cfg)
               new == [NewScore EXCEPT !.opened = @ \/ over]
    <3>1. NewScore \in ProcScores /\ Head(work).f \in Findings /\ Head(work).cfg \in Configs
      BY <2>1, ScoreAddFacts
    <3>2. over \in BOOLEAN
      BY DEF CrossesThreshold
    <3>3. new \in ProcScores
      <4> HIDE DEF over
      <4> QED BY <3>1, <3>2, OpenedTyped
    <3>4. NewScore.score \in Percent
      BY <3>1, FieldTypes, PercentFacts
    <3>5. work' \in Seq(Calls)
      BY <2>2, <2>4, <3>1, <3>4, ReportCallsTyped
    <3>6. score' \in [Pids -> ProcScores]
      <4> HIDE DEF new
      <4>1. score' = [score EXCEPT ![cur] = new]
        BY <2>4 DEF new
      <4> QED BY <3>3, <4>1 DEF TypeOK
    <3>7. Head(work).f.name \in FindingNames
      BY <3>1 DEF Findings
    <3>8. seen' \in [Pids -> SUBSET FindingNames]
      BY <2>4, <3>7 DEF TypeOK
    <3>9. known' \subseteq Pids
      BY <2>4 DEF TypeOK
    <3> QED BY <2>1, <3>5, <3>6, <3>8, <3>9 DEF TypeOK
  <2> QED BY <1>3, <2>3, <2>4, ScoreAddCases
<1>4. CASE CaseDetail
  <2>1. Head(work).score \in Percent /\ Head(work).cfg \in Configs /\ Tail(work) \in Seq(Calls)
    BY <1>2, <1>4, CallArguments DEF CaseDetail
  <2>2. Event(Head(work).score, Head(work).cfg) \in Calls
    BY <2>1, CallTyped
  <2>3. <<Event(Head(work).score, Head(work).cfg)>> \o Tail(work) \in Seq(Calls)
    BY <2>1, <2>2, Push
  <2>4. work' \in Seq(Calls)
    BY <1>4, <2>1, <2>3 DEF CaseDetail
  <2> QED BY <1>4, <2>4 DEF CaseDetail, TypeOK
<1>5. CASE CaseEvent
  <2>1. Head(work).score \in Percent /\ Head(work).cfg \in Configs /\ Tail(work) \in Seq(Calls)
    BY <1>2, <1>5, CallArguments DEF CaseEvent
  <2>2. <<CaseLog>> \o Tail(work) \in Seq(Calls)
    BY <2>1, CallTyped, Push
  <2>3. GetOrCreateCase(Head(work).score, Head(work).cfg, <<CaseLog>> \o Tail(work), Tail(work))
    BY <1>5 DEF CaseEvent
  <2>4. /\ cases' \in Seq(Cases) /\ work' \in Seq(Calls) /\ refused' \subseteq Pids
        /\ summary' \in [Pids -> {NoSummary} \union Summaries]
    BY <2>1, <2>2, <2>3, GetOrCreateTyped
  <2> QED BY <1>5, <2>4 DEF CaseEvent, TypeOK
<1>6. CASE LogCaseEvent
  <2>1. Tail(work) \in Seq(Calls)
    BY <1>2, <1>6 DEF LogCaseEvent
  <2> QED BY <1>6, <2>1, SummaryTyped DEF LogCaseEvent, TypeOK
<1>7. ASSUME NEW f \in MemoryFindings, ScanMemory(f)
      PROVE  TypeOK'
  <2> DEFINE rest == [Head(work) EXCEPT !.left = @ - 1]
  <2>1. /\ Head(work) \in Calls /\ Head(work).op \in {"memscan", "maps"}
        /\ Head(work).left > 0 /\ Tail(work) \in Seq(Calls)
    BY <1>2, <1>7 DEF ScanMemory
  <2>2. rest \in Calls /\ Add(f, Head(work).cfg) \in Calls
    <3>1. rest \in Calls
      BY <2>1, ScanContinues
    <3>2. Head(work).cfg \in Configs
      BY <2>1, CallArguments
    <3>3. f \in Findings
      BY CatalogTyped
    <3> QED BY <3>1, <3>2, <3>3, CallTyped
  <2> HIDE DEF rest
  <2>3. <<Add(f, Head(work).cfg), rest>> \o Tail(work) \in Seq(Calls)
    BY <2>1, <2>2
  <2>4. work' = <<Add(f, Head(work).cfg), rest>> \o Tail(work)
    BY <1>7 DEF ScanMemory, rest
  <2> QED BY <1>7, <2>3, <2>4 DEF ScanMemory, TypeOK
<1>8. ASSUME NEW f \in MapFindings, ScanMaps(f)
      PROVE  TypeOK'
  <2> DEFINE rest == [Head(work) EXCEPT !.left = @ - 1]
  <2>1. /\ Head(work) \in Calls /\ Head(work).op \in {"memscan", "maps"}
        /\ Head(work).left > 0 /\ Tail(work) \in Seq(Calls)
    BY <1>2, <1>8 DEF ScanMaps
  <2>2. /\ rest \in Calls /\ Add(f, Head(work).cfg) \in Calls
        /\ Detail(80, Head(work).cfg) \in Calls
    <3>1. rest \in Calls
      BY <2>1, ScanContinues
    <3>2. Head(work).cfg \in Configs
      BY <2>1, CallArguments
    <3>3. f \in Findings
      BY CatalogTyped
    <3>4. 80 \in Percent
      BY PercentFacts
    <3> QED BY <3>1, <3>2, <3>3, <3>4, CallTyped
  <2> HIDE DEF rest
  <2>3. <<Add(f, Head(work).cfg), Detail(80, Head(work).cfg), rest>> \o Tail(work) \in Seq(Calls)
    BY <2>1, <2>2
  <2>4. work' = <<Add(f, Head(work).cfg), Detail(80, Head(work).cfg), rest>> \o Tail(work)
    BY <1>8 DEF ScanMaps, rest
  <2> QED BY <1>8, <2>3, <2>4 DEF ScanMaps, TypeOK
<1>9. CASE ScanStatus
  <2>1. Head(work) \in Calls /\ Head(work).op = "status" /\ Tail(work) \in Seq(Calls)
    BY <1>2, <1>9 DEF ScanStatus
  <2>2. Add(TracedFinding, Head(work).cfg) \in Calls /\ Detail(90, Head(work).cfg) \in Calls
    <3>1. Head(work).cfg \in Configs
      BY <2>1, CallArguments
    <3>2. TracedFinding \in Findings /\ 90 \in Percent
      BY CatalogTyped, PercentFacts
    <3> QED BY <3>1, <3>2, CallTyped
  <2>3. <<Add(TracedFinding, Head(work).cfg), Detail(90, Head(work).cfg)>> \o Tail(work) \in Seq(Calls)
    BY <2>1, <2>2
  <2> QED BY <1>9, <2>3 DEF ScanStatus, TypeOK
<1>10. CASE NoMaps
  <2>1. SubSeq(work, 3, Len(work)) \in Seq(Calls)
    BY <1>1
  <2> QED BY <1>10, <2>1 DEF NoMaps, TypeOK
<1>11. CASE EndScan
  <2>1. Tail(work) \in Seq(Calls)
    BY <1>2, <1>11 DEF EndScan
  <2> QED BY <1>11, <2>1 DEF EndScan, TypeOK
<1>12. CASE StopProcess
  <2>1. Tail(work) \in Seq(Calls)
    BY <1>2, <1>12 DEF StopProcess
  <2>2. Event(100, "cfg") \in Calls /\ 100 \in Percent /\ "cfg" \in Configs
    BY CallTyped, PercentFacts DEF Configs
  <2>3. <<Event(100, "cfg")>> \o Tail(work) \in Seq(Calls)
    BY <2>1, <2>2, Push
  <2>4. GetOrCreateCase(100, "cfg", <<Event(100, "cfg")>> \o Tail(work), Tail(work))
    BY <1>12 DEF StopProcess
  <2>5. /\ cases' \in Seq(Cases) /\ work' \in Seq(Calls) /\ refused' \subseteq Pids
        /\ summary' \in [Pids -> {NoSummary} \union Summaries]
    BY <2>1, <2>2, <2>3, <2>4, GetOrCreateTyped
  <2>6. stopped' \subseteq Pids
    BY <1>12 DEF StopProcess, TypeOK
  <2> QED BY <1>12, <2>5, <2>6 DEF StopProcess, TypeOK
<1> QED BY <1>3, <1>4, <1>5, <1>6, <1>7, <1>8, <1>9, <1>10, <1>11, <1>12 DEF Step

\* So does the decay of all processes.
LEMMA DecayAllTyped ==
  ASSUME TypeOK, DecayAll
  PROVE  TypeOK'
<1>1. \A p \in Pids : score[p] \in ProcScores /\ Decayed(score[p], now) \in ProcScores
  BY DecayedFacts DEF TypeOK
<1>2. score' \in [Pids -> ProcScores]
  BY <1>1 DEF DecayAll
<1> QED BY <1>2 DEF DecayAll, TypeOK

\* The type invariant is inductive.
LEMMA NextTyped == TypeOK /\ [Next]_vars => TypeOK'
<1> SUFFICES ASSUME TypeOK, [Next]_vars PROVE TypeOK'
  OBVIOUS
<1>1. CASE WhitelistPoll
  BY <1>1 DEF WhitelistPoll, TypeOK
<1>2. CASE Tick
  BY <1>2, ScoreCaseAssumption DEF Tick, TypeOK
<1>3. CASE UNCHANGED vars
  BY <1>3 DEF vars, TypeOK
<1> QED BY <1>1, <1>2, <1>3, StepTyped, DetectionTyped, DecayAllTyped DEF Next

\* Buckets, floors and scores stay within 0..100 and every pending call is well formed,
\* whatever the detectors report and however the calls nest.
THEOREM TypeCorrect == Spec => []TypeOK
BY InitTyped, NextTyped, PTL DEF Spec

-----------------------------------------------------------------------------
(***************************************************************************)
(* The safety of the scoring and case core.  None of the invariants is     *)
(* inductive alone: that a case is justified rests on what the pending     *)
(* calls may report (PendingJustified), and what they may report on the    *)
(* peak of a process never falling (Grows).                                *)
(***************************************************************************)
\* A process keeps its score slot and its peak, and a SIGSTOP stays sent.
Grows ==
  /\ known \subseteq known'
  /\ stopped \subseteq stopped'
  /\ \A p \in known : score[p].peak <= score'[p].peak

\* ScoreAdd only adds to the table of scores and never lowers a peak.
LEMMA ScoreAddGrows ==
  ASSUME TypeOK, ScoreAdd
  PROVE  Grows
<1>1. Running("add") /\ stopped' = stopped
  BY DEF ScoreAdd
<1>2. \A p \in known : score[p].peak \in Int
  BY FieldTypes, PercentFacts DEF TypeOK
<1>3. CASE UNCHANGED <<known, score>>
  BY <1>1, <1>2, <1>3 DEF Grows
<1>4. CASE /\ known' = known \union {cur}
           /\ score' = [score EXCEPT ![cur] = [NewScore EXCEPT
                          !.opened = @ \/ CrossesThreshold(NewScore.score, Head(work).cfg)]]
  <2> DEFINE over == CrossesThreshold(NewScore.score, Head(work).cfg)
             new == [NewScore EXCEPT !.opened = @ \/ over]
  <2>1. /\ NewScore \in ProcScores /\ OldScore.peak <= NewScore.peak
    BY <1>1, ScoreAddFacts
  <2>2. over \in BOOLEAN
    BY DEF CrossesThreshold
  <2>3. new.peak = NewScore.peak
    <3> HIDE DEF over
    <3> QED BY <2>1, <2>2, OpenedTyped
  <2>4. score' = [score EXCEPT ![cur] = new]
    BY <1>4
  <2> HIDE DEF new
  <2>5. cur \in Pids /\ known \subseteq Pids /\ DOMAIN score = Pids
    BY DEF TypeOK
  <2>6. ASSUME NEW p \in known
        PROVE  score[p].peak <= score'[p].peak
    <3>1. CASE p = cur
      BY <2>1, <2>3, <2>4, <2>5, <3>1 DEF OldScore
    <3>2. CASE p # cur
      BY <1>2, <2>4, <2>5, <3>2
    <3> QED BY <3>1, <3>2
  <2> QED BY <1>1, <1>4, <2>6 DEF Grows
<1> QED BY <1>3, <1>4, ScoreAddCases

\* Decay leaves the peaks alone.
LEMMA DecayAllGrows ==
  ASSUME TypeOK, DecayAll
  PROVE  Grows
<1>1. ASSUME NEW p \in known
      PROVE  score[p].peak <= score'[p].peak
  <2>1. score[p] \in ProcScores /\ now \in Nat /\ p \in Pids
    BY DEF TypeOK
  <2>2. Decayed(score[p], now).peak = score[p].peak
    BY <2>1, DecayedFacts
  <2>3. score'[p] = Decayed(score[p], now)
    BY <2>1 DEF DecayAll
  <2>4. score[p].peak \in Int
    BY <2>1, FieldTypes, PercentFacts
  <2> QED BY <2>2, <2>3, <2>4
<1> QED BY <1>1 DEF Grows, DecayAll

\* No step lowers the peak of a process, forgets a process or takes back a SIGSTOP.
LEMMA StepGrows ==
  ASSUME TypeOK, [Next]_vars
  PROVE  Grows
<1>1. \A p \in known : score[p].peak \in Int
  BY FieldTypes, PercentFacts DEF TypeOK
<1>2. CASE UNCHANGED <<known, score>> /\ stopped \subseteq stopped'
  BY <1>1, <1>2 DEF Grows
<1>3. CASE Step
  <2>1. CASE ScoreAdd
    BY <2>1, ScoreAddGrows
  <2>2. CASE CaseDetail
    BY <1>2, <2>2 DEF CaseDetail
  <2>3. CASE CaseEvent
    BY <1>2, <2>3 DEF CaseEvent
  <2>4. CASE LogCaseEvent
    BY <1>2, <2>4 DEF LogCaseEvent
  <2>5. CASE \E f \in MemoryFindings : ScanMemory(f)
    BY <1>2, <2>5 DEF ScanMemory
  <2>6. CASE \E f \in MapFindings : ScanMaps(f)
    BY <1>2, <2>6 DEF ScanMaps
  <2>7. CASE ScanStatus \/ NoMaps \/ EndScan \/ StopProcess
    BY <1>2, <2>7 DEF ScanStatus, NoMaps, EndScan, StopProcess
  <2> QED BY <1>3, <2>1, <2>2, <2>3, <2>4, <2>5, <2>6, <2>7 DEF Step
<1>4. CASE Detection
  <2>1. PICK pid, calls : pid \in Pids /\ Handle(pid, calls)
    BY <1>4 DEF Detection, RawSocketAlert, SynScanAlert, TrackUpdate, EbpfConnect,
                EbpfSocket, SyscallAlert, FileTouched, InjectionScan
  <2> QED BY <1>2, <2>1 DEF Handle
<1>5. CASE DecayAll
  BY <1>5, DecayAllGrows
<1>6. CASE WhitelistPoll \/ Tick \/ UNCHANGED vars
  BY <1>2, <1>6 DEF WhitelistPoll, Tick, vars
<1> QED BY <1>3, <1>4, <1>5, <1>6 DEF Next

\* The peak of a process never falls, and it never loses its score slot: what justified a
\* case once justifies it for good.
THEOREM PeakNeverFalls == Spec => [][Grows]_vars
<1>1. TypeOK /\ [Next]_vars => [Grows]_vars
  BY StepGrows
<1> QED BY <1>1, TypeCorrect, PTL DEF Spec

-----------------------------------------------------------------------------
(***************************************************************************)
(* The risk of a process                                                   *)
(***************************************************************************)
\* A step keeps every record within its bounds, whether it scores, decays or leaves it.
LEMMA BoundsStep ==
  ASSUME TypeOK, ScoreBounds, [Next]_vars
  PROVE  ScoreBounds'
<1>1. \A p \in known : Bounded(score[p])
  BY DEF ScoreBounds, Bounded
<1>2. SUFFICES \A p \in known' : Bounded(score'[p])
  BY DEF ScoreBounds, Bounded
<1>3. CASE UNCHANGED <<known, score>>
  BY <1>1, <1>3
<1>4. CASE ScoreAdd
  <2>1. CASE ~ UNCHANGED <<known, score>>
    <3> DEFINE over == CrossesThreshold(NewScore.score, Head(work).cfg)
               new == [NewScore EXCEPT !.opened = @ \/ over]
    <3>1. known' = known \union {cur} /\ score' = [score EXCEPT ![cur] = new]
      BY <1>4, <2>1, ScoreAddCases
    <3>2. NewScore \in ProcScores /\ Bounded(NewScore)
      BY <1>4, ScoreAddFacts DEF ScoreAdd
    <3>3. over \in BOOLEAN
      BY DEF CrossesThreshold
    <3>4. Bounded(new)
      <4> HIDE DEF over
      <4> QED BY <3>2, <3>3, OpenedTyped DEF Bounded
    <3> HIDE DEF new
    <3>5. cur \in Pids /\ known \subseteq Pids /\ DOMAIN score = Pids
      BY DEF TypeOK
    <3> QED BY <1>1, <3>1, <3>4, <3>5
  <2> QED BY <1>3, <2>1
<1>5. CASE Step /\ ~ScoreAdd
  BY <1>3, <1>5 DEF Step, CaseDetail, CaseEvent, LogCaseEvent, ScanMemory, ScanMaps,
                    ScanStatus, NoMaps, EndScan, StopProcess
<1>6. CASE Detection
  <2>1. PICK pid, calls : pid \in Pids /\ Handle(pid, calls)
    BY <1>6 DEF Detection, RawSocketAlert, SynScanAlert, TrackUpdate, EbpfConnect,
                EbpfSocket, SyscallAlert, FileTouched, InjectionScan
  <2> QED BY <1>3, <2>1 DEF Handle
<1>7. CASE DecayAll
  <2> SUFFICES ASSUME NEW p \in known' PROVE Bounded(score'[p])
    OBVIOUS
  <2>1. p \in known /\ p \in Pids /\ score[p] \in ProcScores /\ now \in Nat
    BY <1>7 DEF DecayAll, TypeOK
  <2>2. score'[p] = Decayed(score[p], now)
    BY <1>7, <2>1 DEF DecayAll
  <2> QED BY <1>1, <2>1, <2>2, DecayedBounded
<1>8. CASE WhitelistPoll \/ Tick \/ UNCHANGED vars
  BY <1>3, <1>8 DEF WhitelistPoll, Tick, vars
<1> QED BY <1>4, <1>5, <1>6, <1>7, <1>8 DEF Next

\* The score a process is reported with is never below the risk its decayed buckets, flags
\* and floor amount to, nor below its floor, and never above its peak.
THEOREM ScoreIsBounded == Spec => []ScoreBounds
<1>1. Init => ScoreBounds
  BY DEF Init, ScoreBounds
<1> QED BY <1>1, BoundsStep, TypeCorrect, PTL DEF Spec

-----------------------------------------------------------------------------
(***************************************************************************)
(* The case table                                                          *)
(***************************************************************************)
\* Cases are only appended; of an existing case only the highest score changes.
CasesKept ==
  /\ Len(cases) <= Len(cases')
  /\ \A i \in 1..Len(cases) : cases'[i].pid = cases[i].pid /\ cases'[i].dir = cases[i].dir

\* The outcomes of get_or_create_case, as far as the table and the pending calls go.
LEMMA GetOrCreateOutcomes ==
  ASSUME TypeOK, NEW s \in Percent, NEW c \in Configs, NEW then, NEW rest,
         GetOrCreateCase(s, c, then, rest)
  PROVE  \/ /\ HasCase(cur) /\ CasesKept /\ Len(cases') = Len(cases) /\ work' = then
         \/ /\ ~HasCase(cur) /\ cases' = cases /\ work' = rest
         \/ /\ ~HasCase(cur) /\ s >= ThresholdOf(c)
            /\ cases' = Append(cases, NewCase(s, c))
            /\ work' = <<MemScan(c, MaxMappings)>> \o then
<1>1. CASE HasCase(cur)
  <2> DEFINE k == FirstSlot(cur)
             m == Larger(cases[k].maxScore, s)
  <2>1. cases' = [cases EXCEPT ![k] = [cases[k] EXCEPT !.maxScore = m]] /\ work' = then
    BY <1>1 DEF GetOrCreateCase
  <2>2. cases \in Seq(Cases)
    BY DEF TypeOK
  <2> HIDE DEF k, m
  <2>3. Len(cases') = Len(cases)
    BY <2>1, <2>2
  <2>4. ASSUME NEW i \in 1..Len(cases)
        PROVE  cases'[i].pid = cases[i].pid /\ cases'[i].dir = cases[i].dir
    <3>1. cases[i] \in Cases
      BY <2>2
    <3>2. CASE i = k
      <4>1. cases'[i] = [cases[i] EXCEPT !.maxScore = m]
        BY <2>1, <2>2, <3>2
      <4> QED BY <3>1, <4>1 DEF Cases
    <3>3. CASE i # k
      BY <2>1, <2>2, <3>3
    <3> QED BY <3>2, <3>3
  <2> QED BY <1>1, <2>1, <2>2, <2>3, <2>4 DEF CasesKept
<1>2. CASE ~HasCase(cur)
  BY <1>2 DEF GetOrCreateCase, CreateCase, CaseRefused
<1> QED BY <1>1, <1>2

\* A case that a pid has stays its case.
LEMMA HasCaseKept ==
  ASSUME cases \in Seq(Cases), CasesKept, NEW pid, HasCase(pid)
  PROVE  CaseSlots(pid)' # {}
<1>1. PICK i \in 1..Len(cases) : cases[i].pid = pid
  BY DEF HasCase, CaseSlots
<1>2. i \in 1..Len(cases') /\ cases'[i].pid = pid
  BY <1>1 DEF CasesKept
<1> QED BY <1>2 DEF CaseSlots

\* What a step may do to the table: nothing but the highest score of a case, or one new
\* case, for a process that has none and that has reached the threshold or was stopped.
CaseOpened ==
  \E s \in Percent, c \in Configs :
    /\ ~HasCase(cur)
    /\ cases' = Append(cases, NewCase(s, c))
    /\ s >= ThresholdOf(c)
    /\ (cur \in known /\ s <= score[cur].peak) \/ cur \in stopped'

\* A pending report is justified: there is a case, or the peak reached the score reported.
Justified(call) ==
  call.op = "event" => HasCase(cur) \/ (cur \in known /\ call.score <= score[cur].peak)

JustifiedCalls == {call \in Calls : Justified(call)}

\* PendingJustified gives the pending calls a narrower type.
LEMMA PendingAsType ==
  ASSUME TypeOK, PendingJustified
  PROVE  work \in Seq(JustifiedCalls)
<1>1. work \in Seq(Calls)
  BY DEF TypeOK
<1>2. \A i \in 1..Len(work) : work[i] \in JustifiedCalls
  BY <1>1 DEF PendingJustified, JustifiedCalls, Justified
<1> QED BY <1>1, <1>2

\* Every step keeps the table or opens a case that is justified.
LEMMA TableStep ==
  ASSUME TypeOK, PendingJustified, [Next]_vars
  PROVE  (CasesKept /\ Len(cases') = Len(cases)) \/ CaseOpened
<1>1. CASE UNCHANGED cases
  BY <1>1 DEF CasesKept, TypeOK
<1>2. CASE CaseEvent
  <2> DEFINE s == Head(work).score
             c == Head(work).cfg
             then == <<CaseLog>> \o Tail(work)
             rest == Tail(work)
  <2>1. work \in Seq(Calls) /\ work # <<>> /\ Head(work).op = "event"
    BY <1>2 DEF CaseEvent, Running, TypeOK
  <2>2. s \in Percent /\ c \in Configs
    BY <2>1, HeadTail, CallArguments
  <2>3. Head(work) = work[1] /\ 1 \in DOMAIN work
    BY <2>1
  <2>4. HasCase(cur) \/ (cur \in known /\ s <= score[cur].peak)
    BY <2>1, <2>3 DEF PendingJustified
  <2>5. GetOrCreateCase(s, c, then, rest)
    BY <1>2 DEF CaseEvent
  <2> HIDE DEF s, c, then, rest
  <2>6. CASE ~HasCase(cur) /\ s >= ThresholdOf(c) /\ cases' = Append(cases, NewCase(s, c))
    BY <2>2, <2>4, <2>6 DEF CaseOpened
  <2> QED BY <1>1, <2>2, <2>5, <2>6, GetOrCreateOutcomes
<1>3. CASE StopProcess
  <2>1. 100 \in Percent /\ "cfg" \in Configs
    BY PercentFacts DEF Configs
  <2>2. cur \in stopped'
    BY <1>3 DEF StopProcess
  <2>3. GetOrCreateCase(100, "cfg", <<Event(100, "cfg")>> \o Tail(work), Tail(work))
    BY <1>3 DEF StopProcess
  <2>4. CASE ~HasCase(cur) /\ 100 >= ThresholdOf("cfg") /\ cases' = Append(cases, NewCase(100, "cfg"))
    BY <2>1, <2>2, <2>4 DEF CaseOpened
  <2> QED BY <1>1, <2>1, <2>3, <2>4, GetOrCreateOutcomes
<1>4. CASE Step /\ ~CaseEvent /\ ~StopProcess
  BY <1>1, <1>4 DEF Step, ScoreAdd, CaseDetail, LogCaseEvent, ScanMemory, ScanMaps,
                    ScanStatus, NoMaps, EndScan
<1>5. CASE Detection
  <2>1. PICK pid, calls : pid \in Pids /\ Handle(pid, calls)
    BY <1>5 DEF Detection, RawSocketAlert, SynScanAlert, TrackUpdate, EbpfConnect,
                EbpfSocket, SyscallAlert, FileTouched, InjectionScan
  <2> QED BY <1>1, <2>1 DEF Handle
<1>6. CASE DecayAll \/ WhitelistPoll \/ Tick \/ UNCHANGED vars
  BY <1>1, <1>6 DEF DecayAll, WhitelistPoll, Tick, vars
<1> QED BY <1>2, <1>3, <1>4, <1>5, <1>6 DEF Next

\* A case that is opened extends the table.
LEMMA OpenedKept ==
  ASSUME cases \in Seq(Cases), CaseOpened
  PROVE  CasesKept /\ \E i \in 1..Len(cases') : cases'[i].pid = cur
<1>1. PICK s \in Percent, c \in Configs : cases' = Append(cases, NewCase(s, c))
  BY DEF CaseOpened
<1>2. /\ Len(cases') = Len(cases) + 1
      /\ \A i \in 1..Len(cases) : cases'[i] = cases[i]
      /\ cases'[Len(cases) + 1] = NewCase(s, c)
  BY <1>1
<1>3. cases'[Len(cases) + 1].pid = cur /\ Len(cases) \in Nat
  BY <1>2 DEF NewCase
<1> QED BY <1>2, <1>3 DEF CasesKept

\* A process has no second case after a step.
LEMMA OneCaseStep ==
  ASSUME TypeOK, PendingJustified, OneCasePerProcess, [Next]_vars
  PROVE  OneCasePerProcess'
<1>1. cases \in Seq(Cases) /\ DOMAIN cases = 1..Len(cases)
  BY DEF TypeOK
<1>2. CASE CasesKept /\ Len(cases') = Len(cases)
  <2>1. cases' \in Seq(Cases)
    BY NextTyped DEF TypeOK
  <2>2. DOMAIN cases' = 1..Len(cases)
    BY <1>2, <2>1
  <2> QED BY <1>1, <1>2, <2>2 DEF OneCasePerProcess, CasesKept
<1>3. CASE CaseOpened
  <2>1. PICK s \in Percent, c \in Configs :
          ~HasCase(cur) /\ cases' = Append(cases, NewCase(s, c))
    BY <1>3 DEF CaseOpened
  <2>2. /\ DOMAIN cases' = 1..(Len(cases) + 1)
        /\ \A i \in 1..Len(cases) : cases'[i] = cases[i]
        /\ cases'[Len(cases) + 1].pid = cur
    BY <1>1, <2>1 DEF NewCase
  <2>3. \A i \in 1..Len(cases) : cases[i].pid # cur
    BY <2>1 DEF HasCase, CaseSlots
  <2> QED BY <1>1, <2>2, <2>3 DEF OneCasePerProcess
<1> QED BY <1>2, <1>3, TableStep

\* What justified the cases still does, and a new one is justified.
LEMMA JustifiedStep ==
  ASSUME TypeOK, PendingJustified, CaseJustified, [Next]_vars
  PROVE  CaseJustified'
<1>1. cases \in Seq(Cases) /\ DOMAIN cases = 1..Len(cases)
  BY DEF TypeOK
<1>2. Grows
  BY StepGrows
<1>3. TypeOK'
  BY NextTyped
<1>4. \A p \in known : score[p].peak \in Int
  BY FieldTypes, PercentFacts DEF TypeOK
<1>5. \A p \in known' : score'[p].peak \in Int
  BY <1>3, FieldTypes, PercentFacts DEF TypeOK
<1>6. ASSUME NEW i \in 1..Len(cases)
      PROVE  \/ cases[i].pid \in stopped'
             \/ cases[i].pid \in known' /\ score'[cases[i].pid].peak >= ThresholdOf(cases[i].dir)
  <2>1. cases[i] \in Cases /\ cases[i].dir \in Configs
    <3>1. cases[i] \in Cases
      BY <1>1
    <3> QED BY <3>1 DEF Cases
  <2>2. ThresholdOf(cases[i].dir) \in Int
    BY <2>1, ThresholdTyped
  <2>3. CASE cases[i].pid \in stopped
    BY <1>2, <2>3 DEF Grows
  <2>4. CASE cases[i].pid \in known /\ score[cases[i].pid].peak >= ThresholdOf(cases[i].dir)
    <3>1. cases[i].pid \in known' /\ score[cases[i].pid].peak <= score'[cases[i].pid].peak
      BY <1>2, <2>4 DEF Grows
    <3> QED BY <1>4, <1>5, <2>2, <2>4, <3>1
  <2> QED BY <1>1, <2>3, <2>4 DEF CaseJustified
<1>7. CASE CasesKept /\ Len(cases') = Len(cases)
  <2>1. DOMAIN cases' = 1..Len(cases)
    BY <1>3, <1>7 DEF TypeOK
  <2> QED BY <1>6, <1>7, <2>1 DEF CaseJustified, CasesKept, ThresholdOf
<1>8. CASE CaseOpened
  <2>1. PICK s \in Percent, c \in Configs :
          /\ cases' = Append(cases, NewCase(s, c)) /\ s >= ThresholdOf(c)
          /\ (cur \in known /\ s <= score[cur].peak) \/ cur \in stopped'
    BY <1>8 DEF CaseOpened
  <2>2. /\ DOMAIN cases' = 1..(Len(cases) + 1)
        /\ \A i \in 1..Len(cases) : cases'[i] = cases[i]
        /\ cases'[Len(cases) + 1].pid = cur /\ cases'[Len(cases) + 1].dir = c
    BY <1>1, <2>1 DEF NewCase
  <2>3. cur \in stopped' \/ (cur \in known' /\ score'[cur].peak >= ThresholdOf(c))
    <3>1. CASE cur \in known /\ s <= score[cur].peak
      <4>1. cur \in known' /\ score[cur].peak <= score'[cur].peak
        BY <1>2, <3>1 DEF Grows
      <4>2. s \in Int /\ ThresholdOf(c) \in Int
        BY ThresholdTyped, PercentFacts
      <4> QED BY <1>4, <1>5, <2>1, <3>1, <4>1, <4>2
    <3> QED BY <2>1, <3>1
  <2> QED BY <1>6, <2>2, <2>3 DEF CaseJustified, ThresholdOf
<1> QED BY <1>7, <1>8, TableStep

\* The pending reports stay justified, the new ones are: rw_score_add reports the score it
\* has just stored, a detector its detail only to a case that exists.
LEMMA PendingStep ==
  ASSUME TypeOK, PendingJustified, [Next]_vars
  PROVE  PendingJustified'
<1>1. TypeOK' /\ Grows
  BY NextTyped, StepGrows
<1>2. work \in Seq(JustifiedCalls)
  BY PendingAsType
<1>3. CasesKept
  BY TableStep, OpenedKept DEF TypeOK
<1> DEFINE J == JustifiedCalls'
<1>4. SUFFICES work' \in Seq(J)
  BY DEF PendingJustified, JustifiedCalls, Justified
<1>5. \A call \in Calls : call.op # "event" => call \in J
  BY DEF JustifiedCalls, Justified
<1>6. ASSUME NEW s \in Percent, NEW c \in Configs, cur' = cur,
             HasCase(cur) \/ CaseOpened
      PROVE  Event(s, c) \in J
  <2>1. \E i \in 1..Len(cases') : cases'[i].pid = cur
    <3>1. CASE HasCase(cur)
      BY <1>3, <3>1, HasCaseKept DEF TypeOK, CaseSlots
    <3>2. CASE CaseOpened
      BY <3>2, OpenedKept DEF TypeOK
    <3> QED BY <1>6, <3>1, <3>2
  <2>2. HasCase(cur)'
    BY <1>6, <2>1 DEF HasCase, CaseSlots
  <2> QED BY <2>2, CallTyped DEF JustifiedCalls, Justified
<1>7. CASE cur' = cur /\ ~Detection
  <2>1. ASSUME NEW call \in JustifiedCalls
        PROVE  call \in J
    <3>1. call \in Calls /\ Justified(call)
      BY DEF JustifiedCalls
    <3>2. CASE call.op # "event"
      BY <1>5, <3>1, <3>2
    <3>3. CASE HasCase(cur)
      <4>1. CaseSlots(cur)' # {}
        BY <1>3, <1>7, <3>3, HasCaseKept DEF TypeOK, CaseSlots
      <4> QED BY <3>1, <4>1 DEF JustifiedCalls, Justified, HasCase
    <3>4. CASE call.op = "event" /\ cur \in known /\ call.score <= score[cur].peak
      <4>1. cur \in known' /\ score[cur].peak <= score'[cur].peak
        BY <1>1, <3>4 DEF Grows
      <4>2. call.score \in Int
        BY <3>1, <3>4, CallArguments, PercentFacts
      <4>3. score[cur].peak \in Int /\ score'[cur].peak \in Int
        BY <1>1, <1>7, FieldTypes DEF TypeOK
      <4> QED BY <1>7, <3>1, <3>4, <4>1, <4>2, <4>3 DEF JustifiedCalls, Justified
    <3> QED BY <3>1, <3>2, <3>3, <3>4 DEF Justified
  <2>2. work \in Seq(J)
    BY <1>2, <2>1
  <2>3. \A op : Running(op) => /\ Head(work) \in Calls /\ Head(work).op = op
                               /\ Tail(work) \in Seq(J)
    BY <2>2, HeadTail DEF Running, TypeOK
  <2>4. UNCHANGED work => work' \in Seq(J)
    BY <2>2
  <2> HIDE DEF J
  <2>5. CASE ScoreAdd
    <3>1. Running("add") /\ Tail(work) \in Seq(J)
      BY <2>3, <2>5 DEF ScoreAdd
    <3>2. CASE /\ known' = known \union {cur}
               /\ score' = [score EXCEPT ![cur] = [NewScore EXCEPT
                              !.opened = @ \/ CrossesThreshold(NewScore.score, Head(work).cfg)]]
               /\ work' = ReportCalls(NewScore.score, Head(work).cfg) \o Tail(work)
      <4> DEFINE over == CrossesThreshold(NewScore.score, Head(work).cfg)
                 new == [NewScore EXCEPT !.opened = @ \/ over]
      <4>1. /\ NewScore \in ProcScores /\ Head(work).cfg \in Configs
            /\ NewScore.score <= NewScore.peak
        BY <3>1, ScoreAddFacts DEF Bounded
      <4>2. over \in BOOLEAN
        BY DEF CrossesThreshold
      <4>3. new.peak = NewScore.peak
        <5> HIDE DEF over
        <5> QED BY <4>1, <4>2, OpenedTyped
      <4>4. score' = [score EXCEPT ![cur] = new]
        BY <3>2
      <4> HIDE DEF new
      <4>5. cur \in known' /\ NewScore.score <= score'[cur].peak
        BY <3>2, <4>1, <4>3, <4>4 DEF TypeOK
      <4>6. Event(NewScore.score, Head(work).cfg) \in Calls
        BY <4>1, CallTyped, FieldTypes, PercentFacts
      <4>7. Event(NewScore.score, Head(work).cfg) \in J
        BY <1>7, <4>5, <4>6 DEF J, JustifiedCalls, Justified, Event
      <4>8. ReportCalls(NewScore.score, Head(work).cfg) \in Seq(J)
        BY <4>7 DEF ReportCalls
      <4> QED BY <3>1, <3>2, <4>8
    <3>3. CASE work' = Tail(work)
      BY <3>1, <3>3
    <3> QED BY <2>5, <3>2, <3>3, ScoreAddCases
  <2>6. CASE CaseDetail
    <3>1. /\ Tail(work) \in Seq(J) /\ Head(work).score \in Percent
          /\ Head(work).cfg \in Configs
      BY <2>3, <2>6, CallArguments DEF CaseDetail
    <3>2. CASE HasCase(cur)
      <4>1. Event(Head(work).score, Head(work).cfg) \in J
        BY <1>6, <1>7, <3>1, <3>2
      <4> QED BY <2>6, <3>1, <3>2, <4>1, Push DEF CaseDetail
    <3>3. CASE ~HasCase(cur)
      BY <2>6, <3>1, <3>3 DEF CaseDetail
    <3> QED BY <3>2, <3>3
  <2>7. CASE CaseEvent
    <3> DEFINE s == Head(work).score
               c == Head(work).cfg
    <3>1. Tail(work) \in Seq(J) /\ s \in Percent /\ c \in Configs
      BY <2>3, <2>7, CallArguments DEF CaseEvent
    <3>2. CaseLog \in J /\ MemScan(c, MaxMappings) \in J
      BY <1>5, <3>1, CallTyped, ScoreCaseAssumption DEF CaseLog, MemScan, J
    <3>3. <<CaseLog>> \o Tail(work) \in Seq(J)
      BY <3>1, <3>2, Push
    <3>4. <<MemScan(c, MaxMappings)>> \o (<<CaseLog>> \o Tail(work)) \in Seq(J)
      BY <3>2, <3>3, Push
    <3>5. GetOrCreateCase(s, c, <<CaseLog>> \o Tail(work), Tail(work))
      BY <2>7 DEF CaseEvent
    <3> HIDE DEF s, c
    <3> QED BY <3>1, <3>3, <3>4, <3>5, GetOrCreateOutcomes
  <2>8. CASE LogCaseEvent \/ EndScan
    BY <2>3, <2>8 DEF LogCaseEvent, EndScan
  <2>9. ASSUME NEW f \in MemoryFindings, ScanMemory(f)
        PROVE  work' \in Seq(J)
    <3> DEFINE rest == [Head(work) EXCEPT !.left = @ - 1]
               add  == Add(f, Head(work).cfg)
    <3>1. /\ Head(work) \in Calls /\ Head(work).op \in {"memscan", "maps"}
          /\ Head(work).left > 0 /\ Tail(work) \in Seq(J) /\ Head(work).op = "memscan"
      BY <2>3, <2>9 DEF ScanMemory
    <3>2. rest \in Calls /\ rest.op = "memscan"
      BY <3>1, ScanContinues
    <3>3. Head(work).cfg \in Configs /\ f \in Findings
      BY <3>1, CallArguments, CatalogTyped
    <3>4. add \in Calls /\ add.op = "add"
      BY <3>3, CallTyped DEF Add
    <3>5. work' = <<add, rest>> \o Tail(work)
      BY <2>9 DEF ScanMemory
    <3> HIDE DEF rest, add
    <3>6. add \in J /\ rest \in J
      BY <1>5, <3>2, <3>4 DEF J
    <3> QED BY <3>1, <3>5, <3>6
  <2>10. ASSUME NEW f \in MapFindings, ScanMaps(f)
        PROVE  work' \in Seq(J)
    <3> DEFINE rest == [Head(work) EXCEPT !.left = @ - 1]
               add  == Add(f, Head(work).cfg)
               detail == Detail(80, Head(work).cfg)
    <3>1. /\ Head(work) \in Calls /\ Head(work).op \in {"memscan", "maps"}
          /\ Head(work).left > 0 /\ Tail(work) \in Seq(J) /\ Head(work).op = "maps"
      BY <2>3, <2>10 DEF ScanMaps
    <3>2. rest \in Calls /\ rest.op = "maps"
      BY <3>1, ScanContinues
    <3>3. Head(work).cfg \in Configs /\ f \in Findings /\ 80 \in Percent
      <4>1. Head(work).cfg \in Configs
        BY <3>1, CallArguments
      <4> QED BY <4>1, CatalogTyped, PercentFacts
    <3>4. add \in Calls /\ add.op = "add" /\ detail \in Calls /\ detail.op = "detail"
      BY <3>3, CallTyped DEF Add, Detail
    <3>5. work' = <<add, detail, rest>> \o Tail(work)
      BY <2>10 DEF ScanMaps
    <3> HIDE DEF rest, add, detail
    <3>6. add \in J /\ detail \in J /\ rest \in J
      BY <1>5, <3>2, <3>4 DEF J
    <3> QED BY <3>1, <3>5, <3>6
  <2>11. CASE ScanStatus
    <3>1. Tail(work) \in Seq(J) /\ Head(work).cfg \in Configs
      BY <2>3, <2>11, CallArguments DEF ScanStatus
    <3>2. TracedFinding \in Findings /\ 90 \in Percent
      BY CatalogTyped, PercentFacts
    <3>3. Add(TracedFinding, Head(work).cfg) \in Calls /\ Detail(90, Head(work).cfg) \in Calls
      BY <3>1, <3>2, CallTyped
    <3>4. Add(TracedFinding, Head(work).cfg) \in J /\ Detail(90, Head(work).cfg) \in J
      BY <1>5, <3>3 DEF Add, Detail, J
    <3> QED BY <2>11, <3>1, <3>4 DEF ScanStatus
  <2>12. CASE NoMaps
    BY <2>2, <2>12 DEF NoMaps
  <2>13. CASE StopProcess
    <3>1. Tail(work) \in Seq(J)
      BY <2>3, <2>13 DEF StopProcess
    <3>2. 100 \in Percent /\ "cfg" \in Configs
      BY PercentFacts DEF Configs
    <3>3. GetOrCreateCase(100, "cfg", <<Event(100, "cfg")>> \o Tail(work), Tail(work))
      BY <2>13 DEF StopProcess
    <3>4. CASE work' = Tail(work)
      BY <3>1, <3>4
    <3>5. CASE HasCase(cur) /\ work' = <<Event(100, "cfg")>> \o Tail(work)
      <4>1. Event(100, "cfg") \in J
        BY <1>6, <1>7, <3>2, <3>5
      <4> QED BY <3>1, <3>5, <4>1, Push
    <3>6. CASE /\ ~HasCase(cur) /\ 100 >= ThresholdOf("cfg")
               /\ cases' = Append(cases, NewCase(100, "cfg"))
               /\ work' = <<MemScan("cfg", MaxMappings)>> \o (<<Event(100, "cfg")>> \o Tail(work))
      <4>1. CaseOpened
        BY <2>13, <3>2, <3>6 DEF CaseOpened, StopProcess
      <4>2. Event(100, "cfg") \in J
        BY <1>6, <1>7, <3>2, <4>1
      <4>3. MemScan("cfg", MaxMappings) \in J
        BY <1>5, <3>2, CallTyped, ScoreCaseAssumption DEF MemScan, J
      <4>4. <<Event(100, "cfg")>> \o Tail(work) \in Seq(J)
        BY <3>1, <4>2, Push
      <4> QED BY <3>6, <4>3, <4>4, Push
    <3> QED BY <3>2, <3>3, <3>4, <3>5, <3>6, GetOrCreateOutcomes
  <2>14. CASE DecayAll \/ WhitelistPoll \/ Tick \/ UNCHANGED vars
    BY <2>4, <2>14 DEF DecayAll, WhitelistPoll, Tick, vars
  <2> QED BY <1>7, <2>5, <2>6, <2>7, <2>8, <2>9, <2>10, <2>11, <2>12, <2>13, <2>14
          DEF Next, Step
<1>8. CASE Detection
  <2>1. PICK pid \in Pids, calls \in Seq(StartCalls) : Handle(pid, calls)
    BY <1>8, DetectionCalls
  <2>2. StartCalls \subseteq J
    BY SMTT(30), <1>5 DEF StartCalls
  <2> HIDE DEF J
  <2> QED BY <2>1, <2>2 DEF Handle
<1>9. Detection \/ cur' = cur
  BY DEF Next, Step, ScoreAdd, CaseDetail, CaseEvent, LogCaseEvent, ScanMemory, ScanMaps,
         ScanStatus, NoMaps, EndScan, StopProcess, DecayAll, WhitelistPoll, Tick, vars
<1> QED BY <1>7, <1>8, <1>9

\* A process has at most one case, although create_case is entered from rw_score_add and
\* calls it again while the new case is being documented.
THEOREM OneCase == Spec => []OneCasePerProcess
<1>1. Init => PendingJustified /\ OneCasePerProcess
  BY DEF Init, PendingJustified, OneCasePerProcess
<1>2. TypeOK /\ PendingJustified /\ OneCasePerProcess /\ [Next]_vars
        => PendingJustified' /\ OneCasePerProcess'
  BY PendingStep, OneCaseStep
<1> QED BY <1>1, <1>2, TypeCorrect, PTL DEF Spec

\* Whatever the detectors report, a case exists only of a process that was stopped or whose
\* risk reached the threshold of the configuration it was reported under.
THEOREM CasesAreJustified == Spec => [](PendingJustified /\ CaseJustified)
<1>1. Init => PendingJustified /\ CaseJustified
  BY DEF Init, PendingJustified, CaseJustified
<1>2. TypeOK /\ PendingJustified /\ CaseJustified /\ [Next]_vars
        => PendingJustified' /\ CaseJustified'
  BY PendingStep, JustifiedStep
<1> QED BY <1>1, <1>2, TypeCorrect, PTL DEF Spec
=============================================================================
