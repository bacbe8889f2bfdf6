--------------------------- MODULE ScoreCaseReports ---------------------------
(***************************************************************************)
(* What the score and the case of a process tell about it: a snapshot is   *)
(* taken once, summaries state the risk of their own parts and are up to   *)
(* date, and no crossing of the threshold and no SIGSTOP is left without a *)
(* case.  Each rests on what the call that runs next makes up for, as the  *)
(* promise is broken between rw_score_add and the end of rw_case_event.    *)
(***************************************************************************)
EXTENDS ScoreCaseProofs

(***************************************************************************)
(* Facts about single steps                                                *)
(***************************************************************************)
\* The record that rw_score_add stores for cur.
StoredScore == [NewScore EXCEPT !.opened = @ \/ CrossesThreshold(NewScore.score, Head(work).cfg)]

\* rw_score_add for a process that has a slot or gets one: what is stored, and reported.
LEMMA StoredFacts ==
  ASSUME TypeOK, ScoreAdd, ~UNCHANGED <<known, score>>
  PROVE  /\ known' = known \union {cur}
         /\ score' = [score EXCEPT ![cur] = StoredScore]
         /\ score'[cur] = StoredScore
         /\ work' = ReportCalls(StoredScore.score, Head(work).cfg) \o Tail(work)
         /\ StoredScore.score = Risk(StoredScore.cat, StoredScore.flags, StoredScore.floor)
         /\ StoredScore.peak \in {OldScore.peak, StoredScore.score}
         /\ StoredScore.score \in Percent
         /\ Head(work).cfg \in Configs /\ Tail(work) \in Seq(Calls)
<1> DEFINE over == CrossesThreshold(NewScore.score, Head(work).cfg)
<1>1. Running("add")
  BY DEF ScoreAdd
<1>2. /\ Head(work).cfg \in Configs /\ NewScore \in ProcScores
      /\ NewScore.score = Risk(NewScore.cat, NewScore.flags, NewScore.floor)
      /\ NewScore.peak \in {OldScore.peak, NewScore.score}
  BY <1>1, ScoreAddFacts
<1>3. over \in BOOLEAN
  BY DEF CrossesThreshold
<1>4. /\ known' = known \union {cur}
      /\ score' = [score EXCEPT ![cur] = StoredScore]
      /\ work' = ReportCalls(NewScore.score, Head(work).cfg) \o Tail(work)
  BY ScoreAddCases DEF StoredScore
<1>5. score'[cur] = StoredScore
  BY <1>4 DEF TypeOK
<1>6. StoredScore = [NewScore EXCEPT !.opened = @ \/ over]
  BY DEF StoredScore
<1> HIDE DEF over
<1>7. /\ StoredScore.cat = NewScore.cat /\ StoredScore.flags = NewScore.flags
      /\ StoredScore.floor = NewScore.floor /\ StoredScore.score = NewScore.score
      /\ StoredScore.peak = NewScore.peak
  BY <1>2, <1>3, <1>6, OpenedTyped
<1>8. NewScore.score \in Percent
  BY <1>2 DEF ProcScores
<1>9. Tail(work) \in Seq(Calls)
  BY <1>1, HeadTail DEF TypeOK, Running
<1> QED BY SMTT(30), <1>2, <1>4, <1>5, <1>7, <1>8, <1>9

\* The steps that touch neither scores nor cases nor summaries.
QuietStep ==
  \/ CaseDetail \/ ScanStatus \/ NoMaps \/ EndScan
  \/ \E f \in MemoryFindings : ScanMemory(f)
  \/ \E f \in MapFindings : ScanMaps(f)

LEMMA QuietFacts ==
  ASSUME QuietStep
  PROVE  UNCHANGED <<known, score, cases, cur, stopped, summary, refused>>
BY DEF QuietStep, CaseDetail, ScanStatus, NoMaps, EndScan, ScanMemory, ScanMaps

\* A round between two detections: a detection begins, or nothing is pending.
LEMMA OtherFacts ==
  ASSUME Detection \/ DecayAll \/ WhitelistPoll
  PROVE  /\ work = <<>>
         /\ UNCHANGED <<known, cases, stopped, summary, refused>>
<1>1. CASE Detection
  <2>1. PICK pid, calls : pid \in Pids /\ Handle(pid, calls)
    BY <1>1 DEF Detection, RawSocketAlert, SynScanAlert, TrackUpdate, EbpfConnect,
                EbpfSocket, SyscallAlert, FileTouched, InjectionScan
  <2> QED BY <2>1 DEF Handle
<1>2. CASE DecayAll \/ WhitelistPoll
  BY <1>2 DEF DecayAll, WhitelistPoll
<1> QED BY <1>1, <1>2

\* What every step is, apart from the passing of time.
LEMMA StepCases ==
  ASSUME [Next]_vars
  PROVE  \/ ScoreAdd \/ CaseEvent \/ LogCaseEvent \/ StopProcess \/ QuietStep
         \/ Detection \/ DecayAll \/ WhitelistPoll
         \/ UNCHANGED <<known, score, cases, work, cur, stopped, summary, refused>>
BY DEF Next, Step, QuietStep, Tick, vars

\* The call that runs next is well formed, and so are the ones behind it.
LEMMA RunningFacts ==
  ASSUME TypeOK, NEW op, Running(op)
  PROVE  /\ work \in Seq(Calls) /\ work # <<>> /\ Head(work) = work[1] /\ Head(work) \in Calls
         /\ Head(work).op = op /\ Tail(work) \in Seq(Calls)
         /\ Len(work) \in Nat /\ Len(Tail(work)) = Len(work) - 1
         /\ \A i \in 1..Len(Tail(work)) : Tail(work)[i] = work[i + 1]
BY HeadTail DEF TypeOK, Running

\* Both callers of get_or_create_case pass it a score and a configuration, and continue with
\* one more call of their own.
LEMMA CallerFacts ==
  ASSUME TypeOK, CaseEvent \/ StopProcess
  PROVE  \E s \in Percent, c \in Configs, x \in Calls :
           /\ x.op \in {"log", "event"}
           /\ CaseEvent => /\ x = CaseLog /\ Running("event")
                           /\ s = Head(work).score /\ c = Head(work).cfg
           /\ StopProcess => s = 100 /\ c = "cfg" /\ x = Event(100, "cfg")
           /\ GetOrCreateCase(s, c, <<x>> \o Tail(work), Tail(work))
           /\ Tail(work) \in Seq(Calls)
<1>1. CASE CaseEvent
  <2>1. Running("event") /\ Tail(work) \in Seq(Calls) /\ Head(work) \in Calls
        /\ Head(work).op = "event"
    BY <1>1, RunningFacts DEF CaseEvent
  <2>2. Head(work).score \in Percent /\ Head(work).cfg \in Configs
    BY <2>1, CallArguments
  <2>3. CaseLog \in Calls /\ CaseLog.op = "log" /\ ~StopProcess
    BY <2>1, CallTyped DEF CaseLog, StopProcess, Running
  <2> QED BY <1>1, <2>1, <2>2, <2>3 DEF CaseEvent
<1>2. CASE StopProcess
  <2>1. Running("stop") /\ Tail(work) \in Seq(Calls)
    BY <1>2, RunningFacts DEF StopProcess
  <2>2. 100 \in Percent /\ "cfg" \in Configs
    BY PercentFacts DEF Configs
  <2>3. Event(100, "cfg") \in Calls /\ Event(100, "cfg").op = "event" /\ ~CaseEvent
    BY <2>1, <2>2, CallTyped DEF Event, CaseEvent, Running
  <2> QED BY <1>2, <2>1, <2>2, <2>3 DEF StopProcess
<1> QED BY <1>1, <1>2

-----------------------------------------------------------------------------
(***************************************************************************)
(* One snapshot at a time                                                  *)
(***************************************************************************)
\* Calls of which at most one, of a process with a case, takes a snapshot.
OneSnapshot(calls) ==
  \A i, j \in 1..Len(calls) : calls[i].op = "memscan" /\ calls[j].op = "memscan" => i = j

NoSnapshot(calls) == \A i \in 1..Len(calls) : calls[i].op # "memscan"

\* The elements of a concatenation, by index.
LEMMA Concatenation ==
  ASSUME NEW S, NEW s \in Seq(S), NEW t \in Seq(S)
  PROVE  /\ s \o t \in Seq(S) /\ Len(s) \in Nat /\ Len(t) \in Nat
         /\ Len(s \o t) = Len(s) + Len(t)
         /\ \A i \in 1..Len(s \o t) :
              \/ i \in 1..Len(s) /\ (s \o t)[i] = s[i]
              \/ i - Len(s) \in 1..Len(t) /\ (s \o t)[i] = t[i - Len(s)]
OBVIOUS

\* Nothing comes in front.
LEMMA NothingInFront ==
  ASSUME NEW s \in Seq(Calls)
  PROVE  s = <<>> \o s
OBVIOUS

\* Calls that take no snapshot may come in front of the others.
LEMMA QuietInFront ==
  ASSUME NEW front \in Seq(Calls), NEW rest \in Seq(Calls), NoSnapshot(front), OneSnapshot(rest)
  PROVE  /\ OneSnapshot(front \o rest)
         /\ NoSnapshot(rest) => NoSnapshot(front \o rest)
<1>1. /\ Len(front) \in Nat /\ Len(rest) \in Nat /\ Len(front \o rest) \in Nat
      /\ \A i \in 1..Len(front \o rest) :
           \/ i \in 1..Len(front) /\ (front \o rest)[i] = front[i]
           \/ i - Len(front) \in 1..Len(rest) /\ (front \o rest)[i] = rest[i - Len(front)]
  BY Concatenation
<1> DEFINE both == front \o rest
<1> HIDE DEF both
<1>2. ASSUME NEW i \in 1..Len(both), both[i].op = "memscan"
      PROVE  i - Len(front) \in 1..Len(rest) /\ rest[i - Len(front)].op = "memscan"
  BY <1>1, <1>2 DEF NoSnapshot, both
<1>3. OneSnapshot(both)
  <2> SUFFICES ASSUME NEW i \in 1..Len(both), NEW j \in 1..Len(both),
                      both[i].op = "memscan", both[j].op = "memscan"
               PROVE  i = j
    BY DEF OneSnapshot
  <2>1. i - Len(front) = j - Len(front)
    BY <1>2 DEF OneSnapshot
  <2> QED BY <1>1, <2>1 DEF both
<1>4. NoSnapshot(rest) => NoSnapshot(both)
  BY <1>2 DEF NoSnapshot
<1> QED BY <1>3, <1>4 DEF both

\* One call that may take a snapshot, in front of calls that take none.
LEMMA SnapshotInFront ==
  ASSUME NEW call \in Calls, NEW rest \in Seq(Calls), NoSnapshot(rest)
  PROVE  OneSnapshot(<<call>> \o rest) /\ <<call>> \o rest \in Seq(Calls)
<1>1. /\ Len(<<call>>) = 1 /\ <<call>> \in Seq(Calls)
  OBVIOUS
<1>2. /\ Len(<<call>> \o rest) \in Nat /\ Len(rest) \in Nat
      /\ <<call>> \o rest \in Seq(Calls)
      /\ \A i \in 1..Len(<<call>> \o rest) :
           i = 1 \/ (i - 1 \in 1..Len(rest) /\ (<<call>> \o rest)[i] = rest[i - 1])
  BY <1>1, Concatenation
<1> QED BY <1>2 DEF OneSnapshot, NoSnapshot

\* Short sequences of calls that take no snapshot.
LEMMA QuietCalls ==
  ASSUME NEW x \in Calls, x.op # "memscan"
  PROVE  /\ <<>> \in Seq(Calls) /\ NoSnapshot(<<>>)
         /\ <<x>> \in Seq(Calls) /\ NoSnapshot(<<x>>)
         /\ \A y \in Calls : y.op # "memscan" =>
              /\ <<x, y>> \in Seq(Calls) /\ NoSnapshot(<<x, y>>)
              /\ \A z \in Calls : z.op # "memscan" =>
                   <<x, y, z>> \in Seq(Calls) /\ NoSnapshot(<<x, y, z>>)
<1>1. NoSnapshot(<<>>) /\ NoSnapshot(<<x>>)
  BY DEF NoSnapshot
<1>2. ASSUME NEW y \in Calls, y.op # "memscan"
      PROVE  NoSnapshot(<<x, y>>)
  BY <1>2 DEF NoSnapshot
<1>3. ASSUME NEW y \in Calls, y.op # "memscan", NEW z \in Calls, z.op # "memscan"
      PROVE  NoSnapshot(<<x, y, z>>)
  BY <1>3 DEF NoSnapshot
<1> QED BY <1>1, <1>2, <1>3

\* No snapshot is begun while one is made, because the process has its case by then.
LEMMA SnapshotStep ==
  ASSUME TypeOK, PendingJustified, NoNestedSnapshot, [Next]_vars
  PROVE  NoNestedSnapshot'
<1>1. TypeOK' /\ CasesKept
  BY NextTyped, TableStep, OpenedKept DEF TypeOK
<1>2. work \in Seq(Calls) /\ work' \in Seq(Calls)
  BY <1>1 DEF TypeOK
<1>3. OneSnapshot(work) /\ (NoSnapshot(work) \/ HasCase(cur))
  BY <1>2 DEF NoNestedSnapshot, OneSnapshot, NoSnapshot
<1>4. SUFFICES OneSnapshot(work') /\ (NoSnapshot(work') \/ HasCase(cur)')
  BY <1>2 DEF NoNestedSnapshot, OneSnapshot, NoSnapshot
<1>5. cur' = cur /\ HasCase(cur) => HasCase(cur)'
  BY <1>1, HasCaseKept DEF TypeOK, HasCase, CaseSlots
<1>6. \A op : Running(op) => /\ OneSnapshot(Tail(work))
                             /\ NoSnapshot(work) \/ op = "memscan" => NoSnapshot(Tail(work))
  <2> SUFFICES ASSUME NEW op, Running(op)
               PROVE  /\ OneSnapshot(Tail(work))
                      /\ NoSnapshot(work) \/ op = "memscan" => NoSnapshot(Tail(work))
    OBVIOUS
  <2> QED BY <1>3, RunningFacts DEF OneSnapshot, NoSnapshot
\* Calls that take no snapshot come in front of what is left of the pending ones.
<1>7. ASSUME NEW front \in Seq(Calls), NoSnapshot(front), NEW op, Running(op), cur' = cur,
             work' = front \o Tail(work)
      PROVE  OneSnapshot(work') /\ (NoSnapshot(work') \/ HasCase(cur)')
  <2>1. Tail(work) \in Seq(Calls) /\ OneSnapshot(Tail(work))
    BY <1>6, <1>7, RunningFacts
  <2>2. OneSnapshot(work')
    BY <1>7, <2>1, QuietInFront
  <2>3. NoSnapshot(work) => NoSnapshot(work')
    BY <1>6, <1>7, <2>1, QuietInFront
  <2> QED BY <1>3, <1>5, <1>7, <2>2, <2>3
<1>8. CASE ScoreAdd
  <2>1. Running("add") /\ cur' = cur
    BY <1>8 DEF ScoreAdd
  <2>2. Head(work).cfg \in Configs /\ NewScore \in ProcScores
    BY <2>1, ScoreAddFacts
  <2>3. PICK front \in {<<>>, ReportCalls(NewScore.score, Head(work).cfg)} :
          work' = front \o Tail(work)
    BY <1>8, <2>1, RunningFacts, ScoreAddCases, NothingInFront
  <2>4. NewScore.score \in Percent
    BY <2>2 DEF ProcScores
  <2>5. /\ Event(NewScore.score, Head(work).cfg) \in Calls
        /\ Event(NewScore.score, Head(work).cfg).op = "event"
    BY <2>2, <2>4, CallTyped DEF Event
  <2>6. front \in Seq(Calls) /\ NoSnapshot(front)
    BY <2>5, QuietCalls DEF ReportCalls
  <2> QED BY <1>7, <2>1, <2>3, <2>6
<1>9. CASE CaseEvent \/ StopProcess
  <2>1. PICK s \in Percent, c \in Configs, x \in Calls :
          /\ x.op \in {"log", "event"} /\ Tail(work) \in Seq(Calls)
          /\ GetOrCreateCase(s, c, <<x>> \o Tail(work), Tail(work))
    BY <1>9, CallerFacts
  <2>2. PICK op : Running(op) /\ cur' = cur
    BY <1>9 DEF CaseEvent, StopProcess
  <2>3. CASE work' = <<x>> \o Tail(work)
    <3>1. <<x>> \in Seq(Calls) /\ NoSnapshot(<<x>>)
      BY <2>1, QuietCalls
    <3> QED BY <1>7, <2>2, <2>3, <3>1
  <2>4. CASE work' = Tail(work)
    <3>1. <<>> \in Seq(Calls) /\ NoSnapshot(<<>>) /\ work' = <<>> \o Tail(work)
      BY <2>1, <2>4, QuietCalls, NothingInFront
    <3> QED BY <1>7, <2>2, <3>1
  <2>5. CASE /\ ~HasCase(cur)
             /\ cases' = Append(cases, NewCase(s, c))
             /\ work' = <<MemScan(c, MaxMappings)>> \o (<<x>> \o Tail(work))
    <3>1. NoSnapshot(Tail(work))
      BY <1>3, <1>6, <2>2, <2>5
    <3>2. OneSnapshot(work')
      <4>1. <<x>> \o Tail(work) \in Seq(Calls) /\ NoSnapshot(<<x>> \o Tail(work))
        BY <1>6, <2>1, <2>2, <3>1, QuietCalls, QuietInFront, Push
      <4>2. MemScan(c, MaxMappings) \in Calls
        BY <2>1, CallTyped, ScoreCaseAssumption
      <4> QED BY <2>5, <4>1, <4>2, SnapshotInFront
    <3>3. HasCase(cur)'
      BY SMTT(30), <2>2, <2>5 DEF TypeOK, HasCase, CaseSlots, NewCase
    <3> QED BY <3>2, <3>3
  <2> QED BY <2>1, <2>3, <2>4, <2>5, GetOrCreateOutcomes
<1>10. CASE LogCaseEvent \/ EndScan
  <2>1. PICK op : Running(op) /\ cur' = cur /\ work' = Tail(work)
    BY <1>10 DEF LogCaseEvent, EndScan
  <2>2. <<>> \in Seq(Calls) /\ NoSnapshot(<<>>) /\ work' = <<>> \o Tail(work)
    BY <2>1, RunningFacts, NothingInFront DEF NoSnapshot
  <2> QED BY <1>7, <2>1, <2>2
<1>11. CASE CaseDetail
  <2> DEFINE x == Event(Head(work).score, Head(work).cfg)
  <2>1. Running("detail") /\ cur' = cur
    BY <1>11 DEF CaseDetail
  <2>2. x \in Calls /\ x.op = "event"
    BY <2>1, RunningFacts, CallArguments, CallTyped DEF Event
  <2>3. PICK front \in {<<x>>, <<>>} : work' = front \o Tail(work)
    BY <1>11, <2>1, RunningFacts, NothingInFront DEF CaseDetail
  <2> HIDE DEF x
  <2>4. front \in Seq(Calls) /\ NoSnapshot(front)
    BY <2>2, QuietCalls
  <2> QED BY <1>7, <2>1, <2>3, <2>4
<1>12. ASSUME NEW f \in MemoryFindings, ScanMemory(f)
       PROVE  OneSnapshot(work') /\ (NoSnapshot(work') \/ HasCase(cur)')
  <2> DEFINE rest == [Head(work) EXCEPT !.left = @ - 1]
             add  == Add(f, Head(work).cfg)
  <2>1. Running("memscan") /\ cur' = cur /\ work' = <<add, rest>> \o Tail(work)
    BY <1>12 DEF ScanMemory
  <2>2. add \in Calls /\ add.op = "add" /\ rest \in Calls
    <3>1. Head(work) \in Calls /\ Head(work).op = "memscan" /\ Head(work).left > 0
      BY <1>12, <2>1, RunningFacts DEF ScanMemory
    <3>2. Head(work).cfg \in Configs /\ f \in Findings /\ rest \in Calls
      BY <3>1, CallArguments, ScanContinues, CatalogTyped
    <3> QED BY <3>2, CallTyped DEF Add
  <2> HIDE DEF rest, add
  <2>3. NoSnapshot(Tail(work)) /\ Tail(work) \in Seq(Calls)
    BY <1>6, <2>1, RunningFacts
  <2>4. OneSnapshot(work')
    <3>1. work' = <<add>> \o (<<rest>> \o Tail(work))
      BY <2>1, <2>2, <2>3
    <3>2. OneSnapshot(<<rest>> \o Tail(work)) /\ <<rest>> \o Tail(work) \in Seq(Calls)
      BY <2>2, <2>3, SnapshotInFront
    <3> QED BY <2>2, <3>1, <3>2, QuietInFront, QuietCalls
  <2>5. HasCase(cur)
    BY <1>3, <2>1, RunningFacts DEF NoSnapshot
  <2> QED BY <1>5, <2>1, <2>4, <2>5
<1>13. ASSUME NEW f \in MapFindings, ScanMaps(f)
       PROVE  OneSnapshot(work') /\ (NoSnapshot(work') \/ HasCase(cur)')
  <2> DEFINE rest == [Head(work) EXCEPT !.left = @ - 1]
             add  == Add(f, Head(work).cfg)
             detail == Detail(80, Head(work).cfg)
  <2>1. Running("maps") /\ cur' = cur /\ work' = <<add, detail, rest>> \o Tail(work)
        /\ Head(work).left > 0
    BY <1>13 DEF ScanMaps
  <2>2. rest \in Calls /\ rest.op = "maps"
    BY <2>1, RunningFacts, ScanContinues
  <2>3. Head(work).cfg \in Configs /\ f \in Findings /\ 80 \in Percent
    <3>1. Head(work).cfg \in Configs
      BY <2>1, RunningFacts, CallArguments
    <3> QED BY <3>1, CatalogTyped, PercentFacts
  <2>4. add \in Calls /\ add.op = "add" /\ detail \in Calls /\ detail.op = "detail"
    BY <2>3, CallTyped DEF Add, Detail
  <2> HIDE DEF rest, add, detail
  <2>5. <<add, detail, rest>> \in Seq(Calls) /\ NoSnapshot(<<add, detail, rest>>)
    BY <2>2, <2>4, QuietCalls
  <2> QED BY <1>7, <2>1, <2>5
<1>14. CASE ScanStatus
  <2> DEFINE add  == Add(TracedFinding, Head(work).cfg)
             detail == Detail(90, Head(work).cfg)
  <2>1. Running("status") /\ cur' = cur /\ work' = <<add, detail>> \o Tail(work)
    BY <1>14 DEF ScanStatus
  <2>2. Head(work).cfg \in Configs /\ TracedFinding \in Findings /\ 90 \in Percent
    <3>1. Head(work).cfg \in Configs
      BY <2>1, RunningFacts, CallArguments
    <3> QED BY <3>1, CatalogTyped, PercentFacts
  <2>3. add \in Calls /\ add.op = "add" /\ detail \in Calls /\ detail.op = "detail"
    BY <2>2, CallTyped DEF Add, Detail
  <2> HIDE DEF add, detail
  <2>4. <<add, detail>> \in Seq(Calls) /\ NoSnapshot(<<add, detail>>)
    BY <2>3, QuietCalls
  <2> QED BY <1>7, <2>1, <2>4
<1>15. CASE NoMaps
  <2>1. work' = SubSeq(work, 3, Len(work)) /\ cur' = cur
    BY <1>15 DEF NoMaps
  <2>2. Len(work) \in Nat /\ Len(work') \in Nat
        /\ \A i \in 1..Len(work') : i + 2 \in 1..Len(work) /\ work'[i] = work[i + 2]
    BY <1>2, <2>1
  <2>3. NoSnapshot(work) => NoSnapshot(work')
    BY <2>2 DEF NoSnapshot
  <2>4. OneSnapshot(work')
    <3> SUFFICES ASSUME NEW i \in 1..Len(work'), NEW j \in 1..Len(work'),
                        work'[i].op = "memscan", work'[j].op = "memscan"
                 PROVE  i = j
      BY DEF OneSnapshot
    <3>1. i + 2 = j + 2
      BY <1>3, <2>2 DEF OneSnapshot
    <3> QED BY <3>1
  <2> QED BY <1>3, <1>5, <2>1, <2>3, <2>4
<1>16. CASE Detection
  <2>1. PICK pid \in Pids, calls \in Seq(StartCalls) : work' = calls
    BY <1>16, DetectionCalls DEF Handle
  <2>2. NoSnapshot(work')
    BY <2>1 DEF NoSnapshot, StartCalls
  <2> QED BY <2>2 DEF NoSnapshot, OneSnapshot
<1>17. CASE DecayAll \/ WhitelistPoll \/ UNCHANGED <<known, score, cases, work, cur, stopped, summary, refused>>
  <2>1. UNCHANGED <<work, cur>>
    BY <1>17 DEF DecayAll, WhitelistPoll
  <2> QED BY <1>3, <1>5, <2>1
<1> QED BY <1>8, <1>9, <1>10, <1>11, <1>12, <1>13, <1>14, <1>15, <1>16, <1>17, StepCases
        DEF QuietStep

\* The recursion rw_score_add -> rw_case_event -> create_case -> sh_memscan_pid -> rw_score_add
\* goes no deeper than once: while a snapshot is taken the process has its case, so that no
\* finding of it takes another one.
THEOREM SnapshotsDoNotNest == Spec => []NoNestedSnapshot
<1>1. Init => PendingJustified /\ NoNestedSnapshot
  BY DEF Init, PendingJustified, NoNestedSnapshot
<1>2. TypeOK /\ PendingJustified /\ NoNestedSnapshot /\ [Next]_vars
        => PendingJustified' /\ NoNestedSnapshot'
  BY PendingStep, SnapshotStep
<1> QED BY <1>1, <1>2, TypeCorrect, PTL DEF Spec
-----------------------------------------------------------------------------
(***************************************************************************)
(* Cases and summaries                                                     *)
(***************************************************************************)
\* What rw_score_write_case leaves in the summaries.
LEMMA SummaryFacts ==
  ASSUME TypeOK
  PROVE  /\ \A p \in Pids : p # cur \/ cur \notin known => SummaryWritten[p] = summary[p]
         /\ cur \in known =>
              /\ SummaryWritten[cur].written
              /\ SummaryWritten[cur].cat = score[cur].cat
              /\ SummaryWritten[cur].flags = score[cur].flags
              /\ SummaryWritten[cur].floor = score[cur].floor
              /\ SummaryWritten[cur].score = score[cur].score
              /\ SummaryWritten[cur].peak = score[cur].peak
BY DEF SummaryWritten, TypeOK

\* The outcomes of get_or_create_case: the case there is, none below the threshold, a new
\* one that has its summary, or a failure.
LEMMA ReportOutcomes ==
  ASSUME TypeOK, NEW s \in Percent, NEW c \in Configs, NEW then, NEW rest,
         GetOrCreateCase(s, c, then, rest)
  PROVE  \/ HasCase(cur) /\ work' = then /\ UNCHANGED <<summary, refused>>
         \/ /\ ~HasCase(cur) /\ s < ThresholdOf(c)
            /\ work' = rest /\ UNCHANGED <<cases, summary, refused>>
         \/ /\ ~HasCase(cur) /\ cases' = Append(cases, NewCase(s, c))
            /\ work' = <<MemScan(c, MaxMappings)>> \o then
            /\ summary' = SummaryWritten /\ refused' = refused
         \/ /\ ~HasCase(cur) /\ work' = rest
            /\ refused' = refused \union {cur} /\ UNCHANGED <<cases, summary>>
BY DEF GetOrCreateCase, CreateCase, CaseRefused

\* A process keeps its case; a process that gets one is the one the calls are about.
LEMMA CaseKept ==
  ASSUME TypeOK, PendingJustified, [Next]_vars
  PROVE  /\ \A p \in Pids : HasCase(p) => HasCase(p)'
         /\ \A p \in Pids : HasCase(p)' => HasCase(p) \/ p = cur
<1>1. CasesKept /\ cases \in Seq(Cases) /\ cases' \in Seq(Cases)
  BY TableStep, OpenedKept, NextTyped DEF TypeOK
<1>2. ASSUME NEW p \in Pids, HasCase(p)
      PROVE  HasCase(p)'
  BY <1>1, <1>2, HasCaseKept DEF HasCase, CaseSlots
<1>3. ASSUME NEW p \in Pids, HasCase(p)', p # cur
      PROVE  HasCase(p)
  <2>1. PICK i \in 1..Len(cases') : cases'[i].pid = p
    BY <1>3 DEF HasCase, CaseSlots
  <2>2. CASE Len(cases') = Len(cases)
    BY <1>1, <2>1, <2>2 DEF CasesKept, HasCase, CaseSlots
  <2>3. CASE CaseOpened
    <3>1. PICK s, c : cases' = Append(cases, NewCase(s, c))
      BY <2>3 DEF CaseOpened
    <3>2. i = Len(cases) + 1 \/ (i \in 1..Len(cases) /\ cases'[i] = cases[i])
      BY <1>1, <2>1, <3>1
    <3>3. cases'[Len(cases) + 1].pid = cur
      BY <1>1, <3>1 DEF NewCase
    <3> QED BY <1>3, <2>1, <3>2, <3>3 DEF HasCase, CaseSlots
  <2> QED BY <2>2, <2>3, TableStep
<1> QED BY <1>2, <1>3

\* A case that is created is a case of cur.
LEMMA CreatedIsCase ==
  ASSUME TypeOK, NEW s, NEW c, cases' = Append(cases, NewCase(s, c)), cur' = cur
  PROVE  HasCase(cur)'
<1>1. cases \in Seq(Cases)
  BY DEF TypeOK
<1>2. Len(cases') = Len(cases) + 1 /\ cases'[Len(cases) + 1] = NewCase(s, c) /\ Len(cases) \in Nat
  BY <1>1
<1>3. cases'[Len(cases) + 1].pid = cur /\ Len(cases) + 1 \in 1..Len(cases')
  BY <1>2 DEF NewCase
<1> QED BY <1>3 DEF HasCase, CaseSlots

(***************************************************************************)
(* A SIGSTOP and its case: rw_case_action asks for the case with score     *)
(* 100, which no threshold exceeds.                                        *)
(***************************************************************************)
StoppedHasCase == \A p \in stopped : HasCase(p) \/ p \in refused

\* The SIGSTOP and the case come in one step; nothing removes either.
LEMMA StoppedStep ==
  ASSUME TypeOK, PendingJustified, StoppedHasCase, [Next]_vars
  PROVE  StoppedHasCase'
<1>1. TypeOK' /\ (\A p \in Pids : HasCase(p) => HasCase(p)')
  BY NextTyped, CaseKept
<1>2. stopped \subseteq Pids
  BY DEF TypeOK
<1>3. CASE stopped' = stopped /\ refused \subseteq refused'
  BY <1>1, <1>2, <1>3 DEF StoppedHasCase
<1>4. CASE CaseEvent \/ StopProcess
  <2>1. PICK s \in Percent, c \in Configs, x \in Calls :
          /\ CaseEvent => s = Head(work).score /\ c = Head(work).cfg
          /\ StopProcess => s = 100 /\ c = "cfg"
          /\ GetOrCreateCase(s, c, <<x>> \o Tail(work), Tail(work))
    BY ZenonT(60), <1>4, CallerFacts
  <2>2. refused \subseteq refused' /\ cur' = cur
    <3>1. refused \subseteq refused'
      BY ZenonT(60), <2>1, ReportOutcomes
    <3> QED BY <1>4, <3>1 DEF CaseEvent, StopProcess
  <2>3. CASE CaseEvent
    BY <1>3, <2>2, <2>3 DEF CaseEvent
  <2>4. CASE StopProcess
    <3>1. stopped' = stopped \union {cur} /\ s = 100 /\ c = "cfg" /\ cur \in Pids
      BY <2>1, <2>4 DEF StopProcess, TypeOK
    <3>2. ~(s < ThresholdOf(c))
      BY <3>1, ScoreCaseAssumption DEF ThresholdOf
    <3>3. HasCase(cur)' \/ cur \in refused'
      <4>1. \/ HasCase(cur) \/ cur \in refused'
            \/ cases' = Append(cases, NewCase(s, c))
        BY ZenonT(60), <2>1, <3>2, ReportOutcomes
      <4> QED BY <1>1, <2>2, <3>1, <4>1, CreatedIsCase
    <3> QED BY <1>1, <1>2, <2>2, <3>1, <3>3 DEF StoppedHasCase, HasCase, CaseSlots
  <2> QED BY <1>4, <2>3, <2>4
<1>5. CASE ScoreAdd \/ LogCaseEvent
  BY <1>3, <1>5 DEF ScoreAdd, LogCaseEvent
<1>6. CASE QuietStep \/ Detection \/ DecayAll \/ WhitelistPoll
           \/ UNCHANGED <<known, score, cases, work, cur, stopped, summary, refused>>
  BY <1>3, <1>6, QuietFacts, OtherFacts
<1> QED BY <1>4, <1>5, <1>6, StepCases

\* A process that was sent SIGSTOP has a case whenever no detection is being handled, unless
\* creating it was tried and failed.  This needs the threshold to be at most 100.
THEOREM StopsAreDocumented == Spec => []StopIsDocumented
<1>1. Init => PendingJustified /\ StoppedHasCase
  BY DEF Init, PendingJustified, StoppedHasCase
<1>2. TypeOK /\ PendingJustified /\ StoppedHasCase /\ [Next]_vars
        => PendingJustified' /\ StoppedHasCase'
  BY PendingStep, StoppedStep
<1>3. StoppedHasCase => StopIsDocumented
  BY DEF StoppedHasCase, StopIsDocumented
<1> QED BY <1>1, <1>2, <1>3, TypeCorrect, PTL DEF Spec
(***************************************************************************)
(* The summaries explain the risk: decay runs only between detections, and *)
(* every detection that leads to a summary begins by scoring, which        *)
(* recomputes the score that decay has left behind.                        *)
(***************************************************************************)
Explained(r) == r.score = Risk(r.cat, r.flags, r.floor)

\* The score of cur is that of its parts wherever a summary may be written: not before the
\* first rw_score_add of the detection, nor in a scan that has found nothing.
PendingExplained ==
  cur \in known =>
    \/ Explained(score[cur])
    \/ Running("add")
    \/ \A i \in 1..Len(work) : work[i].op \in {"maps", "status"}

\* Where a report is made, the score is explained, and so is the summary of it.
LEMMA ReportExplained ==
  ASSUME TypeOK, PendingExplained, SummaryExplainsRisk,
         NEW op \in {"event", "log", "stop"}, Running(op)
  PROVE  /\ cur \in known => Explained(score[cur])
         /\ \A p \in Pids : LET s == SummaryWritten[p] IN s.written => s.score = Risk(s.cat, s.flags, s.floor)
<1>1. work # <<>> /\ Head(work).op = op /\ Head(work) = work[1] /\ 1 \in 1..Len(work)
  BY RunningFacts
<1>2. cur \in known => Explained(score[cur])
  BY <1>1 DEF PendingExplained, Running
<1> QED BY <1>2, SummaryFacts DEF Explained, SummaryExplainsRisk

\* What a detection starts with: a score, or the scan of a process that has scored nothing.
LEMMA DetectionScores ==
  ASSUME TypeOK, Detection
  PROVE  Running("add")' \/ \A i \in 1..Len(work') : work'[i].op \in {"maps", "status"}
<1>1. PICK calls \in Seq(StartCalls) :
        work' = calls /\ (calls \in AddFirst \/ calls = InjectionCalls("cfg"))
  BY DetectionCalls DEF Handle
<1>2. CASE calls \in AddFirst
  BY <1>1, <1>2 DEF AddFirst, Running
<1>3. CASE calls = InjectionCalls("cfg")
  BY <1>1, <1>3 DEF InjectionCalls, MapsScan, TraceScan
<1> QED BY <1>1, <1>2, <1>3

\* A step keeps the score explained where it matters.
LEMMA ExplainedStep ==
  ASSUME TypeOK, PendingExplained, SummaryExplainsRisk, [Next]_vars
  PROVE  PendingExplained' /\ SummaryExplainsRisk'
<1>1. CASE ScoreAdd
  <2>1. Running("add") /\ UNCHANGED <<summary, cur>>
    BY <1>1 DEF ScoreAdd
  <2>2. CASE UNCHANGED <<known, score>> /\ cur \notin known
    BY <2>1, <2>2 DEF PendingExplained, SummaryExplainsRisk
  <2>3. CASE UNCHANGED <<known, score>> /\ cur \in known
    <3>1. known' = known \union {cur} /\ score' = [score EXCEPT ![cur] = StoredScore]
      BY <1>1, <2>3, ScoreAddCases DEF StoredScore
    <3>2. score'[cur] = StoredScore
      BY <3>1 DEF TypeOK
    <3>3. Explained(score'[cur])
      <4> DEFINE over == CrossesThreshold(NewScore.score, Head(work).cfg)
      <4>1. StoredScore = [NewScore EXCEPT !.opened = @ \/ over] /\ over \in BOOLEAN
        BY DEF StoredScore, CrossesThreshold
      <4>2. NewScore \in ProcScores /\ NewScore.score = Risk(NewScore.cat, NewScore.flags, NewScore.floor)
        BY <2>1, ScoreAddFacts
      <4> HIDE DEF over
      <4> QED BY <3>2, <4>1, <4>2, OpenedTyped DEF Explained
    <3> QED BY <2>1, <2>3, <3>3 DEF PendingExplained, SummaryExplainsRisk
  <2>4. CASE ~UNCHANGED <<known, score>>
    <3>1. Explained(score'[cur])
      BY <1>1, <2>4, StoredFacts DEF Explained
    <3> QED BY <2>1, <3>1 DEF PendingExplained, SummaryExplainsRisk
  <2> QED BY <1>1, <2>2, <2>3, <2>4, ScoreAddCases
<1>2. CASE CaseEvent \/ StopProcess
  <2>1. PICK s \in Percent, c \in Configs, x \in Calls :
          GetOrCreateCase(s, c, <<x>> \o Tail(work), Tail(work))
    BY <1>2, CallerFacts
  <2>2. PICK op \in {"event", "stop"} : Running(op) /\ UNCHANGED <<known, score, cur>>
    BY <1>2 DEF CaseEvent, StopProcess
  <2>3. summary' = summary \/ summary' = SummaryWritten
    BY <2>1, ReportOutcomes
  <2>4. cur \in known => Explained(score[cur])
    BY <2>2, ReportExplained
  <2>5. SummaryExplainsRisk'
    BY <2>2, <2>3, ReportExplained DEF SummaryExplainsRisk
  <2> QED BY <2>2, <2>4, <2>5 DEF PendingExplained
<1>3. CASE LogCaseEvent
  <2>1. Running("log") /\ UNCHANGED <<known, score, cur>> /\ summary' = SummaryWritten
    BY <1>3 DEF LogCaseEvent
  <2>2. cur \in known => Explained(score[cur])
    BY <2>1, ReportExplained
  <2>3. SummaryExplainsRisk'
    BY <2>1, ReportExplained DEF SummaryExplainsRisk
  <2> QED BY <2>1, <2>2, <2>3 DEF PendingExplained
<1>4. CASE QuietStep
  <2>1. UNCHANGED <<known, score, cur, summary>>
    BY <1>4, QuietFacts
  <2>2. SummaryExplainsRisk'
    BY <2>1 DEF SummaryExplainsRisk
  <2>3. CASE cur \in known => Explained(score[cur])
    BY <2>1, <2>2, <2>3 DEF PendingExplained
  <2>4. CASE ~Running("add") /\ \A i \in 1..Len(work) : work[i].op \in {"maps", "status"}
    <3>1. Running("add")' \/ \A i \in 1..Len(work') : work'[i].op \in {"maps", "status"}
      <4>1. CASE \E f \in MapFindings : ScanMaps(f)
        BY <4>1 DEF ScanMaps, Running, Add
      <4>2. CASE ScanStatus
        BY <4>2 DEF ScanStatus, Running, Add
      <4>3. CASE EndScan
        <5>1. PICK op : Running(op)
          BY <4>3 DEF EndScan
        <5>2. work' = Tail(work)
          BY <4>3 DEF EndScan
        <5> QED BY <2>4, <5>1, <5>2, RunningFacts
      <4>4. CASE NoMaps
        <5>1. work \in Seq(Calls) /\ work' = SubSeq(work, 3, Len(work))
          BY <4>4 DEF NoMaps, TypeOK
        <5>2. Len(work) \in Nat /\ \A i \in 1..Len(work') : i + 2 \in 1..Len(work) /\ work'[i] = work[i + 2]
          BY <5>1
        <5> QED BY <2>4, <5>2
      <4>5. CASE CaseDetail \/ \E f \in MemoryFindings : ScanMemory(f)
        <5>1. PICK op \in {"detail", "memscan"} : Running(op)
          BY <4>5 DEF CaseDetail, ScanMemory
        <5>2. op = Head(work).op /\ Head(work) = work[1] /\ 1 \in 1..Len(work)
          BY <5>1, RunningFacts
        <5> QED BY <2>4, <5>2
      <4> QED BY <1>4, <4>1, <4>2, <4>3, <4>4, <4>5 DEF QuietStep
    <3> QED BY <2>2, <3>1 DEF PendingExplained, Running
  <2>5. ~Running("add")
    BY <1>4 DEF QuietStep, Running, CaseDetail, ScanStatus, NoMaps, EndScan, ScanMemory, ScanMaps
  <2> QED BY <2>3, <2>4, <2>5 DEF PendingExplained
<1>5. CASE Detection
  <2>1. UNCHANGED summary
    BY <1>5, OtherFacts
  <2>2. Running("add")' \/ \A i \in 1..Len(work') : work'[i].op \in {"maps", "status"}
    BY <1>5, DetectionScores
  <2> QED BY <2>1, <2>2 DEF PendingExplained, SummaryExplainsRisk, Running
<1>6. CASE DecayAll \/ WhitelistPoll
  <2>1. work = <<>> /\ work' = work /\ summary' = summary
    BY <1>6 DEF DecayAll, WhitelistPoll
  <2> QED BY <2>1 DEF PendingExplained, SummaryExplainsRisk
<1>7. CASE UNCHANGED <<known, score, cases, work, cur, stopped, summary, refused>>
  BY <1>7 DEF PendingExplained, SummaryExplainsRisk, Running
<1> QED BY <1>1, <1>2, <1>3, <1>4, <1>5, <1>6, <1>7, StepCases

\* Every risk summary is coherent: the risk it states is the one its own buckets, flags and
\* floor amount to, although decay lowers them without recomputing the score.
THEOREM SummariesExplainRisk == Spec => []SummaryExplainsRisk
<1>1. Init => PendingExplained /\ SummaryExplainsRisk
  BY DEF Init, PendingExplained, SummaryExplainsRisk, NoSummary
<1>2. TypeOK /\ PendingExplained /\ SummaryExplainsRisk /\ [Next]_vars
        => PendingExplained' /\ SummaryExplainsRisk'
  BY ExplainedStep
<1> QED BY <1>1, <1>2, TypeCorrect, PTL DEF Spec
(***************************************************************************)
(* No crossing is lost: between rw_score_add and rw_case_event the crossing *)
(* is carried by the event, with the score it was reported with.           *)
(***************************************************************************)
Crossed(r) == r.peak >= ThresholdOf("cfg") /\ r.peak >= ThresholdOf("null")

\* The event that comes next opens the case of p.
OpensNext(p) == p = cur /\ Running("event") /\ Head(work).score >= ThresholdOf(Head(work).cfg)

PendingCrossing ==
  \A p \in known : Crossed(score[p]) => HasCase(p) \/ p \in refused \/ OpensNext(p)

\* A new record has crossed nothing; no threshold is 0.
LEMMA FreshHasNotCrossed ==
  ASSUME NEW t
  PROVE  ~Crossed(FreshScore(t))
<1>1. FreshScore(t).peak = 0
  BY DEF FreshScore
<1>2. ThresholdOf("null") = 60
  BY DEF ThresholdOf
<1> QED BY <1>1, <1>2 DEF Crossed

\* A crossing is made up for by the event in front, and the event by the case.
LEMMA CrossingStep ==
  ASSUME TypeOK, PendingJustified, PendingCrossing, [Next]_vars
  PROVE  PendingCrossing'
<1>1. TypeOK' /\ (\A p \in Pids : HasCase(p) => HasCase(p)')
  BY NextTyped, CaseKept
<1>2. known \subseteq Pids /\ known' \subseteq Pids
  BY <1>1 DEF TypeOK
\* Nothing but the calls changes, and the one that opens the case is not taken away.
<1>3. ASSUME known' = known, refused \subseteq refused', \A p \in known : score'[p].peak = score[p].peak,
             \A p \in known : OpensNext(p) => HasCase(p)' \/ p \in refused' \/ OpensNext(p)'
      PROVE  PendingCrossing'
  <2> SUFFICES ASSUME NEW p \in known', Crossed(score'[p])
               PROVE  HasCase(p)' \/ p \in refused' \/ OpensNext(p)'
    BY DEF PendingCrossing, Crossed, ThresholdOf
  <2>1. p \in known /\ p \in Pids /\ Crossed(score[p])
    BY <1>2, <1>3 DEF Crossed
  <2> QED BY <1>1, <1>3, <2>1 DEF PendingCrossing
<1>4. CASE ScoreAdd
  <2>1. Running("add") /\ ~Running("event") /\ UNCHANGED <<cases, cur, refused>>
    BY <1>4 DEF ScoreAdd, Running
  <2>2. CASE UNCHANGED <<known, score>>
    BY <1>3, <2>1, <2>2 DEF OpensNext
  <2>3. CASE ~UNCHANGED <<known, score>>
    <3> SUFFICES ASSUME NEW p \in known', Crossed(score'[p])
                 PROVE  HasCase(p)' \/ p \in refused' \/ OpensNext(p)'
      BY DEF PendingCrossing, Crossed, ThresholdOf
    <3>1. CASE p # cur
      <4>1. p \in known /\ score'[p] = score[p]
        BY <1>2, <1>4, <2>3, <3>1, StoredFacts DEF TypeOK
      <4>2. HasCase(p) \/ p \in refused
        BY <2>1, <3>1, <4>1 DEF PendingCrossing, OpensNext
      <4> QED BY <1>1, <1>2, <2>1, <4>1, <4>2
    <3>2. CASE p = cur /\ Crossed(OldScore)
      <4>1. cur \in known /\ Crossed(score[cur])
        BY <3>2, FreshHasNotCrossed DEF OldScore
      <4>2. HasCase(p) \/ p \in refused
        BY <2>1, <3>2, <4>1 DEF PendingCrossing, OpensNext
      <4> QED BY <1>1, <1>2, <2>1, <4>2
    <3>3. CASE p = cur /\ ~Crossed(OldScore)
      <4> DEFINE c == Head(work).cfg
                 r == StoredScore
      <4>1. /\ score'[cur] = r /\ r.peak \in {OldScore.peak, r.score}
            /\ work' = ReportCalls(r.score, c) \o Tail(work)
            /\ c \in Configs /\ r.score \in Percent /\ Tail(work) \in Seq(Calls)
        BY <1>4, <2>3, StoredFacts
      <4> HIDE DEF c, r
      <4>2. r.score >= ThresholdOf("cfg") /\ r.score >= ThresholdOf("null")
        BY <3>3, <4>1 DEF Crossed
      <4>3. r.score >= ThresholdOf(c)
        BY <4>1, <4>2 DEF Configs
      <4>4. ReportCalls(r.score, c) = <<Event(r.score, c)>>
        BY <4>3 DEF ReportCalls, CrossesThreshold
      <4>5. work' # <<>> /\ Head(work') = Event(r.score, c)
        BY <4>1, <4>4
      <4>6. OpensNext(p)'
        BY <2>1, <3>3, <4>3, <4>5 DEF OpensNext, Running, Event, ThresholdOf
      <4> QED BY <4>6
    <3> QED BY <3>1, <3>2, <3>3
  <2> QED BY <2>2, <2>3
<1>5. CASE CaseEvent \/ StopProcess
  <2>1. PICK s \in Percent, c \in Configs, x \in Calls :
          /\ CaseEvent => s = Head(work).score /\ c = Head(work).cfg
          /\ GetOrCreateCase(s, c, <<x>> \o Tail(work), Tail(work))
    BY <1>5, CallerFacts
  <2>2. UNCHANGED <<known, score, cur>>
    BY <1>5 DEF CaseEvent, StopProcess
  <2>3. refused \subseteq refused'
    BY <2>1, ReportOutcomes
  <2>4. \A p \in known : score'[p].peak = score[p].peak
    BY <2>2
  <2>5. ASSUME NEW p \in known, OpensNext(p)
        PROVE  HasCase(p)' \/ p \in refused'
    <3>1. CaseEvent /\ p = cur /\ s >= ThresholdOf(c) /\ s \in Int /\ ThresholdOf(c) \in Int
      <4>1. CaseEvent
        BY <1>5, <2>5 DEF OpensNext, StopProcess, Running
      <4> QED BY <2>1, <2>5, <4>1, ThresholdTyped, PercentFacts DEF OpensNext
    <3>2. ~(s < ThresholdOf(c))
      BY <3>1
    <3>3. HasCase(cur) \/ cur \in refused' \/ cases' = Append(cases, NewCase(s, c))
      BY <2>1, <3>2, ReportOutcomes
    <3> QED BY <1>1, <1>2, <2>2, <3>1, <3>3, CreatedIsCase
  <2> QED BY <1>3, <2>2, <2>3, <2>4, <2>5
<1>6. CASE LogCaseEvent \/ QuietStep
  <2>1. UNCHANGED <<known, score, refused>>
    BY <1>6, QuietFacts DEF LogCaseEvent
  <2>2. ~Running("event")
    BY <1>6 DEF LogCaseEvent, QuietStep, Running, CaseDetail, ScanStatus, NoMaps, EndScan,
                ScanMemory, ScanMaps
  <2> QED BY <1>3, <2>1, <2>2 DEF OpensNext
<1>7. CASE Detection \/ DecayAll \/ WhitelistPoll
  <2>1. work = <<>> /\ UNCHANGED <<known, refused>>
    BY <1>7, OtherFacts
  <2>2. \A p \in known : score'[p].peak = score[p].peak
    <3>1. CASE DecayAll
      BY <1>2, <3>1, DecayedFacts DEF DecayAll, TypeOK
    <3>2. CASE Detection \/ WhitelistPoll
      <4>1. score' = score
        BY <3>2, DetectionCalls DEF Handle, WhitelistPoll
      <4> QED BY <4>1
    <3> QED BY <1>7, <3>1, <3>2
  <2> QED BY <1>3, <2>1, <2>2 DEF OpensNext, Running
<1>8. CASE UNCHANGED <<known, score, cases, work, cur, stopped, summary, refused>>
  BY <1>3, <1>8 DEF OpensNext, Running, ThresholdOf
<1> QED BY <1>4, <1>5, <1>6, <1>7, <1>8, StepCases

\* When a detection has been handled, every process whose risk ever reached the thresholds
\* has a case, unless creating one was tried and failed: no crossing is lost in the nesting
\* of rw_score_add, rw_case_event and the snapshot.
THEOREM CrossingsOpenCases == Spec => []CrossingOpensCase
<1>1. Init => PendingJustified /\ PendingCrossing
  BY DEF Init, PendingJustified, PendingCrossing
<1>2. TypeOK /\ PendingJustified /\ PendingCrossing /\ [Next]_vars
        => PendingJustified' /\ PendingCrossing'
  BY PendingStep, CrossingStep
<1>3. PendingCrossing => CrossingOpensCase
  BY DEF PendingCrossing, CrossingOpensCase, Crossed, OpensNext, Running, Idle
<1> QED BY <1>1, <1>2, <1>3, TypeCorrect, PTL DEF Spec

(***************************************************************************)
(* Summaries are up to date: the report to a case, which writes the        *)
(* summary, comes right after every change of the score.                   *)
(***************************************************************************)
UpToDate(p) == /\ summary[p].written
               /\ summary[p].score = score[p].score
               /\ summary[p].peak = score[p].peak
               /\ summary[p].flags = score[p].flags

\* The call that comes next leads to a new summary of p.
WritesNext(p) == p = cur /\ (Running("event") \/ Running("log"))

PendingUpToDate == \A p \in known : HasCase(p) => UpToDate(p) \/ WritesNext(p)

\* A change of the score of a process with a case is followed by its report, the report by
\* the log line and the summary.
LEMMA UpToDateStep ==
  ASSUME TypeOK, PendingJustified, PendingUpToDate, [Next]_vars
  PROVE  PendingUpToDate'
<1>1. TypeOK' /\ (\A p \in Pids : HasCase(p)' => HasCase(p) \/ p = cur)
  BY NextTyped, CaseKept
<1>2. known \subseteq Pids /\ known' \subseteq Pids /\ cur \in Pids
  BY <1>1 DEF TypeOK
\* Nothing that the summary states changes, but possibly the summary.
<1>3. ASSUME known' = known,
             \A p \in known : /\ score'[p].score = score[p].score /\ score'[p].peak = score[p].peak
                              /\ score'[p].flags = score[p].flags,
             \A p \in known : summary'[p] = summary[p] \/ UpToDate(p)',
             \A p \in known : HasCase(p)' => HasCase(p) \/ UpToDate(p)',
             \A p \in known : WritesNext(p) => UpToDate(p)' \/ WritesNext(p)' \/ ~HasCase(p)'
      PROVE  PendingUpToDate'
  <2> SUFFICES ASSUME NEW p \in known', HasCase(p)'
               PROVE  UpToDate(p)' \/ WritesNext(p)'
    BY DEF PendingUpToDate
  <2>1. p \in known /\ (HasCase(p) \/ UpToDate(p)')
    BY <1>3
  <2>2. UpToDate(p) /\ summary'[p] = summary[p] => UpToDate(p)'
    BY <1>3, <2>1 DEF UpToDate
  <2> QED BY <1>3, <2>1, <2>2 DEF PendingUpToDate
<1>4. ASSUME known' = known, score' = score, summary' = SummaryWritten, cur' = cur
      PROVE  \A p \in known : /\ summary'[p] = summary[p] \/ UpToDate(p)'
                              /\ p = cur => UpToDate(p)'
  BY SMTT(30), <1>2, <1>4, SummaryFacts DEF UpToDate
<1>5. CASE ScoreAdd
  <2>1. Running("add") /\ UNCHANGED <<cases, cur, summary>>
    BY <1>5 DEF ScoreAdd
  <2>2. ~Running("event") /\ ~Running("log")
    BY <2>1 DEF Running
  <2>3. CASE UNCHANGED <<known, score>>
    BY <1>3, <2>1, <2>2, <2>3 DEF WritesNext, HasCase, CaseSlots
  <2>4. CASE ~UNCHANGED <<known, score>>
    <3> SUFFICES ASSUME NEW p \in known', HasCase(p)'
                 PROVE  UpToDate(p)' \/ WritesNext(p)'
      BY DEF PendingUpToDate
    <3>1. HasCase(p)
      BY <2>1 DEF HasCase, CaseSlots
    <3>2. CASE p # cur
      <4>1. p \in known /\ score'[p] = score[p]
        BY <1>2, <1>5, <2>4, <3>2, StoredFacts DEF TypeOK
      <4> QED BY <2>1, <3>1, <3>2, <4>1 DEF PendingUpToDate, WritesNext, UpToDate
    <3>3. CASE p = cur
      <4> DEFINE c == Head(work).cfg
                 r == StoredScore
      <4>1. work' = ReportCalls(r.score, c) \o Tail(work) /\ Tail(work) \in Seq(Calls)
        BY <1>5, <2>4, StoredFacts
      <4> HIDE DEF c, r
      <4>2. ReportCalls(r.score, c) = <<Event(r.score, c)>>
        BY <3>1, <3>3 DEF ReportCalls
      <4>3. work' # <<>> /\ Head(work') = Event(r.score, c)
        BY <4>1, <4>2
      <4> QED BY <2>1, <3>3, <4>3 DEF WritesNext, Running, Event
    <3> QED BY <3>2, <3>3
  <2> QED BY <2>3, <2>4
<1>6. CASE CaseEvent \/ StopProcess
  <2>1. PICK s \in Percent, c \in Configs, x \in Calls :
          /\ x.op \in {"log", "event"} /\ Tail(work) \in Seq(Calls)
          /\ GetOrCreateCase(s, c, <<x>> \o Tail(work), Tail(work))
    BY <1>6, CallerFacts
  <2>2. UNCHANGED <<known, score, cur>>
    BY <1>6 DEF CaseEvent, StopProcess
  <2>3. CASE HasCase(cur) /\ work' = <<x>> \o Tail(work) /\ summary' = summary
    <3>1. WritesNext(cur)'
      <4>1. work' # <<>> /\ Head(work') = x
        BY <2>1, <2>3
      <4> QED BY <2>1, <2>2, <4>1 DEF WritesNext, Running
    <3>2. \A p \in known : HasCase(p)' => HasCase(p)
      BY <1>1, <1>2, <2>3
    <3>3. \A p \in known : WritesNext(p) => WritesNext(p)'
      BY <2>2, <3>1 DEF WritesNext
    <3> QED BY <1>3, <2>2, <2>3, <3>2, <3>3
  <2>4. CASE ~HasCase(cur) /\ UNCHANGED <<cases, summary>>
    <3>1. \A p \in Pids : HasCase(p)' <=> HasCase(p)
      BY <2>4 DEF HasCase, CaseSlots
    <3>2. \A p \in known : WritesNext(p) => ~HasCase(p)'
      BY <1>2, <2>4, <3>1 DEF WritesNext
    <3> QED BY <1>2, <1>3, <2>2, <2>4, <3>1, <3>2
  <2>5. CASE summary' = SummaryWritten
    <3>1. \A p \in known : /\ summary'[p] = summary[p] \/ UpToDate(p)'
                           /\ p = cur => UpToDate(p)'
      BY <1>4, <2>2, <2>5
    <3>2. \A p \in known : HasCase(p)' => HasCase(p) \/ UpToDate(p)'
      BY <1>1, <1>2, <3>1
    <3>3. \A p \in known : WritesNext(p) => UpToDate(p)'
      BY <3>1 DEF WritesNext
    <3> QED BY <1>3, <2>2, <3>1, <3>2, <3>3
  <2> QED BY <2>1, <2>3, <2>4, <2>5, ReportOutcomes
<1>7. CASE LogCaseEvent
  <2>1. UNCHANGED <<known, score, cases, cur>> /\ summary' = SummaryWritten
    BY <1>7 DEF LogCaseEvent
  <2>2. \A p \in known : HasCase(p)' => HasCase(p)
    BY <2>1 DEF HasCase, CaseSlots
  <2> QED BY <1>3, <1>4, <2>1, <2>2 DEF WritesNext
<1>8. CASE QuietStep
  <2>1. UNCHANGED <<known, score, cases, cur, summary>>
    BY <1>8, QuietFacts
  <2>2. ~Running("event") /\ ~Running("log")
    BY <1>8 DEF QuietStep, Running, CaseDetail, ScanStatus, NoMaps, EndScan, ScanMemory, ScanMaps
  <2>3. \A p \in known : HasCase(p)' => HasCase(p)
    BY <2>1 DEF HasCase, CaseSlots
  <2> QED BY <1>3, <2>1, <2>2, <2>3 DEF WritesNext
<1>9. CASE Detection \/ DecayAll \/ WhitelistPoll
  <2>1. work = <<>> /\ UNCHANGED <<known, cases, summary>>
    BY <1>9, OtherFacts
  <2>2. \A p \in known : /\ score'[p].score = score[p].score /\ score'[p].peak = score[p].peak
                         /\ score'[p].flags = score[p].flags
    <3>1. CASE DecayAll
      BY <1>2, <3>1, DecayedFacts DEF DecayAll, TypeOK
    <3>2. CASE Detection \/ WhitelistPoll
      <4>1. score' = score
        BY <3>2, DetectionCalls DEF Handle, WhitelistPoll
      <4> QED BY <4>1
    <3> QED BY <1>9, <3>1, <3>2
  <2>3. \A p \in known : HasCase(p)' => HasCase(p)
    BY <2>1 DEF HasCase, CaseSlots
  <2> QED BY <1>3, <2>1, <2>2, <2>3 DEF WritesNext, Running
<1>10. CASE UNCHANGED <<known, score, cases, work, cur, stopped, summary, refused>>
  BY <1>10 DEF PendingUpToDate, HasCase, CaseSlots, UpToDate, WritesNext, Running
<1> QED BY <1>5, <1>6, <1>7, <1>8, <1>9, <1>10, StepCases

\* When a detection has been handled, the risk summary of every case states the risk, the
\* peak and the flags that the process has in memory.
THEOREM SummariesAreUpToDate == Spec => []SummaryUpToDate
<1>1. Init => PendingJustified /\ PendingUpToDate
  BY DEF Init, PendingJustified, PendingUpToDate
<1>2. TypeOK /\ PendingJustified /\ PendingUpToDate /\ [Next]_vars
        => PendingJustified' /\ PendingUpToDate'
  BY PendingStep, UpToDateStep
<1>3. PendingUpToDate => SummaryUpToDate
  BY DEF PendingUpToDate, SummaryUpToDate, UpToDate, WritesNext, Running, Idle
<1> QED BY <1>1, <1>2, <1>3, TypeCorrect, PTL DEF Spec
=============================================================================
