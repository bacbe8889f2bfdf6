------------------------------ MODULE ScoreCase ------------------------------
(***************************************************************************)
(* The scoring and case core: src/src/core/score.c and src/src/case/case.c *)
(* with the detectors that drive them.                                     *)
(*                                                                         *)
(* SignalHunter is single threaded, but rw_score_add is reentrant: it      *)
(* reports to the case, a new case takes a snapshot, the snapshot scans    *)
(* the memory of the process, and every finding of that scan is another    *)
(* rw_score_add.  The calls that a detector still has to make are kept in  *)
(* work, a sequence of pending calls whose head runs next; a call that     *)
(* makes calls of its own puts them in front.  cur is the pid they are     *)
(* about.  work is empty when the main loop is between two detections.     *)
(***************************************************************************)
EXTENDS Detections, FiniteSets

CONSTANTS
  Pids,              \* process ids
  MaxProcs,          \* RW_MAX_PROCS
  MaxCases,          \* RW_MAX_CASES
  CaseThreshold,     \* cfg->case_threshold
  EnableWhitelist,   \* cfg->enable_whitelist
  WhitelistPercent,  \* cfg->whitelist_score_percent
  StopSuspicious,    \* cfg->stop_suspicious
  MkdirMayFail,      \* whether creating a case directory may fail
  Browsers,          \* pids whose comm or exe looks like a browser
  TrackScores,       \* scores a connection track may reach
  Enabled,           \* names of the findings the processes give rise to
  MaxMappings,       \* bound: findings per scan of a process' mappings
  MaxDetections,     \* bound: detections handled in a behaviour
  MaxTime,           \* bound: seconds in a behaviour
  Elapses            \* seconds that may pass at once

ASSUME ScoreCaseAssumption ==
  /\ MaxProcs \in Nat
  /\ MaxCases \in Nat
  /\ CaseThreshold \in 1..100  \* parse_options of main.c clamps it
  /\ WhitelistPercent \in Int
  /\ EnableWhitelist \in BOOLEAN /\ StopSuspicious \in BOOLEAN /\ MkdirMayFail \in BOOLEAN
  /\ TrackScores \subseteq 1..100
  /\ MaxMappings \in Nat
  /\ MaxDetections \in Nat
  /\ MaxTime \in Nat
  /\ Elapses \subseteq Nat

VARIABLES
  known,     \* pids that have a slot of g_scores
  score,     \* the slot of each of them
  cases,     \* g_cases, in the order of creation
  work,      \* pending calls of the detection being handled
  cur,       \* the pid it is about
  matched,   \* pids that rw_whitelist_match accepts
  now,       \* time(NULL)
  stopped,   \* pids that were sent SIGSTOP
  summary,   \* risk_summary.txt of each pid, as last written
  handled,   \* detections handled so far (bounds the behaviour)
  refused,   \* history: pids whose case could not be created
  seen       \* history: names of the findings scored for each pid

vars == <<known, score, cases, work, cur, matched, now, stopped, summary, handled, refused, seen>>

NoSummary == [written |-> FALSE]
Summaries == [written : {TRUE}, cat : [Categories -> Percent], flags : SUBSET FlagNames,
              floor : Percent, score : Percent, peak : Percent]

(***************************************************************************)
(* Configurations: the one of main.c, and NULL, which rw_inspect_process   *)
(* passes on.                                                              *)
(***************************************************************************)
Configs == {"cfg", "null"}

\* rw_case_t; the directory is under the log directory of the configuration.
Cases == [pid : Pids, maxScore : Percent, dir : Configs]

ThresholdOf(c) == IF c = "cfg" /\ CaseThreshold > 0 THEN CaseThreshold ELSE 60

\* Mutant of CrossesThreshold: the threshold itself is not enough.
ExceedsThreshold(s, c) == s > ThresholdOf(c)

\* The test of rw_score_add.
CrossesThreshold(s, c) == s >= ThresholdOf(c)

(***************************************************************************)
(* Pending calls                                                           *)
(***************************************************************************)
Add(f, c)       == [op |-> "add", f |-> f, cfg |-> c]             \* rw_score_add
Detail(s, c)    == [op |-> "detail", score |-> s, cfg |-> c]      \* if (rw_case_has) rw_case_event
Event(s, c)     == [op |-> "event", score |-> s, cfg |-> c]       \* rw_case_event
CaseLog         == [op |-> "log"]                                 \* its part after the case is found
MemScan(c, n)   == [op |-> "memscan", cfg |-> c, left |-> n]      \* sh_memscan_pid of a snapshot
MapsScan(c, n)  == [op |-> "maps", cfg |-> c, left |-> n]         \* the loop over maps of rw_scan_injection_pid
TraceScan(c)    == [op |-> "status", cfg |-> c]                   \* its loop over status
Stop            == [op |-> "stop"]                                \* kill, then rw_case_action

Calls == [op : {"add"}, f : Findings, cfg : Configs]
         \union [op : {"detail", "event"}, score : Percent, cfg : Configs]
         \union [op : {"memscan", "maps"}, cfg : Configs, left : 0..MaxMappings]
         \union [op : {"status"}, cfg : Configs]
         \union [op : {"log", "stop"}]

InjectionCalls(c) == <<MapsScan(c, MaxMappings), TraceScan(c)>>
StopCalls         == IF StopSuspicious THEN <<Stop>> ELSE <<>>

Init ==
  /\ known = {}
  /\ score = [p \in Pids |-> FreshScore(0)]
  /\ cases = <<>>
  /\ work = <<>>
  /\ cur \in Pids
  /\ matched = {}
  /\ now = 0
  /\ stopped = {}
  /\ summary = [p \in Pids |-> NoSummary]
  /\ handled = 0
  /\ refused = {}
  /\ seen = [p \in Pids |-> {}]

-----------------------------------------------------------------------------
(***************************************************************************)
(* The case table                                                          *)
(***************************************************************************)
\* Mutant of CaseSlots: the last slot is not looked at.
CaseSlotsButLast(pid) == {i \in 1..(Len(cases) - 1) : cases[i].pid = pid}

\* find_case: the slots with this pid.
CaseSlots(pid) == {i \in 1..Len(cases) : cases[i].pid = pid}
HasCase(pid)   == CaseSlots(pid) # {}

FirstSlot(pid) == CHOOSE i \in CaseSlots(pid) : \A j \in CaseSlots(pid) : i <= j

\* rw_score_write_case: rewrites the summary of a process that has a score.
SummaryWritten ==
  IF cur \in known
    THEN [summary EXCEPT ![cur] = [written |-> TRUE, cat |-> score[cur].cat,
            flags |-> score[cur].flags, floor |-> score[cur].floor,
            score |-> score[cur].score, peak |-> score[cur].peak]]
    ELSE summary

NewCase(s, c) == [pid |-> cur, maxScore |-> s, dir |-> c]

\* create_case succeeds: the slot is taken before the snapshot runs, and the
\* snapshot writes the summary before it scans the memory.
CreateCase(s, c, then) ==
  /\ Len(cases) < MaxCases
  /\ cases' = Append(cases, NewCase(s, c))
  /\ summary' = SummaryWritten
  /\ work' = <<MemScan(c, MaxMappings)>> \o then
  /\ UNCHANGED refused

\* create_case returns NULL: no slot left, or a directory cannot be made.
CaseRefused(rest) ==
  /\ Len(cases) >= MaxCases \/ MkdirMayFail
  /\ refused' = refused \union {cur}
  /\ work' = rest
  /\ UNCHANGED <<cases, summary>>

\* get_or_create_case, followed by then when it returns a case, and by rest when not.
GetOrCreateCase(s, c, then, rest) ==
  \/ /\ HasCase(cur)
     /\ cases' = [cases EXCEPT ![FirstSlot(cur)].maxScore = Larger(@, s)]
     /\ work' = then
     /\ UNCHANGED <<summary, refused>>
  \/ /\ ~HasCase(cur)
     /\ s < ThresholdOf(c)
     /\ work' = rest
     /\ UNCHANGED <<cases, summary, refused>>
  \/ /\ ~HasCase(cur)
     /\ s >= ThresholdOf(c)
     /\ CreateCase(s, c, then) \/ CaseRefused(rest)

-----------------------------------------------------------------------------
(***************************************************************************)
(* The pending calls, one step each                                        *)
(***************************************************************************)
Running(op) == work # <<>> /\ Head(work).op = op

\* Mutant of ReportCalls: no update below the threshold.
ReportCallsAbove(s, c) == IF CrossesThreshold(s, c) THEN <<Event(s, c)>> ELSE <<>>

\* The report of rw_score_add: above the threshold, or to the case there already is.
ReportCalls(s, c) ==
  IF CrossesThreshold(s, c) \/ HasCase(cur) THEN <<Event(s, c)>> ELSE <<>>

\* rw_score_add, up to its report to the case.
ScoreAdd ==
  /\ Running("add")
  /\ LET call   == Head(work)
         old    == IF cur \in known THEN score[cur] ELSE FreshScore(now)
         listed == call.cfg = "cfg" /\ EnableWhitelist /\ cur \in matched
         new    == WithFinding(old, call.f, cur \in Browsers, listed,
                               ClampInt(WhitelistPercent, 0, 100), now)
         over   == CrossesThreshold(new.score, call.cfg)
     IN  \/ /\ cur \notin known
            /\ Cardinality(known) >= MaxProcs
            /\ work' = Tail(work)
            /\ UNCHANGED <<known, score, seen>>
         \/ /\ cur \in known \/ Cardinality(known) < MaxProcs
            /\ known' = known \union {cur}
            /\ score' = [score EXCEPT ![cur] = [new EXCEPT !.opened = @ \/ over]]
            /\ seen' = [seen EXCEPT ![cur] = @ \union {call.f.name}]
            /\ work' = ReportCalls(new.score, call.cfg) \o Tail(work)
  /\ UNCHANGED <<cases, cur, matched, now, stopped, summary, handled, refused>>

\* Mutant of CaseDetail: the detail is reported without asking for a case first.
CaseDetailAlways ==
  /\ Running("detail")
  /\ work' = <<Event(Head(work).score, Head(work).cfg)>> \o Tail(work)
  /\ UNCHANGED <<known, score, cases, cur, matched, now, stopped, summary, handled, refused, seen>>

\* A detector adds its detail to the case of the process, if there is one.
CaseDetail ==
  /\ Running("detail")
  /\ work' = IF HasCase(cur)
               THEN <<Event(Head(work).score, Head(work).cfg)>> \o Tail(work)
               ELSE Tail(work)
  /\ UNCHANGED <<known, score, cases, cur, matched, now, stopped, summary, handled, refused, seen>>

CaseEvent ==
  /\ Running("event")
  /\ GetOrCreateCase(Head(work).score, Head(work).cfg, <<CaseLog>> \o Tail(work), Tail(work))
  /\ UNCHANGED <<known, score, cur, matched, now, stopped, handled, seen>>

\* rw_case_event with the case at hand: the log line and the exports.
LogCaseEvent ==
  /\ Running("log")
  /\ summary' = SummaryWritten
  /\ work' = Tail(work)
  /\ UNCHANGED <<known, score, cases, cur, matched, now, stopped, handled, refused, seen>>

\* sh_memscan_pid: the next finding of the regions it reads.
ScanMemory(f) ==
  /\ Running("memscan")
  /\ Head(work).left > 0
  /\ work' = <<Add(f, Head(work).cfg), [Head(work) EXCEPT !.left = @ - 1]>> \o Tail(work)
  /\ UNCHANGED <<known, score, cases, cur, matched, now, stopped, summary, handled, refused, seen>>

\* rw_scan_injection_pid: the next suspicious line of maps.
ScanMaps(f) ==
  /\ Running("maps")
  /\ Head(work).left > 0
  /\ work' = <<Add(f, Head(work).cfg), Detail(80, Head(work).cfg),
               [Head(work) EXCEPT !.left = @ - 1]>> \o Tail(work)
  /\ UNCHANGED <<known, score, cases, cur, matched, now, stopped, summary, handled, refused, seen>>

\* rw_scan_injection_pid: a tracer in status.
ScanStatus ==
  /\ Running("status")
  /\ TracedFinding.name \in Enabled
  /\ work' = <<Add(TracedFinding, Head(work).cfg), Detail(90, Head(work).cfg)>> \o Tail(work)
  /\ UNCHANGED <<known, score, cases, cur, matched, now, stopped, summary, handled, refused, seen>>

\* rw_scan_injection_pid returns when maps cannot be opened: status is not read either.
NoMaps ==
  /\ Running("maps")
  /\ Head(work).left = MaxMappings
  /\ work' = SubSeq(work, 3, Len(work))
  /\ UNCHANGED <<known, score, cases, cur, matched, now, stopped, summary, handled, refused, seen>>

\* The scan has read its file to the end (or, for memory and status, could not open it).
EndScan ==
  /\ Running("memscan") \/ Running("maps") \/ Running("status")
  /\ work' = Tail(work)
  /\ UNCHANGED <<known, score, cases, cur, matched, now, stopped, summary, handled, refused, seen>>

\* Mutant of StopProcess: the action is recorded with the risk of the process.
StopProcessAtRisk ==
  /\ Running("stop")
  /\ stopped' = stopped \union {cur}
  /\ GetOrCreateCase(score[cur].score, "cfg", <<Event(100, "cfg")>> \o Tail(work), Tail(work))
  /\ UNCHANGED <<known, score, cur, matched, now, handled, seen>>

\* SIGSTOP and rw_case_action, which asks for a case with score 100.
StopProcess ==
  /\ Running("stop")
  /\ stopped' = stopped \union {cur}
  /\ GetOrCreateCase(100, "cfg", <<Event(100, "cfg")>> \o Tail(work), Tail(work))
  /\ UNCHANGED <<known, score, cur, matched, now, handled, seen>>

Step ==
  \/ ScoreAdd
  \/ CaseDetail
  \/ CaseEvent
  \/ LogCaseEvent
  \/ \E f \in MemoryFindings : f.name \in Enabled /\ ScanMemory(f)
  \/ \E f \in MapFindings : f.name \in Enabled /\ ScanMaps(f)
  \/ ScanStatus
  \/ NoMaps
  \/ EndScan
  \/ StopProcess

-----------------------------------------------------------------------------
(***************************************************************************)
(* Detections                                                              *)
(***************************************************************************)
Handle(pid, calls) ==
  /\ work = <<>>
  /\ handled < MaxDetections
  /\ handled' = handled + 1
  /\ cur' = pid
  /\ work' = calls
  /\ UNCHANGED <<known, score, cases, matched, now, stopped, summary, refused, seen>>

\* scan_raw_file and scan_packet_file, for a socket not alerted on before.
RawSocketAlert(pid) ==
  \E f \in RawSocketFindings :
    /\ f.name \in Enabled
    /\ Handle(pid, <<Add(f, "cfg"), Detail(95, "cfg")>> \o StopCalls)

\* update_syn_scan_track, when the window of the process is over the limits.
SynScanAlert(pid) ==
  /\ SynScanFinding.name \in Enabled
  /\ Handle(pid, <<Add(SynScanFinding, "cfg"), Detail(90, "cfg")>>
                 \o InjectionCalls("cfg") \o StopCalls)

\* rw_update_track: a track that scores is reported; the first time it scores the
\* threshold it is also alerted on, scanned, inspected (without cfg) and stopped.
TrackUpdate(pid) ==
  \E points \in TrackScores :
    /\ ProcTcpFinding(points).name \in Enabled
    /\ \/ Handle(pid, <<Add(ProcTcpFinding(points), "cfg")>>)
       \/ /\ points >= ThresholdOf("cfg")
          /\ Handle(pid, <<Add(ProcTcpFinding(points), "cfg"), Detail(points, "cfg")>>
                         \o InjectionCalls("cfg") \o InjectionCalls("null") \o StopCalls)

\* update_ebpf_connect_track; without a configured threshold it alerts at 85.
EbpfConnect(pid) ==
  \E points \in TrackScores :
    /\ EbpfConnectFinding(points).name \in Enabled
    /\ \/ Handle(pid, <<Add(EbpfConnectFinding(points), "cfg")>>)
       \/ /\ points >= (IF CaseThreshold > 0 THEN CaseThreshold ELSE 85)
          /\ Handle(pid, <<Add(EbpfConnectFinding(points), "cfg"), Detail(points, "cfg")>>)

\* handle_socket_event
EbpfSocket(pid) ==
  \E f \in EbpfSocketFindings :
    /\ f.name \in Enabled
    /\ Handle(pid, <<Add(f, "cfg"), Detail(95, "cfg")>>)

\* rw_syscall_alert
SyscallAlert(pid) ==
  \E f \in SyscallFindings :
    /\ f.name \in Enabled
    /\ Handle(pid, <<Add(f, "cfg"), Detail(f.points, "cfg")>>)

\* rw_fanotify_poll, for a suspicious path.
FileTouched(pid) ==
  /\ FileFinding.name \in Enabled
  /\ Handle(pid, <<Add(FileFinding, "cfg"), Detail(65, "cfg")>> \o InjectionCalls("cfg"))

\* rw_scan_injection_pid from an exec event or from a periodic scan.
InjectionScan(pid) == Handle(pid, InjectionCalls("cfg"))

Detection ==
  \E pid \in Pids :
    \/ RawSocketAlert(pid) \/ SynScanAlert(pid) \/ TrackUpdate(pid)
    \/ EbpfConnect(pid) \/ EbpfSocket(pid) \/ SyscallAlert(pid)
    \/ FileTouched(pid) \/ InjectionScan(pid)

-----------------------------------------------------------------------------
\* rw_score_decay_all, once per round of the main loop.
DecayAll ==
  /\ work = <<>>
  /\ score' = [p \in Pids |-> IF p \in known THEN Decayed(score[p], now) ELSE score[p]]
  /\ UNCHANGED <<known, cases, work, cur, matched, now, stopped, summary, handled, refused, seen>>

\* The whitelist module reloads its rules.
WhitelistPoll ==
  /\ work = <<>>
  /\ EnableWhitelist
  /\ matched' \in SUBSET Pids
  /\ UNCHANGED <<known, score, cases, work, cur, now, stopped, summary, handled, refused, seen>>

\* Time passes, also while a detection is handled.
Tick ==
  /\ \E d \in Elapses : now + d <= MaxTime /\ now' = now + d
  /\ UNCHANGED <<known, score, cases, work, cur, matched, stopped, summary, handled, refused, seen>>

Next == Step \/ Detection \/ DecayAll \/ WhitelistPoll \/ Tick

Spec == Init /\ [][Next]_vars

-----------------------------------------------------------------------------
(***************************************************************************)
(* Properties                                                              *)
(***************************************************************************)
Idle == work = <<>>

\* Every variable has its type: in particular the buckets, floors and scores that
\* rw_score_add and decay_proc compute stay within 0..100.
TypeOK ==
  /\ known \subseteq Pids
  /\ score \in [Pids -> ProcScores]
  /\ cases \in Seq(Cases)
  /\ work \in Seq(Calls)
  /\ cur \in Pids
  /\ matched \subseteq Pids
  /\ now \in Nat
  /\ stopped \subseteq Pids
  /\ summary \in [Pids -> {NoSummary} \union Summaries]
  /\ handled \in Nat
  /\ refused \subseteq Pids
  /\ seen \in [Pids -> SUBSET FindingNames]

\* A process has at most one case, although rw_score_add is entered again from the
\* snapshot of the case it is about to report to.
OneCasePerProcess ==
  \A i, j \in DOMAIN cases : cases[i].pid = cases[j].pid => i = j

\* A snapshot is taken only of a process that has its slot of the case table, and at most
\* one is: the recursion rw_score_add -> rw_case_event -> create_case -> sh_memscan_pid ->
\* rw_score_add goes no deeper than once.
NoNestedSnapshot ==
  /\ \A i \in DOMAIN work : work[i].op = "memscan" => HasCase(cur)
  /\ \A i, j \in DOMAIN work : work[i].op = "memscan" /\ work[j].op = "memscan" => i = j

\* A report that is still to be made never opens a case by itself: the process has one
\* already, or its risk did reach the score that is reported.
PendingJustified ==
  \A i \in DOMAIN work :
    work[i].op = "event" =>
      HasCase(cur) \/ (cur \in known /\ work[i].score <= score[cur].peak)

\* A process has a case only if its risk reached the threshold of the configuration the
\* case was opened under, or if it was sent SIGSTOP; a detail of a detector opens none.
CaseJustified ==
  \A i \in DOMAIN cases :
    LET c == cases[i] IN
      \/ c.pid \in stopped
      \/ c.pid \in known /\ score[c.pid].peak >= ThresholdOf(c.dir)

\* When a detection has been handled, a process whose risk ever reached both thresholds
\* has a case, unless creating it was tried and failed.
CrossingOpensCase ==
  Idle => \A p \in known :
    score[p].peak >= ThresholdOf("cfg") /\ score[p].peak >= ThresholdOf("null")
      => HasCase(p) \/ p \in refused

\* A process that was sent SIGSTOP has a case that says so, unless it could not be created.
StopIsDocumented ==
  Idle => \A p \in stopped : HasCase(p) \/ p \in refused

\* risk_summary.txt is coherent: the risk it states is the one its own buckets, flags and
\* floor amount to, although decay changes these without recomputing the score.
SummaryExplainsRisk ==
  \A p \in Pids :
    LET s == summary[p] IN s.written => s.score = Risk(s.cat, s.flags, s.floor)

\* When a detection has been handled, the summary of every case is up to date with
\* the risk, the peak and the flags the process has in memory.
SummaryUpToDate ==
  Idle => \A p \in known :
    HasCase(p) => /\ summary[p].written
                  /\ summary[p].score = score[p].score
                  /\ summary[p].peak = score[p].peak
                  /\ summary[p].flags = score[p].flags

\* The score is never below what the decayed buckets, flags and floor amount to, nor
\* below the floor, and never above the peak: between findings it may only be stale high.
ScoreBounds ==
  \A p \in known :
    LET s == score[p] IN
      /\ Risk(s.cat, s.flags, s.floor) <= s.score
      /\ s.floor <= s.score
      /\ s.score <= s.peak

(***************************************************************************)
(* What the documentation says and the code does not do                    *)
(***************************************************************************)
\* main.c: a case file is created at the score given by --case-threshold (here without
\* --stop-suspicious).  The inspection of an alerted track scores without configuration.
CaseThresholdHonoured ==
  \A i \in DOMAIN cases :
    LET p == cases[i].pid IN p \in known /\ score[p].peak >= ThresholdOf("cfg")

\* README: an executable memory anomaly and beacon behaviour correlate.
BeaconAndMemoryCorrelate ==
  \A p \in known :
    {"beacon", "rwx"} \subseteq seen[p] => {"BEACON", "EXEC_MEMORY"} \subseteq score[p].flags

\* README: the summary lists the recent scoring events, so the one just scored is among them.
RecentEventListed ==
  [][Running("add") /\ cur \in known =>
       LET e == score'[cur].events IN e[Len(e)] = Head(work).f.name]_vars
=============================================================================
