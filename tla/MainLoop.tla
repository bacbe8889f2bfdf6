------------------------------- MODULE MainLoop -------------------------------
(***************************************************************************)
(* The loop of rw_monitor_all in src/src/app/main.c, on its one thread:    *)
(* buffers, sockets, modules, decay, the injection scans, sleep.  The scan *)
(* for raw sockets is RawSockets, the poll of the modules is represented   *)
(* by the one of fanotify, FileEvents, whose handling makes new events.    *)
(* Connections are the subject of NetTrack, ConnectTrack and SynScan; the  *)
(* snapshot they share with the raw sockets is taken here.                 *)
(***************************************************************************)
EXTENDS Integers, Sequences, FiniteSets

CONSTANTS
  Pids, Sockets, TableOf, MaxOwners, CacheSize, MaxChanges,             \* of RawSockets
  Others, Self, SuspiciousExe, LogsSuspicious, MaxCases, MaxTouches,    \* of FileEvents
  SelfSeconds,  \* the 5 seconds between two scans of SignalHunter itself
  FullSeconds,  \* cfg->injection_scan_seconds; 0 for no full scans
  MaxRound,     \* bound: seconds from the begin of a round to the begin of the next
  MaxFailures   \* bound: rounds that cannot allocate their buffers

ASSUME MainLoopAssumption ==
  /\ CacheSize \in Nat
  /\ SelfSeconds \in Nat \ {0} /\ FullSeconds \in Nat
  /\ MaxRound \in Nat /\ MaxFailures \in Nat

VARIABLES
  holders, opened, changes, owners, tables, rows, cache, alerts,  \* of RawSockets
  queue, cases, touches,                                          \* of FileEvents
  phase,      \* where the loop is
  inRound,    \* time(NULL) less now, the time the round began
  sinceSelf,  \* seconds since last_self_scan, up to Horizon
  sinceFull,  \* seconds since last_full_injection_scan, up to Horizon
  selfAge,    \* history: seconds since a scan of SignalHunter itself, or since the start
  fullAge,    \* history: seconds since a full scan, or since the start
  failures    \* rounds that could not allocate

Raw   == INSTANCE RawSockets
Files == INSTANCE FileEvents

sockVars == <<holders, opened, changes, owners, tables, rows, cache, alerts>>
fileVars == <<queue, cases, touches>>
timers   == <<inRound, sinceSelf, sinceFull, selfAge, fullAge, failures>>
loopVars == <<sockVars, fileVars, phase, timers>>

\* Longest times that matter: no scan is due later than this.
Horizon == SelfSeconds + FullSeconds + (MaxFailures + 3) * MaxRound
Later(t) == IF t < Horizon THEN t + 1 ELSE t

Init ==
  /\ Raw!Init /\ Files!Init
  /\ phase = "begin" /\ inRound = 0
  /\ sinceSelf = Horizon /\ sinceFull = Horizon
  /\ selfAge = 0 /\ fullAge = 0 /\ failures = 0

-----------------------------------------------------------------------------
(***************************************************************************)
(* The loop                                                                *)
(***************************************************************************)
\* now = time(NULL) and the two allocations.
BeginRound ==
  /\ phase = "begin"
  /\ inRound' = 0
  /\ \/ phase' = "sockets" /\ UNCHANGED failures
     \/ phase' = "sleep" /\ failures < MaxFailures /\ failures' = failures + 1
  /\ UNCHANGED <<sockVars, fileVars, sinceSelf, sinceFull, selfAge, fullAge>>

\* rw_collect_inode_owners to rw_scan_raw_sockets
ScanSockets ==
  /\ phase = "sockets"
  /\ Raw!Scan
  /\ phase' = IF tables' = <<>> /\ rows' = <<>> THEN "poll" ELSE phase
  /\ UNCHANGED <<fileVars, timers>>

\* rw_modules_poll_all, which returns when every module has.
PollFiles ==
  /\ phase = "poll"
  /\ \/ Files!HandleEvent /\ UNCHANGED phase
     \/ Files!QueueEmpty /\ phase' = "scan" /\ UNCHANGED fileVars
  /\ UNCHANGED <<sockVars, timers>>

\* Mutant of FullScanDue: not in a round that has scanned SignalHunter itself.
FullScanDueElse == /\ FullSeconds > 0 /\ sinceFull - inRound >= FullSeconds
                   /\ sinceSelf - inRound < SelfSeconds

SelfScanDue == sinceSelf - inRound >= SelfSeconds
FullScanDue == FullSeconds > 0 /\ sinceFull - inRound >= FullSeconds

\* The scans that are due.  Each remembers when the round began, not when it was made.
ScanInjection ==
  /\ phase = "scan"
  /\ phase' = "sleep"
  /\ sinceSelf' = IF SelfScanDue THEN inRound ELSE sinceSelf
  /\ sinceFull' = IF FullScanDue THEN inRound ELSE sinceFull
  /\ selfAge' = IF SelfScanDue THEN 0 ELSE selfAge
  /\ fullAge' = IF FullScanDue THEN 0 ELSE fullAge
  /\ UNCHANGED <<sockVars, fileVars, inRound, failures>>

\* sleep, from which time(NULL) may return later but never does not return.
Sleep ==
  /\ phase = "sleep"
  /\ phase' = "begin"
  /\ UNCHANGED <<sockVars, fileVars, timers>>

Step == BeginRound \/ ScanSockets \/ PollFiles \/ ScanInjection \/ Sleep

-----------------------------------------------------------------------------
(***************************************************************************)
(* The world around it                                                     *)
(***************************************************************************)
\* A second passes, wherever the loop is.
Tick ==
  /\ inRound < MaxRound
  /\ inRound' = inRound + 1
  /\ sinceSelf' = Later(sinceSelf) /\ sinceFull' = Later(sinceFull)
  /\ selfAge' = Later(selfAge) /\ fullAge' = Later(fullAge)
  /\ UNCHANGED <<sockVars, fileVars, phase, failures>>

SocketsChange == Raw!Environment /\ UNCHANGED <<fileVars, phase, timers>>
FilesChange   == Files!Environment /\ UNCHANGED <<sockVars, phase, timers>>

Next == Step \/ Tick \/ SocketsChange \/ FilesChange

\* The thread runs.  Nothing else is fair.
Spec == Init /\ [][Next]_loopVars /\ WF_loopVars(Step)

-----------------------------------------------------------------------------
(***************************************************************************)
(* Properties                                                              *)
(***************************************************************************)
\* Rounds go on: although handling a file event makes file events, the poll comes to an end.
RoundsGoOn == []<>(phase = "begin")

\* No scan is skipped for good: the last one is never longer ago than its interval and the two
\* rounds in which it may just not be due and then be the last thing done, besides those without
\* memory.
ScansAreFresh ==
  /\ selfAge <= SelfSeconds - 1 + (2 + failures) * MaxRound
  /\ FullSeconds > 0 => fullAge <= FullSeconds - 1 + (2 + failures) * MaxRound

\* Of the sockets scanned by this loop: whoever is accused of the same socket in another round is
\* so because the cache of raw_alert_seen is full.
RepeatOnlyWhenFull == Raw!RepeatOnlyWhenFull
=============================================================================
