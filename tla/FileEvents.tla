------------------------------ MODULE FileEvents ------------------------------
(***************************************************************************)
(* The fanotify backend of src/src/platform/fanmon.c.  It watches the      *)
(* whole mount of the root, so it also sees the files that SignalHunter    *)
(* opens itself while it handles an event: its logs, the files of a case,  *)
(* and the executable that a new case takes a copy of.                     *)
(***************************************************************************)
EXTENDS Integers, FiniteSets

CONSTANTS
  Others,         \* the other processes
  Self,           \* SignalHunter
  SuspiciousExe,  \* processes whose executable has a suspicious path
  LogsSuspicious, \* whether the log directory has a suspicious path
  MaxCases,       \* RW_MAX_CASES
  MaxTouches      \* bound: events that other processes cause

Processes == Others \union {Self}

VARIABLES
  queue,    \* events the kernel holds; an event like one that waits is merged with it
  cases,    \* processes that have a case
  touches   \* number of events of other processes so far

\* touch is an open or a close after writing of a file under a suspicious path, exec an
\* execution, log a file under the log directory.
Events == [pid : Processes, file : {"touch", "exec", "log"}]

Init == queue = {} /\ cases = {} /\ touches = 0

FileEvent(p, file) ==
  /\ touches < MaxTouches
  /\ touches' = touches + 1
  /\ queue' = queue \union {[pid |-> p, file |-> file]}
  /\ UNCHANGED cases

Environment == \E p \in Others, file \in {"touch", "exec"} : FileEvent(p, file)

\* rw_suspicious_path of the file of an event
Suspicious(ev) == ev.file = "touch" \/ (ev.file = "log" /\ LogsSuspicious)

Own(file) == [pid |-> Self, file |-> file]

\* Mutant of Snapshotted: a case takes its snapshot again with every event.
SnapshottedAlways(p) == {p}

\* create_case takes the snapshot when the process has no case and the table has room.
Snapshotted(p) == IF p \notin cases /\ Cardinality(cases) < MaxCases THEN {p} ELSE {}

\* dump_exe_to_case opens the executable to copy it.
ExeCopied(ps) == IF ps \intersect SuspiciousExe = {} THEN {} ELSE {Own("touch")}

\* rw_fanotify_poll handles one event.  A suspicious path scores 65, which is enough for a case
\* under the default threshold.  What is logged is written to a file that is open already, but may
\* rotate it, and the files of a case are opened for every line: the handling may open a file of
\* the log directory.
HandleEvent ==
  \E ev \in queue, own \in SUBSET {Own("log")} :
    LET rest == queue \ {ev}
        new  == Snapshotted(ev.pid)
    IN  /\ \/ /\ Suspicious(ev)
              /\ queue' = rest \union own \union ExeCopied(new)
              /\ cases' = cases \union new
           \/ /\ ~Suspicious(ev) /\ ev.file = "exec"
              /\ queue' = rest \union own
              /\ UNCHANGED cases
           \/ /\ ~Suspicious(ev) /\ ev.file # "exec"
              /\ queue' = rest
              /\ UNCHANGED cases
        /\ UNCHANGED touches

\* rw_fanotify_poll returns when read finds nothing.
QueueEmpty == queue = {}
=============================================================================
