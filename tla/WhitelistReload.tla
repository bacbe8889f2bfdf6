---------------------------- MODULE WhitelistReload ----------------------------
(***************************************************************************)
(* The reload of the rules of src/src/core/whitelist.c.  A poll looks at   *)
(* the time of the last change of the file and, when it is another one,    *)
(* reads the file, which may be edited in between.                         *)
(***************************************************************************)
EXTENDS Integers, Sequences

CONSTANTS
  PollSeconds,  \* the 5 seconds between two checks
  MaxTime,      \* bound: the last second
  MaxVersions   \* bound on the edits of the file

VARIABLES
  now,        \* time(NULL)
  mtimes,     \* mtimes[v]: the time of the vth edit of the file
  exists,     \* the file is there, holding its last version
  rules,      \* the version whose rules are in g_rules, 0 for the builtin ones alone
  lastMtime,  \* g_last_mtime
  loaded,     \* g_loaded
  lastCheck,  \* last_check of rw_whitelist_poll
  pc,         \* where rw_whitelist_init or rw_whitelist_poll is
  seen,       \* the version stat found, 0 for none
  failed      \* history: the last load could not open the file

vars == <<now, mtimes, exists, rules, lastMtime, loaded, lastCheck, pc, seen, failed>>

Version == Len(mtimes)

Init ==
  /\ now = PollSeconds
  /\ mtimes = <<1>>
  /\ exists \in BOOLEAN
  /\ rules = 0 /\ lastMtime = 0 /\ loaded = FALSE /\ lastCheck = 0
  /\ pc = "init" /\ seen = 0
  /\ failed = FALSE

(***************************************************************************)
(* The administrator                                                       *)
(***************************************************************************)
Edit ==
  /\ Version < MaxVersions
  /\ mtimes' = Append(mtimes, now)
  /\ exists' = TRUE
  /\ UNCHANGED <<now, rules, lastMtime, loaded, lastCheck, pc, seen, failed>>

Delete ==
  /\ exists /\ exists' = FALSE
  /\ UNCHANGED <<now, mtimes, rules, lastMtime, loaded, lastCheck, pc, seen, failed>>

\* The file is put back as it was, with its old time.
Restore ==
  /\ ~exists /\ exists' = TRUE
  /\ UNCHANGED <<now, mtimes, rules, lastMtime, loaded, lastCheck, pc, seen, failed>>

Tick ==
  /\ now < MaxTime
  /\ now' = now + 1
  /\ UNCHANGED <<mtimes, exists, rules, lastMtime, loaded, lastCheck, pc, seen, failed>>

(***************************************************************************)
(* reload_rules                                                            *)
(***************************************************************************)
\* rw_whitelist_poll, which does nothing when it has checked less than PollSeconds ago.
BeginPoll ==
  /\ pc = "idle"
  /\ now - lastCheck >= PollSeconds
  /\ lastCheck' = now
  /\ pc' = "poll"
  /\ UNCHANGED <<now, mtimes, exists, rules, lastMtime, loaded, seen, failed>>

\* stat fails: the rules stay, but at the start there are only the builtin ones.
Unavailable ==
  /\ pc \in {"init", "poll"} /\ ~exists
  /\ IF ~loaded \/ pc = "init" THEN rules' = 0 /\ loaded' = TRUE ELSE UNCHANGED <<rules, loaded>>
  /\ pc' = "idle"
  /\ UNCHANGED <<now, mtimes, exists, lastMtime, lastCheck, seen, failed>>

\* The file has the time of the last load.
Unchanged ==
  /\ pc = "poll" /\ exists
  /\ loaded /\ mtimes[Version] = lastMtime
  /\ pc' = "idle"
  /\ UNCHANGED <<now, mtimes, exists, rules, lastMtime, loaded, lastCheck, seen, failed>>

\* The time of the file is another one, or the poll is that of rw_whitelist_init.
Stat ==
  /\ pc \in {"init", "poll"} /\ exists
  /\ pc = "init" \/ ~loaded \/ mtimes[Version] # lastMtime
  /\ seen' = Version
  /\ pc' = "load"
  /\ UNCHANGED <<now, mtimes, exists, rules, lastMtime, loaded, lastCheck, failed>>

\* Mutant of Loaded: the time of the file is taken after it has been read.
LoadedLate == lastMtime' = mtimes[Version] /\ loaded' = TRUE

\* The time that stat gave is remembered, whether the file could be read or not.
Loaded == lastMtime' = mtimes[seen] /\ loaded' = TRUE

\* The file is read; nothing has been written to it since, so what was read stays.
Load ==
  /\ pc = "load" /\ exists
  /\ rules' = Version
  /\ failed' = FALSE
  /\ pc' = "loaded"
  /\ UNCHANGED <<now, mtimes, exists, lastMtime, loaded, lastCheck, seen>>

\* fopen fails, or the file has been deleted: the builtin rules replace the ones there were.
LoadFails ==
  /\ pc = "load"
  /\ rules' = 0
  /\ failed' = TRUE
  /\ pc' = "loaded"
  /\ UNCHANGED <<now, mtimes, exists, lastMtime, loaded, lastCheck, seen>>

EndLoad ==
  /\ pc = "loaded"
  /\ Loaded
  /\ pc' = "idle"
  /\ UNCHANGED <<now, mtimes, exists, rules, lastCheck, seen, failed>>

Next ==
  \/ Edit \/ Delete \/ Restore \/ Tick
  \/ BeginPoll \/ Unavailable \/ Unchanged \/ Stat \/ Load \/ LoadFails \/ EndLoad

Spec == Init /\ [][Next]_vars

-----------------------------------------------------------------------------
(***************************************************************************)
(* Properties                                                              *)
(***************************************************************************)
\* Rules that are not those of the file are noticed by the next poll, however edits, deletions
\* and loads interleave, unless the file could not be opened, or was edited again within the
\* second of the version that was read.
StaleIsNoticed ==
  pc = "idle" /\ exists /\ ~failed =>
    \/ rules = Version
    \/ mtimes[Version] # lastMtime
    \/ rules # 0 /\ mtimes[Version] = mtimes[rules]
=============================================================================
