------------------------------ MODULE EbpfBackend ------------------------------
(***************************************************************************)
(* The eBPF backend: the probes of src/src/ebpf/signalhunter_ebpf.bpf.c    *)
(* and, in src/src/platform/ebpfmon.c, their loading and the handling of   *)
(* their records.  A probe fills a record at the entry of a system call    *)
(* and puts it into a ring buffer; a poll of the module handles what the   *)
(* buffer holds.  A system call, and its record, is its name with what the *)
(* code asks of its arguments.                                             *)
(***************************************************************************)
EXTENDS Integers, SequencesExt, FiniteSets

CONSTANTS
  Calls,     \* the system calls that happen, [name, traits]
  MaxLinks,  \* length of g_links
  RingSize,  \* records the ring buffer holds
  MaxCalls   \* bound on the system calls

\* The traits are "inet", a socket of AF_INET or AF_INET6; "raw", a raw or packet socket; "exec",
\* PROT_EXEC; "suspicious" and "sensitive", a path that is suspicious to every detector or to this
\* one alone; and "unreadable", a path on a page the probe cannot read.
Programs == {"connect", "socket", "ptrace", "process_vm_writev", "process_vm_readv", "mprotect",
             "mmap", "memfd_create", "execve", "execveat", "chmod", "fchmodat", "unlink",
             "unlinkat"}

VARIABLES
  obj,       \* g_obj: the object is "none", "open" or "loaded"
  links,     \* g_links: programs that are attached
  rb,        \* g_rb: there is a ring buffer manager
  loaded,    \* g_ebpf_loaded
  pc,        \* where rw_ebpf_init_backend or the caller is
  todo,      \* programs that are not attached yet
  ring,      \* the map "events", oldest record first
  counts,    \* g_events_seen and the counters of the three types
  calls,     \* history: calls of attached programs, and whether they got a record
  lost,      \* history: records that went with the object
  handled    \* history: the records that were handled, and whether they raised an alert

vars == <<obj, links, rb, loaded, pc, todo, ring, counts, calls, lost, handled>>

ZeroCounts == [events |-> 0, connect |-> 0, socket |-> 0, syscall |-> 0]

Init ==
  /\ obj = "none" /\ links = {} /\ rb = FALSE /\ loaded = FALSE
  /\ pc = "start" /\ todo = {}
  /\ ring = <<>>
  /\ counts = ZeroCounts
  /\ calls = <<>> /\ lost = 0 /\ handled = <<>>

-----------------------------------------------------------------------------
(***************************************************************************)
(* Probes and records                                                      *)
(***************************************************************************)
\* Mutant of Traced: every mapping is recorded.
TracedMappings(c) ==
  CASE c.name = "connect"  -> "inet" \in c.traits
    [] c.name = "socket"   -> "raw" \in c.traits
    [] c.name = "mprotect" -> "exec" \in c.traits
    [] OTHER               -> TRUE

\* What makes a probe return before it reserves a record.
Traced(c) ==
  CASE c.name = "connect"  -> "inet" \in c.traits
    [] c.name = "socket"   -> "raw" \in c.traits
    [] c.name = "mprotect" -> "exec" \in c.traits
    [] c.name = "mmap"     -> "exec" \in c.traits
    [] OTHER               -> TRUE

EventType(c) == IF c.name \in {"connect", "socket"} THEN c.name ELSE "syscall"

\* bpf_path_is_suspicious of the path in the record, which is empty when it could not be read.
PathIsSuspicious(c) ==
  "unreadable" \notin c.traits /\ c.traits \intersect {"suspicious", "sensitive"} # {}

ByPath == {"execve", "execveat", "chmod", "fchmodat", "unlink", "unlinkat"}

\* Whether handle_socket_event or handle_syscall_event raises an alert; a connect is handed to
\* its track.
Alerts(c) ==
  /\ c.name # "connect"
  /\ c.name \in ByPath => PathIsSuspicious(c)

\* The entry of a system call whose program is attached.
Call(c) ==
  /\ c.name \in links
  /\ Len(calls) < MaxCalls
  /\ calls' = Append(calls, [call |-> c, recorded |-> Traced(c) /\ Len(ring) < RingSize])
  /\ ring' = IF Traced(c) /\ Len(ring) < RingSize THEN Append(ring, c) ELSE ring
  /\ UNCHANGED <<obj, links, rb, loaded, pc, todo, counts, lost, handled>>

\* The counters of handle_bpf_event.
Counted(c) == [counts EXCEPT !.events = @ + 1, ![EventType(c)] = @ + 1]

\* Mutant of HandleEvent: the newest record is taken.
HandleNewest ==
  /\ pc = "on" /\ rb /\ ring # <<>>
  /\ ring' = Front(ring)
  /\ counts' = Counted(Last(ring))
  /\ handled' = Append(handled, [call |-> Last(ring), alerted |-> Alerts(Last(ring))])
  /\ UNCHANGED <<obj, links, rb, loaded, pc, todo, calls, lost>>

\* handle_bpf_event, called by ring_buffer__poll for one record.
HandleEvent ==
  /\ pc = "on" /\ rb /\ ring # <<>>
  /\ ring' = Tail(ring)
  /\ counts' = Counted(Head(ring))
  /\ handled' = Append(handled, [call |-> Head(ring), alerted |-> Alerts(Head(ring))])
  /\ UNCHANGED <<obj, links, rb, loaded, pc, todo, calls, lost>>

-----------------------------------------------------------------------------
(***************************************************************************)
(* Loading and unloading                                                   *)
(***************************************************************************)
\* rw_ebpf_shutdown: the records that are left go with the object.
Shutdown ==
  /\ loaded' = FALSE /\ rb' = FALSE /\ links' = {} /\ obj' = "none"
  /\ ring' = <<>> /\ lost' = lost + Len(ring)
  /\ pc' = "off" /\ todo' = {}
  /\ UNCHANGED <<counts, calls, handled>>

\* Mutant of FailAfterAttach: the links and the object stay.
FailAfterAttachKeeping ==
  /\ pc' = "off" /\ todo' = {}
  /\ UNCHANGED <<obj, links, rb, loaded, ring, counts, calls, lost, handled>>

\* A step of rw_ebpf_init_backend fails after the programs were to be attached.
FailAfterAttach == Shutdown

\* bpf_object__open_file, with the counters reset before.
Open ==
  /\ pc = "start"
  /\ counts' = ZeroCounts /\ loaded' = FALSE
  /\ \/ obj' = "open" /\ pc' = "load"
     \/ obj' = "none" /\ pc' = "off"
  /\ UNCHANGED <<links, rb, todo, ring, calls, lost, handled>>

Load ==
  /\ pc = "load"
  /\ \/ obj' = "loaded" /\ pc' = "attach" /\ todo' = {c.name : c \in Calls}
     \/ obj' = "none" /\ pc' = "off" /\ UNCHANGED todo
  /\ UNCHANGED <<links, rb, loaded, ring, counts, calls, lost, handled>>

\* One turn of the loop over the programs; one that cannot be attached is passed over.
Attach(p) ==
  /\ pc = "attach" /\ p \in todo /\ Cardinality(links) < MaxLinks
  /\ todo' = todo \ {p}
  /\ \/ links' = links \union {p}
     \/ UNCHANGED links
  /\ UNCHANGED <<obj, rb, loaded, pc, ring, counts, calls, lost, handled>>

\* The loop ends with the programs, or with the places for links.
AttachDone == pc = "attach" /\ (todo = {} \/ Cardinality(links) >= MaxLinks)

\* No program is attached, there is no map, or no ring buffer manager can be made.
InitFails == AttachDone /\ FailAfterAttach

InitSucceeds ==
  /\ AttachDone /\ links # {}
  /\ rb' = TRUE /\ loaded' = TRUE
  /\ pc' = "on" /\ todo' = {}
  /\ UNCHANGED <<obj, links, ring, counts, calls, lost, handled>>

End == pc = "on" /\ Shutdown

Next ==
  \/ Open \/ Load \/ InitFails \/ InitSucceeds \/ End \/ HandleEvent
  \/ \E p \in Programs : Attach(p)
  \/ \E c \in Calls : Call(c)

Spec == Init /\ [][Next]_vars

-----------------------------------------------------------------------------
(***************************************************************************)
(* Properties                                                              *)
(***************************************************************************)
\* Wherever loading stops, it leaves nothing behind: no object, link or ring buffer stays with a
\* backend that is off, and one that is on has all three, though perhaps not every program.
NothingIsLeft ==
  /\ pc \in {"start", "off"} => obj = "none" /\ links = {} /\ ~rb /\ ~loaded /\ ring = <<>>
  /\ loaded <=> pc = "on"
  /\ loaded => obj = "loaded" /\ links # {} /\ rb

\* The calls that got a record, and the number of a record among all.
Recorded  == {j \in DOMAIN calls : calls[j].recorded}
Number(j) == Cardinality({m \in Recorded : m <= j})

\* Records are handled in the order of the calls, none twice and none in between left out: what
\* was handled, what waits and what went with the object make up all records.
EveryRecordIsHandled ==
  /\ Cardinality(Recorded) = Len(handled) + Len(ring) + lost
  /\ \A i \in DOMAIN handled :
       \E j \in Recorded : Number(j) = i /\ handled[i].call = calls[j].call

\* The handlers alert on every socket and every mapping they hear of, so it is the probes that
\* must let nothing harmless pass: no call raises an alert without a raw socket, an executable
\* mapping or a suspicious path, but for those whose name is reason enough.
AlertsHaveCause ==
  \A i \in DOMAIN handled :
    handled[i].alerted =>
      \/ handled[i].call.name \in {"ptrace", "process_vm_writev", "process_vm_readv", "memfd_create"}
      \/ handled[i].call.traits \intersect {"raw", "exec", "suspicious", "sensitive"} # {}
=============================================================================
