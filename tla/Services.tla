------------------------------- MODULE Services -------------------------------
(***************************************************************************)
(* The parts that serve the detectors: the ring of events, the copy and    *)
(* hash of an executable and the scan of a memory region; the log, its     *)
(* filter and its archives; the whitelist's file; the modules and the eBPF *)
(* backend.  They share nothing, so a behaviour moves only one of them,    *)
(* named by part; the others stay as they begin.                           *)
(***************************************************************************)
EXTENDS EventRing, FiniteSets

CONSTANTS
  Parts,        \* the components that are exercised
  MaxLength,    \* constants of Evidence
  CopySize,
  HashSize,
  BlockSize,
  FieldSize,
  MaxShort,
  ShortSled,    \* constants of ShellcodeScan
  LongSled,
  ArmSled,
  ThumbSled,
  MipsSled,
  MaxCode,
  MaxRead,
  Lines,        \* constants of LogDedup
  Slots,
  SlotOf,
  NoLine,
  Rates,
  Elapses,
  DedupTime,
  MaxLogged,
  ArchiveCounts, \* constants of LogRotate
  MaxBytes,
  LineSize,
  MaxCrashes,
  MaxFailures,
  PollSeconds,  \* constants of WhitelistReload
  RulesTime,
  MaxVersions,
  Builtins,     \* constants of ModuleManager
  Requests,
  Objects,
  FileOf,
  MaxDynamic,
  Calls,        \* constants of EbpfBackend
  MaxLinks,
  RingSize,
  MaxCalls

\* Buffers hold something, and a block of SHA-256 the length and more; sleds are of a length.
ASSUME ContentAssumption ==
  /\ MaxLength \in Nat /\ MaxShort \in Nat
  /\ CopySize \in Nat \ {0} /\ HashSize \in Nat \ {0}
  /\ BlockSize \in Nat /\ FieldSize \in Nat \ {0} /\ FieldSize < BlockSize
  /\ {ShortSled, LongSled, ArmSled, ThumbSled, MipsSled} \subseteq Nat \ {0}

\* A line has one slot of the filter; paths lead to files; the whitelist is polled every 5 seconds.
ASSUME ServicesAssumption ==
  /\ SlotOf \in [Lines -> Slots] /\ NoLine \notin Lines
  /\ Rates \subseteq Nat /\ Elapses \subseteq Int /\ DedupTime \in Nat /\ MaxLogged \in Nat
  /\ ArchiveCounts \subseteq Nat /\ MaxBytes \in Nat \ {0} /\ LineSize \in Seq(Nat \ {0})
  /\ MaxCrashes \in Nat /\ MaxFailures \in Nat
  /\ PollSeconds \in Nat \ {0} /\ RulesTime \in Nat /\ MaxVersions \in Nat
  /\ Builtins \in Seq(STRING)
  /\ FileOf \in [DOMAIN FileOf -> Objects] /\ IsFiniteSet(DOMAIN FileOf)
  /\ Requests \in Seq(DOMAIN FileOf)
  /\ MaxDynamic \in Nat
  /\ MaxLinks \in Nat /\ RingSize \in Nat /\ MaxCalls \in Nat

VARIABLES
  part,
  exe, dump, chunk, from, cpc, data, datalen, bitlen, blocks, hashed, short, readError,
  code, order, report,
  rateSeconds, dnow, dedup, lines,
  archives, disk, fp, rpc, moving, written, crashes, failures,
  wnow, mtimes, exists, rules, lastMtime, fresh, lastCheck, wpc, seen, failed,
  builtins, plugins, refs, initialized, slots, mpc, upTo, inits, shutdowns, polled, used,
  obj, links, rb, loaded, epc, todo, buffer, counts, calls, lost, handled

copyVars   == <<exe, dump, chunk, from, cpc, data, datalen, bitlen, blocks, hashed, short, readError>>
memoryVars == <<code, order, report>>
dedupVars  == <<rateSeconds, dnow, dedup, lines>>
rotateVars == <<archives, disk, fp, rpc, moving, written, crashes, failures>>
rulesVars  == <<wnow, mtimes, exists, rules, lastMtime, fresh, lastCheck, wpc, seen, failed>>
moduleVars == <<builtins, plugins, refs, initialized, slots, mpc, upTo, inits, shutdowns, polled, used>>
ebpfVars   == <<obj, links, rb, loaded, epc, todo, buffer, counts, calls, lost, handled>>

Copy == INSTANCE Evidence WITH pc <- cpc

Memory == INSTANCE ShellcodeScan

Dedup == INSTANCE LogDedup WITH MaxTime <- DedupTime, MaxCalls <- MaxLogged, now <- dnow, calls <- lines

Rotate == INSTANCE LogRotate WITH pc <- rpc

Whitelist == INSTANCE WhitelistReload WITH MaxTime <- RulesTime, now <- wnow, pc <- wpc, loaded <- fresh

Manager == INSTANCE ModuleManager WITH Files <- Objects, pc <- mpc, next <- upTo

Ebpf == INSTANCE EbpfBackend WITH pc <- epc, ring <- buffer

\* A part that does not move has one of its initial states.
ServicesInit ==
  /\ part \in Parts
  /\ Init /\ Copy!Init /\ Memory!Init /\ Dedup!Init /\ Rotate!Init /\ Whitelist!Init
  /\ Manager!Init /\ Ebpf!Init
  /\ part # "copy" => exe = <<>>
  /\ part # "memory" => order = "little"
  /\ part # "dedup" => rateSeconds = 0
  /\ part # "rotate" => archives = 0
  /\ part # "whitelist" => exists
  /\ part # "manager" => plugins = {}

ServicesNext ==
  \/ /\ part = "ring" /\ Next
     /\ UNCHANGED <<part, copyVars, memoryVars, dedupVars, rotateVars, rulesVars, moduleVars, ebpfVars>>
  \/ /\ part = "copy" /\ Copy!Next
     /\ UNCHANGED <<part, vars, memoryVars, dedupVars, rotateVars, rulesVars, moduleVars, ebpfVars>>
  \/ /\ part = "memory" /\ Memory!Next
     /\ UNCHANGED <<part, vars, copyVars, dedupVars, rotateVars, rulesVars, moduleVars, ebpfVars>>
  \/ /\ part = "dedup" /\ Dedup!Next
     /\ UNCHANGED <<part, vars, copyVars, memoryVars, rotateVars, rulesVars, moduleVars, ebpfVars>>
  \/ /\ part = "rotate" /\ Rotate!Next
     /\ UNCHANGED <<part, vars, copyVars, memoryVars, dedupVars, rulesVars, moduleVars, ebpfVars>>
  \/ /\ part = "whitelist" /\ Whitelist!Next
     /\ UNCHANGED <<part, vars, copyVars, memoryVars, dedupVars, rotateVars, moduleVars, ebpfVars>>
  \/ /\ part = "manager" /\ Manager!Next
     /\ UNCHANGED <<part, vars, copyVars, memoryVars, dedupVars, rotateVars, rulesVars, ebpfVars>>
  \/ /\ part = "ebpf" /\ Ebpf!Next
     /\ UNCHANGED <<part, vars, copyVars, memoryVars, dedupVars, rotateVars, rulesVars, moduleVars>>

allVars == <<part, vars, copyVars, memoryVars, dedupVars, rotateVars, rulesVars, moduleVars, ebpfVars>>

ServicesSpec == ServicesInit /\ [][ServicesNext]_allVars

-----------------------------------------------------------------------------
(***************************************************************************)
(* The properties of the components, each as its module states it          *)
(***************************************************************************)
\* The hash of a case is that of the whole executable (rw_copy_file, rw_sha256_file).
HashIsOfExecutable == Copy!HashIsOfExecutable

\* Code that stands in a region is found in either byte order (sh_shellcode_scan).
CodeIsFound == Memory!CodeIsFound

\* A sled that is reported stands in the region (has_run_byte, scan_mips).
SledsAreContiguous == Memory!SledsAreContiguous

\* A line that is left out was written shortly before (should_emit_line).
SuppressedWasWritten == Dedup!SuppressedWasWritten

\* A line is written again in time, and then tells how often it was left out (should_emit_line).
RepeatsAreReported == Dedup!RepeatsAreReported

\* Log and archives hold the last lines in their order (write_line, rotate_if_needed).
HistoryIsKept == Rotate!HistoryIsKept

\* No log file outgrows its size by more than a line (rotate_if_needed).
DiskIsBounded == Rotate!DiskIsBounded

\* Rules that are not those of the file are noticed by the next poll (reload_rules).
StaleIsNoticed == Whitelist!StaleIsNoticed

\* The manager holds one handle for every slot (init_dynamic_module, rw_modules_shutdown_all).
HandlesMatchSlots == Manager!HandlesMatchSlots

\* A module that had a slot is shut down exactly once (rw_modules_shutdown_all).
ShutDownOnce == Manager!ShutDownOnce

\* A backend that is off has left nothing behind (rw_ebpf_init_backend, rw_ebpf_shutdown).
NothingIsLeft == Ebpf!NothingIsLeft

\* Records are handled in the order of the calls, none twice and none left out (handle_bpf_event).
EveryRecordIsHandled == Ebpf!EveryRecordIsHandled

\* No harmless call raises an alert (handle_socket_event, handle_syscall_event).
AlertsHaveCause == Ebpf!AlertsHaveCause
=============================================================================
