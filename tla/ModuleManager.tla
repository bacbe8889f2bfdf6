----------------------------- MODULE ModuleManager -----------------------------
(***************************************************************************)
(* The module manager of src/src/core/module.c.  The builtin modules are   *)
(* initialised in the order of their table, then the plugins of the        *)
(* configuration file and of the plugin directory are loaded.  A plugin is *)
(* a shared object: dlopen of a file that is mapped already gives the same *)
(* handle and module again and counts the reference.                       *)
(***************************************************************************)
EXTENDS Integers, Sequences, FiniteSets

CONSTANTS
  Builtins,   \* g_modules, a sequence
  Requests,   \* the paths to load, in order: those of the file, then those of the directory
  Files,      \* shared objects
  FileOf,     \* FileOf[path]: the file it leads to
  MaxDynamic  \* RW_MAX_DYNAMIC_MODULES

VARIABLES
  builtins,     \* builtin modules that are initialised
  plugins,      \* files that hold an enabled module of the right ABI
  refs,         \* refs[f]: references the dynamic linker counts; 0 when it is not mapped
  initialized,  \* files whose module is initialised
  slots,        \* g_dynamic_modules: the path and the file of each
  pc,           \* where the manager is
  next,         \* the next builtin or request
  inits,        \* history: inits[f]: calls of init that succeeded
  shutdowns,    \* history: shutdowns[f]: calls of shutdown
  polled,       \* history: polled[f]: polls in the last round
  used          \* history: files that had a slot

vars == <<builtins, plugins, refs, initialized, slots, pc, next, inits, shutdowns, polled, used>>

Init ==
  /\ builtins = {}
  /\ plugins \in SUBSET Files
  /\ refs = [f \in Files |-> 0]
  /\ initialized = {}
  /\ slots = <<>>
  /\ pc = "builtins" /\ next = 1
  /\ inits = [f \in Files |-> 0] /\ shutdowns = [f \in Files |-> 0]
  /\ polled = [f \in Files |-> 0]
  /\ used = {}

SlotsOf(f) == {i \in DOMAIN slots : slots[i].file = f}
Paths      == {slots[i].path : i \in DOMAIN slots}

(***************************************************************************)
(* Initialisation                                                          *)
(***************************************************************************)
\* A builtin that is disabled or fails is passed over.
InitBuiltin ==
  /\ pc = "builtins" /\ next <= Len(Builtins)
  /\ \E on \in BOOLEAN : builtins' = IF on THEN builtins \union {Builtins[next]} ELSE builtins
  /\ next' = next + 1
  /\ UNCHANGED <<plugins, refs, initialized, slots, pc, inits, shutdowns, polled, used>>

BeginLoad ==
  /\ pc = "builtins" /\ next > Len(Builtins)
  /\ pc' = "load" /\ next' = 1
  /\ UNCHANGED <<builtins, plugins, refs, initialized, slots, inits, shutdowns, polled, used>>

Request == Requests[next]
File    == FileOf[Request]

Loading ==
  /\ pc = "load" /\ next <= Len(Requests)
  /\ next' = next + 1
  /\ UNCHANGED <<builtins, plugins, pc, polled>>

\* dynamic_module_already_loaded compares paths, not files.
AlreadyLoaded ==
  /\ Loading /\ Request \in Paths
  /\ UNCHANGED <<refs, initialized, slots, inits, shutdowns, used>>

\* dlopen fails, or dlclose follows it: there is no entry symbol, the ABI is another one, the
\* module is disabled, or its init fails.  A module that stays mapped under another path keeps
\* what it is.
Refuse ==
  /\ Loading /\ Request \notin Paths
  /\ UNCHANGED <<refs, initialized, slots, inits, shutdowns, used>>

\* Mutant of RefuseAtLimit: the handle is kept.
RefuseAtLimitOpen ==
  /\ Loading /\ Request \notin Paths
  /\ File \in plugins /\ Len(slots) >= MaxDynamic
  /\ inits' = [inits EXCEPT ![File] = @ + 1]
  /\ refs' = [refs EXCEPT ![File] = @ + 1]
  /\ UNCHANGED <<initialized, slots, shutdowns, used>>

\* Init succeeds and the table is full: the handle is closed without a call of shutdown.
RefuseAtLimit ==
  /\ Loading /\ Request \notin Paths
  /\ File \in plugins /\ Len(slots) >= MaxDynamic
  /\ inits' = [inits EXCEPT ![File] = @ + 1]
  /\ UNCHANGED <<refs, initialized, slots, shutdowns, used>>

Accept ==
  /\ Loading /\ Request \notin Paths
  /\ File \in plugins /\ Len(slots) < MaxDynamic
  /\ inits' = [inits EXCEPT ![File] = @ + 1]
  /\ initialized' = initialized \union {File}
  /\ refs' = [refs EXCEPT ![File] = @ + 1]
  /\ slots' = Append(slots, [path |-> Request, file |-> File])
  /\ used' = used \union {File}
  /\ UNCHANGED shutdowns

EndLoad ==
  /\ pc = "load" /\ next > Len(Requests)
  /\ pc' = "running"
  /\ UNCHANGED <<builtins, plugins, refs, initialized, slots, next, inits, shutdowns, polled, used>>

(***************************************************************************)
(* Polls and shutdown                                                      *)
(***************************************************************************)
\* rw_modules_poll_all: every initialised module, once for each of its slots.
PollAll ==
  /\ pc = "running"
  /\ polled' = [f \in Files |-> IF f \in initialized THEN Cardinality(SlotsOf(f)) ELSE 0]
  /\ UNCHANGED <<builtins, plugins, refs, initialized, slots, pc, next, inits, shutdowns, used>>

BeginShutdown ==
  /\ pc = "running"
  /\ pc' = "shutdown" /\ next' = 1
  /\ builtins' = {}
  /\ UNCHANGED <<plugins, refs, initialized, slots, inits, shutdowns, polled, used>>

\* Mutant of ShutdownSlot: initialized is not reset.
ShutdownSlotAgain ==
  /\ pc = "shutdown" /\ next <= Len(slots)
  /\ LET f == slots[next].file
     IN  /\ shutdowns' = [shutdowns EXCEPT ![f] = IF f \in initialized THEN @ + 1 ELSE @]
         /\ refs' = [refs EXCEPT ![f] = @ - 1]
  /\ next' = next + 1
  /\ UNCHANGED <<builtins, plugins, initialized, slots, pc, inits, polled, used>>

\* One slot of rw_modules_shutdown_all: shutdown, if the module is still initialised, and dlclose.
ShutdownSlot ==
  /\ pc = "shutdown" /\ next <= Len(slots)
  /\ LET f == slots[next].file
     IN  /\ shutdowns' = [shutdowns EXCEPT ![f] = IF f \in initialized THEN @ + 1 ELSE @]
         /\ initialized' = initialized \ {f}
         /\ refs' = [refs EXCEPT ![f] = @ - 1]
  /\ next' = next + 1
  /\ UNCHANGED <<builtins, plugins, slots, pc, inits, polled, used>>

EndShutdown ==
  /\ pc = "shutdown" /\ next > Len(slots)
  /\ slots' = <<>>
  /\ pc' = "stopped"
  /\ UNCHANGED <<builtins, plugins, refs, initialized, next, inits, shutdowns, polled, used>>

Next ==
  \/ InitBuiltin \/ BeginLoad \/ AlreadyLoaded \/ Refuse \/ RefuseAtLimit \/ Accept \/ EndLoad
  \/ PollAll \/ BeginShutdown \/ ShutdownSlot \/ EndShutdown

Spec == Init /\ [][Next]_vars

-----------------------------------------------------------------------------
(***************************************************************************)
(* Properties                                                              *)
(***************************************************************************)
\* Slots that rw_modules_shutdown_all has not come to yet.
LiveSlotsOf(f) == IF pc = "shutdown" THEN {i \in SlotsOf(f) : i >= next} ELSE SlotsOf(f)

\* The manager holds one handle for every slot and none besides, and no path has two slots, so a
\* module that it may poll or shut down is mapped, also when one file has several paths, and
\* refusals leave no file mapped.  A round polls it at most once for each path.
HandlesMatchSlots ==
  /\ Cardinality(Paths) = Len(slots) /\ Len(slots) <= MaxDynamic
  /\ \A f \in Files : refs[f] = Cardinality(LiveSlotsOf(f))
  /\ \A f \in initialized : refs[f] > 0
  /\ \A f \in Files : polled[f] <= Cardinality({path \in DOMAIN FileOf : FileOf[path] = f})

\* In the end every module that had a slot was shut down exactly once, also one that was loaded
\* under several paths, and initialised as often; a module refused at the limit never was.
ShutDownOnce ==
  pc = "stopped" =>
    \A f \in Files : shutdowns[f] = (IF f \in used THEN 1 ELSE 0)
=============================================================================
