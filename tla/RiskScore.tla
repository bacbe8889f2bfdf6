------------------------------ MODULE RiskScore ------------------------------
(***************************************************************************)
(* The explainable risk model of src/src/core/score.c as pure operators:   *)
(* how one finding is classified, what it adds, and what risk the buckets, *)
(* the flags and the floor of a process amount to.                         *)
(*                                                                         *)
(* Findings.  score.c looks at the category and the reason of a finding    *)
(* only through contains_ci, so a string is modelled by the set of the     *)
(* needles it contains: "RWX mapping scanned" is {"rwx", "scan"}.          *)
(***************************************************************************)
EXTENDS Integers, Sequences

CONSTANT MaxEvents   \* length of rw_proc_score_t.events (the header is not in the repository)

ASSUME MaxEventsAssumption == MaxEvents \in Nat

Categories == {"memory", "network", "process", "filesystem", "lineage"}

FlagNames == {"RWX", "MEMFD", "NOP", "BEACON", "RAW_SOCKET", "SYNSCAN", "TMP_EXEC",
              "PTRACE", "PROCESS_VM", "PE_ELF", "SUSPICIOUS_FILE", "EXEC_MEMORY"}

Percent == 0..100

\* The needles that contains_ci is ever called with, for a category and for a reason.
CategoryWords == {"mem", "inject", "net", "tcp", "connect", "ebpf_connect", "raw_socket",
                  "packet_socket", "synscan", "file", "lineage", "ptrace", "process_vm"}

ReasonWords == {"rwx", "memfd", "executable memfd", "nop", "shellcode", "elf", "elf header",
                "pe header", "beacon", "reconnect", "socket", "chmod", "/tmp/", "/dev/shm/",
                "temporary", "parent", "child", "process tree", "raw", "packet", "syn_sent",
                "scan", "ptrace", "process_vm", "process_vm_writev", "mmap", "prot_exec"}

\* The detectors' calls of rw_score_add (module Detections).
FindingNames == {"raw socket", "packet socket", "synscan", "beacon", "connections", "ebpf_connect",
                 "ebpf packet socket", "ebpf inet socket", "ptrace", "process_vm_writev",
                 "process_vm_readv", "mprotect", "mmap", "memfd_create", "execve in /tmp/",
                 "unlink", "chmod", "file", "rwx", "deleted", "memfd", "suspicious path",
                 "ptraced", "elf", "pe", "rwx scanned", "memfd scanned", "shellcode"}

\* The arguments of one rw_score_add call; name identifies the detector's call.
Findings == [name : FindingNames, category : SUBSET CategoryWords,
             reason : SUBSET ReasonWords, points : 1..100]

RW_DECAY_SECONDS == 30
RW_DECAY_AMOUNT  == 1

(***************************************************************************)
(* Arithmetic helpers                                                      *)
(***************************************************************************)
Larger(a, b) == IF a > b THEN a ELSE b

\* Mutant of ClampInt: no upper end.
ClampIntBelow(v, low, high) == IF v < low THEN low ELSE v

ClampInt(v, low, high) == IF v < low THEN low ELSE IF v > high THEN high ELSE v

CategoryHas(f, words) == f.category \cap words # {}
ReasonHas(f, words)   == f.reason \cap words # {}

(***************************************************************************)
(* Classification of a finding                                             *)
(***************************************************************************)
\* The first test that matches decides the bucket.
ClassifyCategory(f) ==
  IF CategoryHas(f, {"mem", "inject"}) \/ ReasonHas(f, {"rwx", "memfd", "nop", "elf", "pe header"})
    THEN "memory"
  ELSE IF \/ CategoryHas(f, {"net", "tcp", "connect", "raw_socket", "packet_socket", "synscan"})
          \/ ReasonHas(f, {"beacon", "socket"})
    THEN "network"
  ELSE IF CategoryHas(f, {"file"}) \/ ReasonHas(f, {"chmod", "/tmp/", "/dev/shm/"})
    THEN "filesystem"
  ELSE IF CategoryHas(f, {"lineage"}) \/ ReasonHas(f, {"parent", "child", "process tree"})
    THEN "lineage"
  ELSE "process"

\* Every flag is raised by its own words, several flags may come from one word.
ClassifyFlags(f) ==
  {flag \in FlagNames :
     \/ flag = "RWX"             /\ ReasonHas(f, {"rwx"})
     \/ flag = "MEMFD"           /\ ReasonHas(f, {"memfd"})
     \/ flag = "NOP"             /\ ReasonHas(f, {"nop", "shellcode"})
     \/ flag = "BEACON"          /\ (ReasonHas(f, {"beacon", "reconnect"}) \/ CategoryHas(f, {"connect"}))
     \/ flag = "RAW_SOCKET"      /\ \/ CategoryHas(f, {"raw_socket", "packet_socket"})
                                    \/ ReasonHas(f, {"raw", "packet"})
     \/ flag = "SYNSCAN"         /\ (CategoryHas(f, {"synscan"}) \/ ReasonHas(f, {"syn_sent", "scan"}))
     \/ flag = "TMP_EXEC"        /\ ReasonHas(f, {"/tmp/", "/dev/shm/", "temporary"})
     \/ flag = "SUSPICIOUS_FILE" /\ ReasonHas(f, {"/tmp/", "/dev/shm/", "temporary"})
     \/ flag = "PTRACE"          /\ (ReasonHas(f, {"ptrace"}) \/ CategoryHas(f, {"ptrace"}))
     \/ flag = "PROCESS_VM"      /\ (ReasonHas(f, {"process_vm"}) \/ CategoryHas(f, {"process_vm"}))
     \/ flag = "PE_ELF"          /\ ReasonHas(f, {"elf header", "pe header"})
     \/ flag = "EXEC_MEMORY"     /\ ReasonHas(f, {"rwx", "memfd", "elf header", "pe header"})}

\* The risk below which the finding alone does not let the process fall.
DefaultFloor(f) ==
  IF ReasonHas(f, {"ptrace"}) THEN 90
  ELSE IF CategoryHas(f, {"raw_socket", "packet_socket"}) THEN 90
  ELSE IF ReasonHas(f, {"process_vm_writev"}) THEN 85
  ELSE IF ReasonHas(f, {"executable memfd"}) THEN 78
  ELSE IF ReasonHas(f, {"rwx"}) THEN 75
  ELSE IF ReasonHas(f, {"nop", "shellcode"}) THEN 70
  ELSE IF f.points >= 90 THEN 80
  ELSE 0

NormalizedPoints(f, browser) ==
  LET capped  == IF CategoryHas(f, {"ebpf_connect"}) /\ f.points > 25 THEN 25 ELSE f.points
      reduced == IF /\ browser
                    /\ ClassifyCategory(f) = "memory"
                    /\ ReasonHas(f, {"mmap", "prot_exec"})
                 THEN capped \div 3 ELSE capped
  IN  ClampInt(reduced, 1, 100)

\* What a whitelist match leaves of the points and of the floor.
WhitelistedPoints(points, percent) == Larger((points * percent) \div 100, 1)
WhitelistedFloor(floor, percent)   == (floor * percent) \div 100

(***************************************************************************)
(* Risk of a process, from its flags, buckets and floor                    *)
(***************************************************************************)
CorrelationBonus(flags) ==
  LET Pair(a, b, bonus) == IF {a, b} \subseteq flags THEN bonus ELSE 0
  IN  ClampInt(  Pair("MEMFD", "NOP", 25)
               + Pair("EXEC_MEMORY", "BEACON", 20)
               + Pair("RWX", "RAW_SOCKET", 25)
               + Pair("TMP_EXEC", "BEACON", 20)
               + Pair("RAW_SOCKET", "SYNSCAN", 20)
               + Pair("PTRACE", "PROCESS_VM", 25)
               + Pair("TMP_EXEC", "EXEC_MEMORY", 15)
               + Pair("PE_ELF", "RWX", 15), 0, 60)

StrongestCategory(cat) ==
  Larger(cat["memory"], Larger(cat["network"], Larger(cat["process"],
         Larger(cat["filesystem"], cat["lineage"]))))

\* The weighted mix of the buckets, or 85% of the strongest bucket when that is more.
WeightedScore(cat) ==
  LET mix == (  cat["memory"] * 30 + cat["network"] * 25 + cat["process"] * 20
              + cat["filesystem"] * 15 + cat["lineage"] * 10) \div 100
  IN  ClampInt(Larger(mix, (StrongestCategory(cat) * 85) \div 100), 0, 100)

Risk(cat, flags, floor) ==
  ClampInt(Larger(WeightedScore(cat) + CorrelationBonus(flags), floor), 0, 100)

(***************************************************************************)
(* The score record of a process                                           *)
(***************************************************************************)
ProcScores == [cat : [Categories -> Percent], flags : SUBSET FlagNames, floor : Percent,
               score : Percent, peak : Percent, opened : BOOLEAN,
               lastDecay : Nat, events : Seq(FindingNames)]

FreshScore(now) ==
  [cat |-> [c \in Categories |-> 0], flags |-> {}, floor |-> 0, score |-> 0, peak |-> 0,
   opened |-> FALSE, lastDecay |-> now, events |-> <<>>]

\* Whole decay periods since the last one that was applied; none if the clock went back.
DecayPeriods(p, now) ==
  IF now > p.lastDecay THEN (now - p.lastDecay) \div RW_DECAY_SECONDS ELSE 0

\* Buckets and floor lose one point per whole period.  The score is not recomputed.
Decayed(p, now) ==
  LET n    == DecayPeriods(p, now)
      Lose(v) == ClampInt(v - n * RW_DECAY_AMOUNT, 0, 100)
  IN  [p EXCEPT !.cat = [c \in Categories |-> Lose(@[c])],
                !.floor = Lose(@),
                !.lastDecay = @ + n * RW_DECAY_SECONDS]

Recomputed(p) ==
  LET risk == Risk(p.cat, p.flags, p.floor)
  IN  [p EXCEPT !.score = risk, !.peak = Larger(@, risk)]

\* The events array stops growing when it is full.
EventRecorded(p, f) ==
  IF Len(p.events) < MaxEvents THEN [p EXCEPT !.events = Append(@, f.name)] ELSE p

\* Points, flags and floor of finding f added to the record; percent is the share of the
\* points and of the floor that a whitelisted process keeps.
Accounted(p, f, browser, listed, percent) ==
  LET bucket == ClassifyCategory(f)
      full   == NormalizedPoints(f, browser)
      points == IF listed THEN WhitelistedPoints(full, percent) ELSE full
      floor  == IF listed THEN WhitelistedFloor(DefaultFloor(f), percent) ELSE DefaultFloor(f)
  IN  [p EXCEPT !.cat[bucket] = ClampInt(@ + points, 0, 100),
                !.flags = @ \union ClassifyFlags(f),
                !.floor = Larger(@, floor)]

\* Mutant of WithFinding: the floor is raised after the score was recomputed.
WithFindingFloorLate(p, f, browser, listed, percent, now) ==
  LET old   == Decayed(p, now)
      added == Accounted(old, f, browser, listed, percent)
  IN  EventRecorded([Recomputed([added EXCEPT !.floor = old.floor]) EXCEPT !.floor = added.floor], f)

\* Mutant of WithFinding: the decay that is due is applied last.
WithFindingDecayLate(p, f, browser, listed, percent, now) ==
  EventRecorded(Decayed(Recomputed(Accounted(p, f, browser, listed, percent)), now), f)

\* The record after rw_score_add has accounted for finding f.
WithFinding(p, f, browser, listed, percent, now) ==
  EventRecorded(Recomputed(Accounted(Decayed(p, now), f, browser, listed, percent)), f)
=============================================================================
