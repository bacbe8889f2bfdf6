----------------------------- MODULE Detections -----------------------------
(***************************************************************************)
(* Every rw_score_add call of the detectors, as the finding it reports:    *)
(* the words score.c recognises in its category and reason, and its points.*)
(***************************************************************************)
EXTENDS RiskScore

Finding(name, category, reason, points) ==
  [name |-> name, category |-> category, reason |-> reason, points |-> points]

(***************************************************************************)
(* Network monitor                                                         *)
(***************************************************************************)
RawSocketFindings ==
  {Finding("raw socket", {"raw_socket"}, {"raw"}, 95),
   Finding("packet socket", {"packet_socket"}, {"packet", "raw", "socket"}, 95)}

SynScanFinding == Finding("synscan", {"synscan"}, {"syn_sent"}, 90)

\* The reason of a track is "dst=... seen=... avg=... jitter=...": no known word.
\* Only regular intervals take the score of a track above 60.
ProcTcpFinding(points) ==
  Finding(IF points > 60 THEN "beacon" ELSE "connections", {"tcp"}, {}, points)

(***************************************************************************)
(* eBPF monitor                                                            *)
(***************************************************************************)
EbpfConnectFinding(points) == Finding("ebpf_connect", {"connect", "ebpf_connect"}, {}, points)

EbpfSocketFindings ==
  {Finding("ebpf packet socket", {"raw_socket"}, {"packet"}, 95),
   Finding("ebpf inet socket", {"raw_socket"}, {}, 95)}

\* One per syscall kind that reaches rw_syscall_alert.  An execve only does when its path is
\* suspicious; the path is in the detail of the alert, not in the reason.
SyscallFindings ==
  {Finding("ptrace", {}, {"ptrace"}, 85),
   Finding("process_vm_writev", {}, {"process_vm", "process_vm_writev"}, 85),
   Finding("process_vm_readv", {}, {"process_vm"}, 75),
   Finding("mprotect", {}, {"prot_exec"}, 85),
   Finding("mmap", {}, {"mmap", "prot_exec"}, 85),
   Finding("memfd_create", {}, {"memfd"}, 75),
   Finding("execve in /tmp/", {}, {}, 75),
   Finding("unlink", {}, {}, 75),
   Finding("chmod", {}, {"chmod"}, 75)}

(***************************************************************************)
(* Fanotify, injection scan, memory scan of a case                         *)
(***************************************************************************)
FileFinding == Finding("file", {"file"}, {}, 65)

\* The reason of an executable mapping; at most one per line of /proc/<pid>/maps.
MapFindings ==
  {Finding("rwx", {"inject"}, {"rwx"}, 80),
   Finding("deleted", {"inject"}, {}, 80),
   Finding("memfd", {"inject"}, {"memfd", "executable memfd"}, 80),
   Finding("suspicious path", {"inject"}, {}, 80)}

TracedFinding == Finding("ptraced", {"inject"}, {"ptrace"}, 90)

\* The score of the shellcode scan is capped at 60 by the caller.
ShellcodeScores == {25, 60}

MemoryFindings ==
  {Finding("elf", {"mem"}, {"elf", "elf header"}, 60),
   Finding("pe", {"mem"}, {"pe header"}, 60),
   Finding("rwx scanned", {"mem"}, {"rwx", "scan"}, 25),
   Finding("memfd scanned", {"mem"}, {"memfd", "executable memfd", "scan"}, 35)}
  \union {Finding("shellcode", {"mem"}, {"shellcode"}, points) : points \in ShellcodeScores}
=============================================================================
