----------------------------- MODULE MCScoreCase -----------------------------
(***************************************************************************)
(* Instances of ScoreCase for TLC.                                         *)
(***************************************************************************)
EXTENDS ScoreCase

CONSTANTS p1, p2

OnePid  == {p1}
TwoPids == {p1, p2}
NoPids  == {}

CoreFindings == {"raw socket", "deleted", "shellcode", "beacon", "process_vm_readv"}
CoreElapses  == {900}
NoElapses    == {}
CoreTracks   == {30, 90}

\* Findings of every detector.
WideFindings == {"packet socket", "synscan", "beacon", "connections", "ebpf_connect",
                 "ebpf inet socket", "ptrace", "process_vm_writev", "chmod", "file",
                 "rwx", "ptraced", "shellcode"}
WideTracks   == {25, 85}

\* Findings of the runs that show a disagreement with the documentation.
InspectFindings == {"beacon", "deleted"}
BeaconFindings  == {"beacon", "rwx"}
HighTracks      == {90}
=============================================================================
