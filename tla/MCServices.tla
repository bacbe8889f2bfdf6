------------------------------ MODULE MCServices ------------------------------
(***************************************************************************)
(* An instance of Services for TLC.                                        *)
(***************************************************************************)
EXTENDS Services

CONSTANTS
  a, b, c  \* lines of the log; a and b have the same slot of the filter

\* 0 is a pid that callers may give and that no event is recorded for.
MCPids == 0..2

SlotOfLine == [l \in {a, b, c} |-> IF l = c THEN 2 ELSE 1]
\* Lines of one and of two bytes for files of three.
LineSizes  == [n \in 1..16 |-> IF n % 4 = 0 THEN 2 ELSE 1]
Archives   == 0..3
BothWays   == {-1, 1}

FourBuiltins == <<"whitelist", "proc_connector", "fanotify", "ebpf">>
\* Two shared objects under three paths, one of them given twice, and a third; two slots.
SharedObjects == [path \in {"a.so", "./a.so", "b.so", "c.so"} |->
                    CASE path = "b.so" -> "B" [] path = "c.so" -> "C" [] OTHER -> "A"]
PathsToLoad   == <<"a.so", "b.so", "a.so", "./a.so", "c.so">>

\* A call of each kind of filter.
SomeCalls == {[name |-> "connect", traits |-> {"inet"}],
              [name |-> "socket",  traits |-> {"inet"}],
              [name |-> "socket",  traits |-> {"raw"}],
              [name |-> "mmap",    traits |-> {}],
              [name |-> "mprotect", traits |-> {"exec"}],
              [name |-> "execve",  traits |-> {"suspicious", "unreadable"}],
              [name |-> "chmod",   traits |-> {"sensitive"}]}
=============================================================================
