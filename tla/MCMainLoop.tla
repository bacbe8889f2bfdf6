------------------------------ MODULE MCMainLoop ------------------------------
(***************************************************************************)
(* Instances of MainLoop for TLC.  In a behaviour only one part of the     *)
(* world around the loop moves: the sockets, the files, or the clock and   *)
(* the memory.  The parts share no state but the phase of the loop.        *)
(***************************************************************************)
EXTENDS MainLoop

CONSTANT Parts  \* the parts of the world that move

VARIABLE part

\* Two packet sockets and a raw one, for two processes.
MCPids    == 1..2
MCTableOf == [s \in Sockets |-> IF s = "raw" THEN "raw4" ELSE "packet"]

MCInit == part \in Parts /\ Init

MCNext ==
  \/ part = "clock" /\ (Step \/ Tick) /\ UNCHANGED part
  \/ part = "sockets" /\ ((Step /\ UNCHANGED failures) \/ SocketsChange) /\ UNCHANGED part
  \/ part = "files" /\ ((Step /\ UNCHANGED failures) \/ FilesChange) /\ UNCHANGED part

MCSpec == MCInit /\ [][MCNext]_<<loopVars, part>> /\ WF_<<loopVars, part>>(Step /\ UNCHANGED part)

\* The properties of the scan for raw sockets, of the sockets of this loop.
PacketSocketIsAlerted == Raw!PacketSocketIsAlerted
RawSocketIsAlerted    == Raw!RawSocketIsAlerted
=============================================================================
