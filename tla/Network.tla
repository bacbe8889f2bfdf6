------------------------------- MODULE Network -------------------------------
(***************************************************************************)
(* The three tables that watch a process on the network: the connection    *)
(* tracks of NetTrack and the SYN windows of SynScan, both kept by         *)
(* src/src/net/netmon.c, and the connect tracks of ConnectTrack, kept by   *)
(* src/src/platform/ebpfmon.c.  They share nothing, so a behaviour moves   *)
(* only one of them, named by part; the others stay as they begin.         *)
(***************************************************************************)
EXTENDS NetTrack

CONSTANTS
  Parts,             \* the tables that are exercised
  ConnectWebPorts,   \* constants of ConnectTrack
  ConnectThreshold,
  ConnectTracks,
  ConnectIntervals,
  ConnectElapses,
  RingSize,
  Round,
  ConnectTime,
  ConnectLimits,
  Pids,              \* constants of SynScan
  Targets,
  Window,
  SynLimit,
  UniqueLimit,
  KeySlots,
  SynTracks,
  SynTime,
  SynSightings

\* update_syn_scan_track asks for 30 or 80 sightings of 20 or 48 targets and has 64 places for them.
ASSUME NetworkAssumption ==
  /\ ConnectThreshold \in Int
  /\ ConnectTracks \in Nat /\ ConnectIntervals \in Nat \ {0}
  /\ ConnectElapses \subseteq Nat /\ RingSize \in Nat /\ Round \in Nat /\ ConnectTime \in Nat
  /\ ConnectLimits \in [Keys -> Nat]
  /\ Window \in Nat /\ SynLimit \in Nat /\ UniqueLimit \in Nat \ {0} /\ KeySlots \in Nat
  /\ UniqueLimit <= SynLimit /\ UniqueLimit <= KeySlots
  /\ SynTracks \in Nat /\ SynTime \in Nat
  /\ SynSightings \in [Pids -> Nat]

VARIABLES
  part,
  ctime, cring, cpolling, cpollEnd, ctracked, ctrack, cconnectAt, cseenAt, calerts,
  stime, stracked, swindow, ssightings, salerts

cvars == <<ctime, cring, cpolling, cpollEnd, ctracked, ctrack, cconnectAt, cseenAt, calerts>>
svars == <<stime, stracked, swindow, ssightings, salerts>>

Connects == INSTANCE ConnectTrack WITH
  WebPorts <- ConnectWebPorts, CaseThreshold <- ConnectThreshold, MaxTracks <- ConnectTracks,
  MaxIntervals <- ConnectIntervals, Elapses <- ConnectElapses, MaxTime <- ConnectTime,
  MaxConnects <- ConnectLimits,
  now <- ctime, ring <- cring, polling <- cpolling, pollEnd <- cpollEnd, tracked <- ctracked,
  track <- ctrack, connectAt <- cconnectAt, seenAt <- cseenAt, alerts <- calerts

Syns == INSTANCE SynScan WITH
  MaxTracks <- SynTracks, MaxTime <- SynTime, MaxSightings <- SynSightings,
  now <- stime, tracked <- stracked, window <- swindow, sightings <- ssightings, alerts <- salerts

NetworkInit == part \in Parts /\ Init /\ Connects!Init /\ Syns!Init

NetworkNext ==
  \/ part = "tracks" /\ Next /\ UNCHANGED <<part, cvars, svars>>
  \/ part = "connects" /\ Connects!Next /\ UNCHANGED <<part, vars, svars>>
  \/ part = "syns" /\ Syns!Next /\ UNCHANGED <<part, vars, cvars>>

NetworkSpec == NetworkInit /\ [][NetworkNext]_<<part, vars, cvars, svars>>

-----------------------------------------------------------------------------
(***************************************************************************)
(* The properties of the tables, each as its module states it              *)
(***************************************************************************)
\* Both tables of tracks keep the last gaps between the sightings of a destination.
SightingsImplemented == ImplementsSightings /\ Connects!ImplementsSightings

\* A sighting is taken within one round after a call of connect (update_ebpf_connect_track).
SightingIsFresh == Connects!SightingIsFresh

\* An alert on a destination is for regular gaps and for as many calls of connect, and given once.
AlertHasReconnects == Connects!AlertHasReconnects

\* An alert on a scan is for sightings and targets of one window (update_syn_scan_track).
AlertIsForOneWindow == Syns!AlertIsForOneWindow

\* A scan that is large enough does not hide at the seam of two windows (update_syn_scan_track).
LargeScanAlerts == Syns!LargeScanAlerts
=============================================================================
