---------------------------- MODULE MainLoopProofs ----------------------------
(***************************************************************************)
(* Two safety properties of the main loop, for all processes, sockets and  *)
(* sizes of its tables, all intervals of its scans and any length of a     *)
(* round: no scan is skipped for good, and nobody is accused again of the  *)
(* same socket unless the cache is full.                                   *)
(***************************************************************************)
EXTENDS MainLoop, FiniteSetTheorems, TLAPS

\* What round n adds to the bound of an age, once for every round before it.
LEMMA OneMore ==
  ASSUME NEW n \in Nat, NEW r \in Nat
  PROVE  (1 + n) * r = n * r + r /\ (2 + n) * r = n * r + r + r /\ n * r \in Nat
OBVIOUS

-----------------------------------------------------------------------------
(***************************************************************************)
(* The age of the scans                                                    *)
(***************************************************************************)
Times == /\ phase \in {"begin", "sockets", "poll", "scan", "sleep"}
         /\ inRound \in 0..MaxRound
         /\ sinceSelf \in Nat /\ sinceFull \in Nat
         /\ selfAge \in Nat /\ fullAge \in Nat
         /\ failures \in Nat

\* A scan that ran when mark was set is not older than the mark; and a round that may still make
\* it has one round more behind it than one that has made it or found that it was not due.
AgeBound(age, since, seconds) ==
  /\ age <= since
  /\ age <= seconds - 1 + failures * MaxRound + inRound
            + (IF phase \in {"sockets", "poll", "scan"} THEN MaxRound ELSE 0)

ScanInv ==
  /\ Times
  /\ AgeBound(selfAge, sinceSelf, SelfSeconds)
  /\ FullSeconds > 0 => AgeBound(fullAge, sinceFull, FullSeconds)

LEMMA ScanInvInit == Init => ScanInv
<1> SUFFICES ASSUME Init PROVE ScanInv
  OBVIOUS
<1>1. (MaxFailures + 3) * MaxRound \in Nat
  BY MainLoopAssumption
<1>2. Horizon \in Nat
  BY <1>1, MainLoopAssumption DEF Horizon
<1>3. failures * MaxRound \in Nat
  BY OneMore, MainLoopAssumption DEF Init
<1> QED BY <1>2, <1>3, MainLoopAssumption DEF Init, ScanInv, Times, AgeBound

\* A second that passes makes neither an age nor a mark jump.
LEMMA LaterFacts ==
  ASSUME NEW t \in Nat, NEW u \in Nat, t <= u
  PROVE  Later(t) \in Nat /\ Later(t) <= t + 1 /\ t <= Later(t) /\ Later(t) <= Later(u)
<1>1. (MaxFailures + 3) * MaxRound \in Nat
  BY MainLoopAssumption
<1>2. Horizon \in Nat
  BY <1>1, MainLoopAssumption DEF Horizon
<1> QED BY <1>2 DEF Later

LEMMA ScanInvNext == ScanInv /\ [Next]_loopVars => ScanInv'
<1> SUFFICES ASSUME ScanInv, [Next]_loopVars PROVE ScanInv'
  OBVIOUS
<1> USE MainLoopAssumption
<1>0. /\ failures * MaxRound \in Nat
      /\ (1 + failures) * MaxRound = failures * MaxRound + MaxRound
  BY OneMore DEF ScanInv, Times
<1>1. CASE BeginRound
  <2>1. CASE phase' = "sockets" /\ UNCHANGED failures
    BY <1>0, <1>1, <2>1 DEF BeginRound, ScanInv, Times, AgeBound
  <2>2. CASE phase' = "sleep" /\ failures' = failures + 1
    <3>1. failures' * MaxRound = failures * MaxRound + MaxRound
      BY <1>0, <2>2 DEF ScanInv, Times
    <3> QED BY <1>0, <1>1, <2>2, <3>1 DEF BeginRound, ScanInv, Times, AgeBound
  <2> QED BY <1>1, <2>1, <2>2 DEF BeginRound
<1>2. CASE ScanSockets
  BY <1>0, <1>2 DEF ScanSockets, timers, ScanInv, Times, AgeBound
<1>3. CASE PollFiles
  BY <1>0, <1>3 DEF PollFiles, timers, ScanInv, Times, AgeBound
<1>4. CASE ScanInjection
  <2>1. Times'
    BY <1>4 DEF ScanInjection, ScanInv, Times
  <2>2. AgeBound(selfAge, sinceSelf, SelfSeconds)'
    BY <1>0, <1>4 DEF ScanInjection, SelfScanDue, ScanInv, Times, AgeBound
  <2>3. FullSeconds > 0 => AgeBound(fullAge, sinceFull, FullSeconds)'
    BY <1>0, <1>4 DEF ScanInjection, FullScanDue, ScanInv, Times, AgeBound
  <2> QED BY <2>1, <2>2, <2>3 DEF ScanInv
<1>5. CASE Sleep
  BY <1>0, <1>5 DEF Sleep, timers, ScanInv, Times, AgeBound
<1>6. CASE Tick
  <2>1. AgeBound(selfAge, sinceSelf, SelfSeconds)'
    <3>1. /\ Later(selfAge) \in Nat /\ Later(selfAge) <= selfAge + 1
          /\ Later(selfAge) <= Later(sinceSelf)
      BY LaterFacts DEF ScanInv, Times, AgeBound
    <3> QED BY <1>0, <1>6, <3>1 DEF Tick, ScanInv, Times, AgeBound
  <2>2. FullSeconds > 0 => AgeBound(fullAge, sinceFull, FullSeconds)'
    <3> SUFFICES ASSUME FullSeconds > 0 PROVE AgeBound(fullAge, sinceFull, FullSeconds)'
      OBVIOUS
    <3>1. /\ Later(fullAge) \in Nat /\ Later(fullAge) <= fullAge + 1
          /\ Later(fullAge) <= Later(sinceFull)
      BY LaterFacts DEF ScanInv, Times, AgeBound
    <3> QED BY <1>0, <1>6, <3>1 DEF Tick, ScanInv, Times, AgeBound
  <2>3. Times'
    <3>1. \A t \in Nat : Later(t) \in Nat
      BY LaterFacts
    <3> QED BY <1>6, <3>1 DEF Tick, ScanInv, Times
  <2> QED BY <2>1, <2>2, <2>3 DEF ScanInv
<1>7. CASE SocketsChange \/ FilesChange \/ UNCHANGED loopVars
  BY <1>0, <1>7 DEF SocketsChange, FilesChange, loopVars, timers, ScanInv, Times, AgeBound
<1> QED BY <1>1, <1>2, <1>3, <1>4, <1>5, <1>6, <1>7 DEF Next, Step

\* Whatever happens in a round and however long it takes, the scan of SignalHunter itself and the
\* full scan are never longer ago than their intervals and two rounds, besides those that could
\* not allocate their buffers.
THEOREM NoScanIsSkipped == Spec => []ScansAreFresh
<1>1. ScanInv => ScansAreFresh
  <2> SUFFICES ASSUME ScanInv PROVE ScansAreFresh
    OBVIOUS
  <2>1. (2 + failures) * MaxRound = failures * MaxRound + MaxRound + MaxRound
        /\ failures * MaxRound \in Nat
    BY OneMore, MainLoopAssumption DEF ScanInv, Times
  <2> QED BY <2>1, MainLoopAssumption DEF ScanInv, Times, AgeBound, ScansAreFresh
<1> QED BY <1>1, ScanInvInit, ScanInvNext, PTL DEF Spec

-----------------------------------------------------------------------------
(***************************************************************************)
(* The cache of raw alerts                                                 *)
(***************************************************************************)
\* Nobody is in the cache who was not alerted on, and who was alerted on is in the cache, or did
\* not fit into it.
CacheInv ==
  /\ IsFiniteSet(cache) /\ Cardinality(cache) <= CacheSize
  /\ alerts \in [Pids \X Sockets -> 0..2]
  /\ \A k \in Pids \X Sockets :
       /\ alerts[k] > 0 => k \in cache \/ Cardinality(cache) = CacheSize
       /\ k \in cache => alerts[k] # 2

\* RawSockets has its own instance of FiniteSets.
LEMMA SameCardinality == \A S : Raw!Cardinality(S) = Cardinality(S)
BY DEF Raw!Cardinality, Cardinality

LEMMA CacheInvInit == Init => CacheInv
BY FS_EmptySet, MainLoopAssumption DEF Init, Raw!Init, CacheInv

\* A row whose owner and socket are not in the cache.
LEMMA AlertKeepsCacheInv ==
  ASSUME CacheInv, NEW k, k \notin cache, cache' = Raw!Remembered(k),
         alerts' = [alerts EXCEPT ![k] = IF @ < 2 THEN @ + 1 ELSE @]
  PROVE  CacheInv'
<1>0. CacheSize \in Nat /\ Cardinality(cache) \in Nat
  BY MainLoopAssumption, FS_CardinalityType DEF CacheInv
<1>1. alerts' \in [Pids \X Sockets -> 0..2]
  <2> DEFINE D == Pids \X Sockets
  <2>1. alerts \in [D -> 0..2]
    BY DEF CacheInv
  <2> HIDE DEF D
  <2>2. \A l \in D : alerts'[l] \in 0..2
    BY <2>1
  <2>3. alerts' \in [D -> 0..2]
    BY <2>1, <2>2
  <2> QED BY <2>3 DEF D
<1>2. CASE Cardinality(cache) < CacheSize
  <2>1. cache' = cache \union {k}
    BY <1>2, SameCardinality DEF Raw!Remembered
  <2>2. IsFiniteSet(cache') /\ Cardinality(cache') = Cardinality(cache) + 1
    BY <2>1, FS_AddElement DEF CacheInv
  <2>3. ASSUME NEW l \in Pids \X Sockets
        PROVE  /\ alerts'[l] > 0 => l \in cache' \/ Cardinality(cache') = CacheSize
               /\ l \in cache' => alerts'[l] # 2
    <3>1. CASE l = k
      <4>1. alerts[k] = 0
        BY <1>0, <1>2, <3>1 DEF CacheInv
      <4> QED BY <2>1, <3>1, <4>1 DEF CacheInv
    <3>2. CASE l # k
      <4>1. alerts'[l] = alerts[l]
        BY <3>2 DEF CacheInv
      <4> QED BY <1>0, <1>2, <2>1, <3>2, <4>1 DEF CacheInv
    <3> QED BY <3>1, <3>2
  <2> QED BY <1>0, <1>1, <1>2, <2>2, <2>3 DEF CacheInv
<1>3. CASE ~(Cardinality(cache) < CacheSize)
  <2>1. cache' = cache /\ Cardinality(cache) = CacheSize
    BY <1>0, <1>3, SameCardinality DEF Raw!Remembered, CacheInv
  <2>2. ASSUME NEW l \in Pids \X Sockets, l \in cache PROVE alerts'[l] # 2
    BY <2>2 DEF CacheInv
  <2> QED BY <1>0, <1>1, <2>1, <2>2 DEF CacheInv
<1> QED BY <1>2, <1>3

LEMMA CacheInvNext == CacheInv /\ [Next]_loopVars => CacheInv'
<1> SUFFICES ASSUME CacheInv, [Next]_loopVars PROVE CacheInv'
  OBVIOUS
<1>1. CASE Raw!ScanRow
  <2> DEFINE k == <<Raw!FirstOwner(Head(rows)), Head(rows)>>
  <2>1. CASE Raw!OwnersOf(Head(rows)) = {} \/ k \in cache
    BY <1>1, <2>1 DEF Raw!ScanRow, CacheInv
  <2>2. CASE ~(Raw!OwnersOf(Head(rows)) = {} \/ k \in cache)
    <3>1. /\ cache' = Raw!Remembered(k)
          /\ alerts' = [alerts EXCEPT ![k] = IF @ < 2 THEN @ + 1 ELSE @]
          /\ k \notin cache
      BY <1>1, <2>2 DEF Raw!ScanRow
    <3> HIDE DEF k
    <3> QED BY <3>1, AlertKeepsCacheInv
  <2> QED BY <2>1, <2>2
<1>2. CASE UNCHANGED <<cache, alerts>>
  BY <1>2 DEF CacheInv
<1>3. Raw!ScanRow \/ UNCHANGED <<cache, alerts>>
  BY DEF Next, Step, BeginRound, ScanSockets, PollFiles, ScanInjection, Sleep, Tick, SocketsChange,
         FilesChange, sockVars, loopVars, Raw!Scan, Raw!Snapshot, Raw!ReadTable, Raw!Environment,
         Raw!OpenSocket, Raw!Inherit, Raw!CloseSocket, Raw!SetHolders
<1> QED BY <1>1, <1>2, <1>3

\* Whatever sockets are opened, inherited and closed while the daemon scans, a process is accused
\* again of the same socket only when the cache is full and does not hold it.
THEOREM RepeatsNeedAFullCache == Spec => []RepeatOnlyWhenFull
<1>1. CacheInv => RepeatOnlyWhenFull
  BY SameCardinality DEF CacheInv, RepeatOnlyWhenFull, Raw!RepeatOnlyWhenFull
<1> QED BY <1>1, CacheInvInit, CacheInvNext, PTL DEF Spec
=============================================================================
