---------------------------- MODULE ServicesProofs ----------------------------
(***************************************************************************)
(* What the services promise for every size of their tables, rings and     *)
(* files: the ring of events, the eBPF backend, the modules, the           *)
(* whitelist's file and the log.                                           *)
(***************************************************************************)
EXTENDS Services, FiniteSetTheorems, SequenceTheorems, TLAPS

\* A behaviour of the services is one of each of them.
LEMMA ServicesAreManager == ServicesSpec => Manager!Spec
<1>1. ServicesInit => Manager!Init
  BY DEF ServicesInit
<1>2. [ServicesNext]_allVars => [Manager!Next]_(Manager!vars)
  <2>1. UNCHANGED moduleVars => UNCHANGED Manager!vars
    BY DEF moduleVars, Manager!vars
  <2> QED BY <2>1 DEF ServicesNext, allVars
<1> QED BY <1>1, <1>2, PTL DEF ServicesSpec, Manager!Spec

LEMMA ServicesAreWhitelist == ServicesSpec => Whitelist!Spec
<1>1. ServicesInit => Whitelist!Init
  BY DEF ServicesInit
<1>2. [ServicesNext]_allVars => [Whitelist!Next]_(Whitelist!vars)
  <2>1. UNCHANGED rulesVars => UNCHANGED Whitelist!vars
    BY DEF rulesVars, Whitelist!vars
  <2> QED BY <2>1 DEF ServicesNext, allVars
<1> QED BY <1>1, <1>2, PTL DEF ServicesSpec, Whitelist!Spec

LEMMA ServicesAreDedup == ServicesSpec => Dedup!Spec
<1>1. ServicesInit => Dedup!Init
  BY DEF ServicesInit
<1>2. [ServicesNext]_allVars => [Dedup!Next]_(Dedup!vars)
  <2>1. UNCHANGED dedupVars => UNCHANGED Dedup!vars
    BY DEF dedupVars, Dedup!vars
  <2> QED BY <2>1 DEF ServicesNext, allVars
<1> QED BY <1>1, <1>2, PTL DEF ServicesSpec, Dedup!Spec

LEMMA ServicesAreRotate == ServicesSpec => Rotate!Spec
<1>1. ServicesInit => Rotate!Init
  BY DEF ServicesInit
<1>2. [ServicesNext]_allVars => [Rotate!Next]_(Rotate!vars)
  <2>1. UNCHANGED rotateVars => UNCHANGED Rotate!vars
    BY DEF rotateVars, Rotate!vars
  <2> QED BY <2>1 DEF ServicesNext, allVars
<1> QED BY <1>1, <1>2, PTL DEF ServicesSpec, Rotate!Spec

LEMMA ServicesAreEbpf == ServicesSpec => Ebpf!Spec
<1>1. ServicesInit => Ebpf!Init
  BY DEF ServicesInit
<1>2. [ServicesNext]_allVars => [Ebpf!Next]_(Ebpf!vars)
  <2>1. UNCHANGED ebpfVars => UNCHANGED Ebpf!vars
    BY DEF ebpfVars, Ebpf!vars
  <2> QED BY <2>1 DEF ServicesNext, allVars
<1> QED BY <1>1, <1>2, PTL DEF ServicesSpec, Ebpf!Spec

\* Instances take Cardinality from FiniteSets through their module.
LEMMA SameCardinality ==
  \A S : /\ Manager!Cardinality(S) = Cardinality(S) /\ Ebpf!Cardinality(S) = Cardinality(S)
         /\ Dedup!Cardinality(S) = Cardinality(S)
BY DEF Manager!Cardinality, Ebpf!Cardinality, Dedup!Cardinality, Cardinality

-----------------------------------------------------------------------------
(***************************************************************************)
(* The ring of events                                                      *)
(***************************************************************************)
\* Places wrap around at most once: the sums that index the array are below twice its size.
LEMMA WrapOnce ==
  ASSUME NEW k \in 0..(2 * MaxEvents - 1)
  PROVE  k % MaxEvents = IF k < MaxEvents THEN k ELSE k - MaxEvents
<1> DEFINE d == k \div MaxEvents
           r == k % MaxEvents
<1>0. MaxEvents \in Nat \ {0}
  BY EventRingAssumption
<1>1. d \in Int /\ r \in 0..(MaxEvents - 1) /\ k = MaxEvents * d + r
  BY <1>0
<1> HIDE DEF d, r
<1>2. d >= 0
  <2>1. SUFFICES ASSUME d <= -1 PROVE FALSE
    BY <1>1
  <2>2. MaxEvents * d <= MaxEvents * (-1)
    BY <1>0, <1>1, <2>1
  <2> QED BY <1>0, <1>1, <2>2
<1>3. d < 2
  <2>1. SUFFICES ASSUME d >= 2 PROVE FALSE
    BY <1>1
  <2>2. MaxEvents * d >= MaxEvents * 2
    BY <1>0, <1>1, <2>1
  <2> QED BY <1>0, <1>1, <2>2
<1>4. CASE d = 0
  BY <1>0, <1>1, <1>4 DEF r
<1>5. CASE d = 1
  BY <1>0, <1>1, <1>5 DEF r
<1> QED BY <1>1, <1>2, <1>3, <1>4, <1>5

-----------------------------------------------------------------------------
(***************************************************************************)
(* The array                                                               *)
(***************************************************************************)
\* The places below the count hold records, and the next place is the first free one.
THEOREM RingTypeCorrect == Spec => []TypeOK
<1>0. MaxEvents \in Nat \ {0} /\ Pids \subseteq Int
  BY EventRingAssumption
<1>1. Init => TypeOK
  BY <1>0 DEF Init, TypeOK, Places
<1>2. TypeOK /\ [Next]_vars => TypeOK'
  <2> SUFFICES ASSUME TypeOK, [Next]_vars PROVE TypeOK'
    OBVIOUS
  <2>1. ASSUME NEW pid \in Pids, NEW detail \in Details, Add(pid, detail) PROVE TypeOK'
    <3>1. next + 1 \in 0..(2 * MaxEvents - 1)
      BY <1>0 DEF TypeOK, Places
    <3>2. next' = IF next + 1 < MaxEvents THEN next + 1 ELSE next + 1 - MaxEvents
      <4> DEFINE k == next + 1
      <4>1. next' = k % MaxEvents /\ k \in 0..(2 * MaxEvents - 1)
        BY <2>1, <3>1 DEF Add
      <4> HIDE DEF k
      <4>2. next' = IF k < MaxEvents THEN k ELSE k - MaxEvents
        BY <4>1, WrapOnce
      <4> QED BY <1>0, <4>2 DEF k, TypeOK, Places
    <3>3. count' = IF count < MaxEvents THEN count + 1 ELSE count
      BY <2>1 DEF Add
    <3>4. [pid |-> pid, detail |-> detail] \in Records
      BY <2>1 DEF Add, Records
    <3>5. count' \in 0..MaxEvents /\ next' \in Places /\ (count' < MaxEvents => next' = count')
      BY <1>0, <3>2, <3>3 DEF TypeOK, Places
    <3>6. ring' \in [Places -> Records \union {Zeroed}]
      BY <2>1, <3>4 DEF TypeOK, Add
    <3>7. ASSUME NEW i \in 0..(count' - 1) PROVE ring'[i] \in Records
      <4>1. i \in Places
        BY <1>0, <3>3 DEF TypeOK, Places
      <4>2. CASE i = next
        BY <2>1, <3>4, <4>1, <4>2 DEF TypeOK, Add
      <4>3. CASE i # next
        <5>1. i \in 0..(count - 1)
          BY <1>0, <3>3, <4>1, <4>3 DEF TypeOK, Places
        <5> QED BY <2>1, <4>1, <4>3, <5>1 DEF TypeOK, Add
      <4> QED BY <4>2, <4>3
    <3> QED BY <3>5, <3>6, <3>7 DEF TypeOK
  <2>2. ASSUME NEW case \in Pids, NEW related \in SUBSET Pids, WriteTimeline(case, related)
        PROVE  TypeOK'
    BY <2>2 DEF TypeOK, WriteTimeline
  <2>3. CASE UNCHANGED vars
    BY <2>3 DEF TypeOK, vars
  <2> QED BY <2>1, <2>2, <2>3 DEF Next
<1> QED BY <1>1, <1>2, PTL DEF Spec

-----------------------------------------------------------------------------
(***************************************************************************)
(* The walk                                                                *)
(***************************************************************************)
\* The records of the walk: it begins at next in a full array and at 0 before.
WalkFacts ==
  /\ Walk \in Seq(Records) /\ Len(Walk) = count
  /\ count < MaxEvents => \A i \in 1..count : Walk[i] = ring[i - 1]
  /\ count = MaxEvents =>
       \A i \in 1..count :
         Walk[i] = ring[IF next + i - 1 < MaxEvents THEN next + i - 1 ELSE next + i - 1 - MaxEvents]

\* The walk of rw_event_write_timeline visits count records, and each place only once.
LEMMA WalkAt == TypeOK => WalkFacts
<1> SUFFICES ASSUME TypeOK PROVE WalkFacts
  OBVIOUS
<1>0. MaxEvents \in Nat \ {0} /\ count \in 0..MaxEvents /\ next \in 0..(MaxEvents - 1)
  BY EventRingAssumption DEF TypeOK, Places
<1>1. ASSUME NEW i \in 1..count, count < MaxEvents PROVE Walk[i] = ring[i - 1]
  <2>1. Start = 0 /\ Start + i - 1 = i - 1 /\ i - 1 \in 0..(2 * MaxEvents - 1) /\ i - 1 < MaxEvents
    BY <1>0, <1>1 DEF Start
  <2>2. (Start + i - 1) % MaxEvents = i - 1
    BY <2>1, WrapOnce
  <2> QED BY <2>2 DEF Walk
<1>2. ASSUME NEW i \in 1..count, count = MaxEvents
      PROVE  Walk[i] = ring[IF next + i - 1 < MaxEvents THEN next + i - 1 ELSE next + i - 1 - MaxEvents]
  <2>1. Start = next /\ next + i - 1 \in 0..(2 * MaxEvents - 1)
    BY <1>0, <1>2 DEF Start
  <2> DEFINE k == next + i - 1
  <2>2. Walk[i] = ring[k % MaxEvents]
    BY <2>1 DEF Walk
  <2>3. k \in 0..(2 * MaxEvents - 1)
    BY <2>1
  <2> HIDE DEF k
  <2>4. Walk[i] = ring[IF k < MaxEvents THEN k ELSE k - MaxEvents]
    BY <2>2, <2>3, WrapOnce
  <2> QED BY <1>0, <2>4 DEF k
<1>3. ASSUME NEW i \in 1..count PROVE Walk[i] \in Records
  <2>1. CASE count < MaxEvents
    <3>1. i - 1 \in 0..(count - 1)
      BY <1>0
    <3> QED BY <1>1, <2>1, <3>1 DEF TypeOK
  <2>2. CASE count = MaxEvents
    <3> DEFINE k == IF next + i - 1 < MaxEvents THEN next + i - 1 ELSE next + i - 1 - MaxEvents
    <3>1. k \in 0..(count - 1)
      BY <1>0, <2>2
    <3>2. Walk[i] = ring[k]
      BY <1>2, <2>2
    <3> HIDE DEF k
    <3> QED BY <3>1, <3>2 DEF TypeOK
  <2> QED BY <1>0, <2>1, <2>2
<1>4. Walk \in Seq(Records) /\ Len(Walk) = count
  <2> DEFINE at(i) == ring[(Start + i - 1) % MaxEvents]
  <2>1. Walk = [i \in 1..count |-> at(i)]
    BY DEF Walk
  <2>2. \A i \in 1..count : at(i) \in Records
    BY <1>3, <2>1
  <2> HIDE DEF at
  <2> QED BY <1>0, <2>1, <2>2
<1> QED BY <1>1, <1>2, <1>4 DEF WalkFacts

\* A record added to the array is appended to the walk; in a full array the walk loses its head.
LEMMA WalkExtended ==
  ASSUME TypeOK, TypeOK', NEW pid \in Pids, NEW detail \in Details, Add(pid, detail)
  PROVE  Walk' = Append(IF Len(Walk) < MaxEvents THEN Walk ELSE Tail(Walk),
                        [pid |-> pid, detail |-> detail])
<1> DEFINE ev == [pid |-> pid, detail |-> detail]
           kept == IF Len(Walk) < MaxEvents THEN Walk ELSE Tail(Walk)
           n == IF count < MaxEvents THEN count + 1 ELSE count
<1>0. MaxEvents \in Nat \ {0} /\ count \in 0..MaxEvents /\ next \in 0..(MaxEvents - 1)
  BY EventRingAssumption DEF TypeOK, Places
<1>1. /\ ring' = [ring EXCEPT ![next] = ev] /\ ring \in [Places -> Records \union {Zeroed}]
      /\ count' = n
  BY DEF Add, TypeOK
<1>2. next' = IF next + 1 < MaxEvents THEN next + 1 ELSE 0
  <2>1. CASE next + 1 < MaxEvents
    <3> DEFINE k == next + 1
    <3>1. next' = k % MaxEvents /\ k \in 0..(2 * MaxEvents - 1) /\ k < MaxEvents
      BY <1>0, <2>1 DEF Add
    <3> HIDE DEF k
    <3>2. next' = k
      BY <3>1, WrapOnce
    <3> QED BY <2>1, <3>2 DEF k
  <2>2. CASE next + 1 >= MaxEvents
    <3> DEFINE k == next + 1
    <3>1. next' = k % MaxEvents /\ k \in 0..(2 * MaxEvents - 1) /\ k = MaxEvents
      BY <1>0, <2>2 DEF Add
    <3> HIDE DEF k
    <3>2. next' = k - MaxEvents
      BY <1>0, <3>1, WrapOnce
    <3> QED BY <1>0, <2>2, <3>1, <3>2
  <2> QED BY <1>0, <2>1, <2>2
<1>3. WalkFacts
  BY WalkAt
<1>4. WalkFacts'
  BY WalkAt, PTL
<1>5. Records' = Records
  BY DEF Records
<1>6. kept \in Seq(Records) /\ Len(kept) = n - 1
  BY <1>0, <1>3 DEF WalkFacts
<1>7. ASSUME NEW i \in 1..(n - 1) PROVE Walk'[i] = kept[i]
  <2>1. CASE count < MaxEvents
    <3>1. kept[i] = ring[i - 1] /\ i - 1 \in Places /\ i - 1 # next
      BY <1>0, <1>3, <2>1 DEF TypeOK, Places, WalkFacts
    <3>2. ring'[i - 1] = ring[i - 1]
      BY <1>1, <3>1
    <3>3. CASE count' < MaxEvents
      BY <1>0, <1>1, <1>4, <2>1, <3>1, <3>2, <3>3 DEF WalkFacts
    <3>4. CASE count' = MaxEvents
      <4>1. next' = 0
        BY <1>0, <1>1, <1>2, <2>1, <3>4 DEF TypeOK
      <4> QED BY <1>0, <1>1, <1>4, <2>1, <3>1, <3>2, <3>4, <4>1 DEF WalkFacts
    <3> QED BY <1>0, <1>1, <2>1, <3>3, <3>4
  <2>2. CASE count = MaxEvents
    <3> DEFINE k == IF next + i < MaxEvents THEN next + i ELSE next + i - MaxEvents
    <3>1. k \in Places /\ k # next
      BY <1>0, <2>2 DEF Places
    <3>2. ring'[k] = ring[k]
      BY <1>1, <3>1
    <3>3. kept[i] = ring[k]
      BY <1>0, <1>3, <2>2 DEF WalkFacts
    <3>4. Walk'[i] = ring'[k]
      <4>1. count' = MaxEvents /\ i \in 1..count'
        BY <1>0, <1>1, <2>2
      <4>2. Walk'[i] = ring'[IF next' + i - 1 < MaxEvents THEN next' + i - 1 ELSE next' + i - 1 - MaxEvents]
        BY <1>4, <4>1 DEF WalkFacts
      <4>3. CASE next + 1 < MaxEvents
        BY <1>0, <1>2, <4>2, <4>3
      <4>4. CASE next + 1 = MaxEvents
        BY <1>0, <1>2, <2>2, <4>1, <4>2, <4>4
      <4> QED BY <1>0, <4>3, <4>4
    <3> QED BY <3>2, <3>3, <3>4
  <2> QED BY <1>0, <2>1, <2>2
<1>8. Walk'[n] = ev
  <2>1. ring'[next] = ev
    BY <1>0, <1>1 DEF Places
  <2>2. CASE count < MaxEvents /\ count + 1 < MaxEvents
    BY <1>0, <1>1, <1>4, <2>1, <2>2 DEF TypeOK, WalkFacts
  <2>3. CASE count < MaxEvents /\ count + 1 = MaxEvents
    <3>1. next = count /\ next' = 0 /\ count' = MaxEvents
      BY <1>0, <1>1, <1>2, <2>3 DEF TypeOK
    <3> QED BY <1>0, <1>4, <2>1, <2>3, <3>1 DEF WalkFacts
  <2>4. CASE count = MaxEvents
    <3>1. count' = MaxEvents /\ n = MaxEvents /\ n \in 1..count'
      BY <1>0, <1>1, <2>4
    <3>2. Walk'[n] = ring'[IF next' + n - 1 < MaxEvents THEN next' + n - 1 ELSE next' + n - 1 - MaxEvents]
      BY <1>4, <3>1 DEF WalkFacts
    <3>3. CASE next + 1 < MaxEvents
      BY <1>0, <1>2, <2>1, <3>1, <3>2, <3>3
    <3>4. CASE next + 1 = MaxEvents
      BY <1>0, <1>2, <2>1, <3>1, <3>2, <3>4
    <3> QED BY <1>0, <3>3, <3>4
  <2> QED BY <1>0, <2>2, <2>3, <2>4
<1>9. ev \in Records
  BY DEF Records, Add
<1> DEFINE longer == Append(kept, ev)
           after == Walk'
<1>10. longer \in Seq(Records) /\ Len(longer) = n /\ longer[n] = ev
       /\ \A i \in 1..(n - 1) : longer[i] = kept[i]
  <2>1. n \in Nat
    BY <1>0
  <2> HIDE DEF kept, ev, n
  <2> QED BY <1>6, <1>9, <2>1
<1>11. after \in Seq(Records) /\ Len(after) = n
  BY <1>1, <1>4, <1>5 DEF WalkFacts
<1>12. \A i \in 1..n : after[i] = longer[i]
  <2>1. n \in Nat \ {0}
    BY <1>0
  <2> HIDE DEF kept, ev, longer, n
  <2>2. ASSUME NEW i \in 1..n, i # n PROVE after[i] = longer[i]
    <3>1. i \in 1..(n - 1)
      BY <2>1, <2>2
    <3> QED BY <1>7, <1>10, <3>1
  <2> QED BY <1>8, <1>10, <2>2
<1>13. after = longer
  <2> HIDE DEF after, longer, n
  <2> QED BY <1>10, <1>11, <1>12
<1> QED BY <1>13

-----------------------------------------------------------------------------
(***************************************************************************)
(* The refinement                                                          *)
(***************************************************************************)
\* Every behaviour of the ring is one of the log: adding appends and forgets at most the oldest
\* event, writing a timeline selects from the last MaxEvents events in their order.
THEOREM RingImplementsLog == Spec => ImplementsLog
<1>0. MaxEvents \in Nat \ {0}
  BY EventRingAssumption
<1>1. Init => Log!LogInit
  BY DEF Init, Log!LogInit, Walk
<1>2. ASSUME TypeOK, TypeOK', [Next]_vars PROVE [Log!LogNext]_(Log!logvars)
  <2>1. ASSUME NEW pid \in Pids, NEW detail \in Details, Add(pid, detail) PROVE Log!LogNext
    <3> DEFINE ev == [pid |-> pid, detail |-> detail]
    <3>1. ev \in Log!Records
      BY <2>1 DEF Add, Log!Records
    <3>2. Walk' = Append(IF Len(Walk) < MaxEvents THEN Walk ELSE Tail(Walk), ev)
      BY <1>2, <2>1, WalkExtended
    <3>3. UNCHANGED timeline
      BY <2>1 DEF Add
    <3> HIDE DEF ev
    <3> QED BY <3>1, <3>2, <3>3 DEF Log!LogNext, Log!LogAdd
  <2>2. ASSUME NEW case \in Pids, NEW related \in SUBSET Pids, WriteTimeline(case, related)
        PROVE  Log!LogNext
    <3> DEFINE listed == {pid \in related : pid > 0}
    <3>1. listed \in SUBSET Pids
      OBVIOUS
    <3>2. timeline' = Log!Selected(Walk, listed)
      BY <2>2 DEF WriteTimeline, Log!Selected
    <3>3. Walk' = Walk
      BY <2>2 DEF WriteTimeline, Walk, Start
    <3> HIDE DEF listed
    <3> QED BY <3>1, <3>2, <3>3 DEF Log!LogNext, Log!LogWrite
  <2>3. CASE UNCHANGED vars
    BY <2>3 DEF vars, Walk, Start, Log!logvars
  <2> QED BY <1>2, <2>1, <2>2, <2>3 DEF Next
<1> QED BY <1>1, <1>2, RingTypeCorrect, PTL DEF Spec, ImplementsLog, Log!LogSpec

-----------------------------------------------------------------------------
(***************************************************************************)
(* The eBPF backend                                                        *)
(***************************************************************************)
\* What each step of loading relies on from the one before.
LoadInv ==
  /\ epc \in {"start", "load", "attach", "on", "off"}
  /\ epc \in {"start", "off"} => obj = "none"
  /\ epc = "load" => obj = "open"
  /\ epc \in {"attach", "on"} => obj = "loaded"
  /\ epc \in {"start", "load", "off"} => links = {} /\ buffer = <<>>
  /\ epc = "on" => links # {}
  /\ rb <=> epc = "on"
  /\ loaded <=> epc = "on"

LEMMA LoadInvNext == LoadInv /\ [Ebpf!Next]_(Ebpf!vars) => LoadInv'
<1> SUFFICES ASSUME LoadInv, [Ebpf!Next]_(Ebpf!vars) PROVE LoadInv'
  OBVIOUS
<1>1. CASE Ebpf!Open
  BY <1>1 DEF Ebpf!Open, LoadInv
<1>2. CASE Ebpf!Load
  BY <1>2 DEF Ebpf!Load, LoadInv
<1>3. CASE Ebpf!InitFails \/ Ebpf!End
  BY <1>3 DEF Ebpf!InitFails, Ebpf!FailAfterAttach, Ebpf!End, Ebpf!Shutdown, LoadInv
<1>4. CASE Ebpf!InitSucceeds
  BY <1>4 DEF Ebpf!InitSucceeds, Ebpf!AttachDone, LoadInv
<1>5. CASE Ebpf!HandleEvent
  BY <1>5 DEF Ebpf!HandleEvent, LoadInv
<1>6. ASSUME NEW p \in Ebpf!Programs, Ebpf!Attach(p) PROVE LoadInv'
  BY <1>6 DEF Ebpf!Attach, LoadInv
<1>7. ASSUME NEW c \in Calls, Ebpf!Call(c) PROVE LoadInv'
  <2>1. links # {}
    BY <1>7 DEF Ebpf!Call
  <2> QED BY <1>7, <2>1 DEF Ebpf!Call, LoadInv
<1>8. CASE UNCHANGED Ebpf!vars
  BY <1>8 DEF Ebpf!vars, LoadInv
<1> QED BY <1>1, <1>2, <1>3, <1>4, <1>5, <1>6, <1>7, <1>8 DEF Ebpf!Next

LEMMA LoadAlways == ServicesSpec => []LoadInv
<1>1. Ebpf!Init => LoadInv
  BY DEF Ebpf!Init, LoadInv
<1>2. Ebpf!Spec => []LoadInv
  BY <1>1, LoadInvNext, PTL DEF Ebpf!Spec
<1> QED BY <1>2, ServicesAreEbpf, PTL

\* Wherever the loading of the backend stops, nothing of it is left behind: a backend that is off
\* has no object, link, ring buffer or record; one that is on has all three.
THEOREM NothingStays == ServicesSpec => []NothingIsLeft
<1>1. LoadInv => NothingIsLeft
  BY DEF LoadInv, NothingIsLeft, Ebpf!NothingIsLeft
<1> QED BY <1>1, LoadAlways, PTL

\* The calls that got a record, in the terms of any sequence of calls.
CallsOf            == [call : Calls, recorded : BOOLEAN]
RecordedIn(s)      == {j \in DOMAIN s : s[j].recorded}
NumberIn(s, j)     == Cardinality({m \in RecordedIn(s) : m <= j})
IsRecord(s, n, c)  == \E j \in RecordedIn(s) : NumberIn(s, j) = n /\ s[j].call = c

\* Another call leaves the numbers of the records as they are; its own record comes last.
LEMMA RecordAppended ==
  ASSUME NEW s \in Seq(CallsOf), NEW r \in CallsOf
  PROVE  /\ Append(s, r) \in Seq(CallsOf)
         /\ Cardinality(RecordedIn(s)) \in Nat
         /\ r.recorded => Cardinality(RecordedIn(Append(s, r))) = Cardinality(RecordedIn(s)) + 1
         /\ ~r.recorded => RecordedIn(Append(s, r)) = RecordedIn(s)
         /\ \A n, c : IsRecord(s, n, c) => IsRecord(Append(s, r), n, c)
         /\ r.recorded => IsRecord(Append(s, r), Cardinality(RecordedIn(s)) + 1, r.call)
<1> DEFINE a == Append(s, r)
           n == Len(s)
           R == RecordedIn(s)
<1>1. /\ a \in Seq(CallsOf) /\ n \in Nat /\ DOMAIN s = 1..n /\ DOMAIN a = 1..(n + 1)
      /\ a[n + 1] = r /\ \A i \in 1..n : a[i] = s[i]
  BY AppendProperties
<1> HIDE DEF a, n
<1>2. \A i : i \in 1..(n + 1) <=> i \in 1..n \/ i = n + 1
  BY <1>1
<1>3. RecordedIn(a) = IF r.recorded THEN R \union {n + 1} ELSE R
  BY <1>1, <1>2 DEF RecordedIn
<1>4. IsFiniteSet(R) /\ R \subseteq 1..n /\ Cardinality(R) \in Nat
  <2>1. IsFiniteSet(1..n) /\ R \subseteq 1..n
    BY <1>1, FS_Interval DEF RecordedIn
  <2> QED BY <2>1, FS_Subset, FS_CardinalityType
<1>5. n + 1 \notin R
  BY <1>1, <1>4
<1>6. r.recorded => Cardinality(RecordedIn(a)) = Cardinality(R) + 1
  BY <1>3, <1>4, <1>5, FS_AddElement
<1>7. ASSUME NEW k, NEW c, IsRecord(s, k, c)
      PROVE  IsRecord(a, k, c)
  <2>1. PICK j \in R : NumberIn(s, j) = k /\ s[j].call = c
    BY <1>7 DEF IsRecord
  <2>2. j \in RecordedIn(a) /\ a[j].call = c
    BY <1>1, <1>3, <1>4, <2>1
  <2>3. {m \in RecordedIn(a) : m <= j} = {m \in R : m <= j}
    BY <1>1, <1>3, <1>4
  <2>4. NumberIn(a, j) = k
    BY <2>1, <2>3 DEF NumberIn
  <2> QED BY <2>2, <2>4 DEF IsRecord
<1>8. ASSUME r.recorded
      PROVE  IsRecord(a, Cardinality(R) + 1, r.call)
  <2>1. n + 1 \in RecordedIn(a) /\ a[n + 1].call = r.call
    BY <1>1, <1>3, <1>8
  <2>2. {m \in RecordedIn(a) : m <= n + 1} = RecordedIn(a)
    BY <1>1, <1>3, <1>4
  <2>3. NumberIn(a, n + 1) = Cardinality(R) + 1
    BY <1>6, <1>8, <2>2 DEF NumberIn
  <2> QED BY <2>1, <2>3 DEF IsRecord
<1> QED BY <1>1, <1>3, <1>4, <1>6, <1>7, <1>8 DEF a

\* Records are those of calls that were to be recorded, and are handled as they come.
HandledOf == [call : Calls, alerted : BOOLEAN]
IsTraced(c) == c.name \in Ebpf!Programs /\ Ebpf!Traced(c)

RecordInv ==
  /\ calls \in Seq(CallsOf) /\ buffer \in Seq(Calls) /\ handled \in Seq(HandledOf)
  /\ lost \in Nat /\ (epc # "off" => lost = 0)
  /\ links \subseteq Ebpf!Programs
  /\ Cardinality(RecordedIn(calls)) = Len(handled) + Len(buffer) + lost
  /\ \A i \in DOMAIN handled : IsRecord(calls, i, handled[i].call)
  /\ \A i \in DOMAIN buffer : IsRecord(calls, Len(handled) + i, buffer[i])
  /\ \A i \in DOMAIN buffer : IsTraced(buffer[i])
  /\ \A i \in DOMAIN handled : /\ IsTraced(handled[i].call)
                               /\ handled[i].alerted => Ebpf!Alerts(handled[i].call)

LEMMA RecordInit == Ebpf!Init => RecordInv
<1> SUFFICES ASSUME Ebpf!Init PROVE RecordInv
  OBVIOUS
<1>1. /\ calls = <<>> /\ buffer = <<>> /\ handled = <<>> /\ lost = 0 /\ links = {}
  BY DEF Ebpf!Init
<1>2. RecordedIn(<<>>) = {}
  BY DEF RecordedIn
<1>3. Cardinality({}) = 0
  BY FS_EmptySet
<1> QED BY <1>1, <1>2, <1>3 DEF RecordInv

LEMMA RecordCall ==
  ASSUME LoadInv, RecordInv, NEW c \in Calls, Ebpf!Call(c)
  PROVE  RecordInv'
<1> DEFINE rec == Ebpf!Traced(c) /\ Len(buffer) < RingSize
           r == [call |-> c, recorded |-> rec]
<1>1. /\ c.name \in links
      /\ calls' = Append(calls, r)
      /\ buffer' = IF rec THEN Append(buffer, c) ELSE buffer
      /\ links' = links /\ epc' = epc /\ lost' = lost /\ handled' = handled
  BY DEF Ebpf!Call
<1>2. epc # "off" /\ lost = 0
  BY <1>1 DEF LoadInv, RecordInv
<1>3. /\ r \in CallsOf /\ r.call = c /\ (r.recorded <=> rec)
  <2>1. rec \in BOOLEAN
    BY DEF Ebpf!Traced
  <2> HIDE DEF rec
  <2> QED BY <2>1 DEF CallsOf
<1>4. /\ calls \in Seq(CallsOf) /\ buffer \in Seq(Calls) /\ handled \in Seq(HandledOf)
      /\ Cardinality(RecordedIn(calls)) = Len(handled) + Len(buffer)
      /\ Len(handled) \in Nat /\ Len(buffer) \in Nat
  BY <1>2 DEF RecordInv
<1> HIDE DEF r
<1>5. /\ calls' \in Seq(CallsOf)
      /\ r.recorded => Cardinality(RecordedIn(calls')) = Cardinality(RecordedIn(calls)) + 1
      /\ ~r.recorded => RecordedIn(calls') = RecordedIn(calls)
      /\ \A k, d : IsRecord(calls, k, d) => IsRecord(calls', k, d)
      /\ r.recorded => IsRecord(calls', Cardinality(RecordedIn(calls)) + 1, r.call)
  BY <1>1, <1>3, <1>4, RecordAppended
<1>6. \A i \in DOMAIN handled' : IsRecord(calls', i, handled'[i].call)
  BY <1>1, <1>5 DEF RecordInv
<1>7. CASE ~rec
  <2>1. buffer' = buffer /\ RecordedIn(calls') = RecordedIn(calls)
    BY <1>1, <1>3, <1>5, <1>7
  <2>2. \A i \in DOMAIN buffer' : IsRecord(calls', Len(handled') + i, buffer'[i])
    BY <1>1, <1>5, <2>1 DEF RecordInv
  <2> QED BY <1>1, <1>5, <1>6, <2>1, <2>2 DEF RecordInv
<1>8. CASE rec
  <2>1. buffer' = Append(buffer, c)
    BY <1>1, <1>8
  <2>2. /\ buffer' \in Seq(Calls) /\ Len(buffer') = Len(buffer) + 1
        /\ DOMAIN buffer = 1..Len(buffer) /\ DOMAIN buffer' = 1..(Len(buffer) + 1)
        /\ buffer'[Len(buffer) + 1] = c /\ \A i \in 1..Len(buffer) : buffer'[i] = buffer[i]
    BY <1>4, <2>1, AppendProperties
  <2>3. \A i \in DOMAIN buffer' : i \in DOMAIN buffer \/ i = Len(buffer) + 1
    BY <1>4, <2>2
  <2>4. IsTraced(c)
    BY <1>1, <1>8 DEF RecordInv, IsTraced
  <2>5. IsRecord(calls', Len(handled) + (Len(buffer) + 1), c)
    <3>1. Len(handled) + (Len(buffer) + 1) = Cardinality(RecordedIn(calls)) + 1
      BY <1>4
    <3> QED BY <1>3, <1>5, <1>8, <3>1
  <2>6. \A i \in DOMAIN buffer' : IsRecord(calls', Len(handled') + i, buffer'[i])
    BY <1>1, <1>5, <2>2, <2>3, <2>5 DEF RecordInv
  <2>7. \A i \in DOMAIN buffer' : IsTraced(buffer'[i])
    BY <2>2, <2>3, <2>4 DEF RecordInv
  <2>8. Cardinality(RecordedIn(calls')) = Len(handled') + Len(buffer') + lost'
    BY <1>1, <1>2, <1>3, <1>4, <1>5, <1>8, <2>2
  <2> QED BY <1>1, <1>5, <1>6, <2>2, <2>6, <2>7, <2>8 DEF RecordInv
<1> QED BY <1>7, <1>8

LEMMA RecordHandled ==
  ASSUME RecordInv, Ebpf!HandleEvent
  PROVE  RecordInv'
<1> DEFINE h == [call |-> Head(buffer), alerted |-> Ebpf!Alerts(Head(buffer))]
<1>1. /\ epc = "on" /\ buffer # <<>>
      /\ buffer' = Tail(buffer) /\ handled' = Append(handled, h)
      /\ calls' = calls /\ links' = links /\ epc' = epc /\ lost' = lost
  BY DEF Ebpf!HandleEvent
<1>2. /\ calls \in Seq(CallsOf) /\ buffer \in Seq(Calls) /\ handled \in Seq(HandledOf)
      /\ Len(handled) \in Nat /\ Len(buffer) \in Nat /\ lost = 0
  BY <1>1 DEF RecordInv
<1>3. /\ Len(buffer) > 0 /\ Head(buffer) = buffer[1] /\ 1 \in DOMAIN buffer
      /\ Tail(buffer) \in Seq(Calls) /\ Len(Tail(buffer)) = Len(buffer) - 1
      /\ DOMAIN Tail(buffer) = 1..(Len(buffer) - 1)
      /\ \A i \in 1..(Len(buffer) - 1) : Tail(buffer)[i] = buffer[i + 1] /\ i + 1 \in DOMAIN buffer
  <2>1. Len(buffer) > 0
    BY <1>1, <1>2, EmptySeq
  <2> QED BY <1>1, <1>2, <2>1, HeadTailProperties
<1>4. h \in HandledOf /\ h.call = buffer[1] /\ (h.alerted <=> Ebpf!Alerts(buffer[1]))
  <2>1. Ebpf!Alerts(buffer[1]) \in BOOLEAN
    BY DEF Ebpf!Alerts
  <2>2. buffer[1] \in Calls
    BY <1>2, <1>3
  <2> HIDE DEF Ebpf!Alerts
  <2> QED BY <1>3, <2>1, <2>2 DEF HandledOf
<1> HIDE DEF h
<1>5. /\ handled' \in Seq(HandledOf) /\ Len(handled') = Len(handled) + 1
      /\ DOMAIN handled = 1..Len(handled) /\ DOMAIN handled' = 1..(Len(handled) + 1)
      /\ handled'[Len(handled) + 1] = h /\ \A i \in 1..Len(handled) : handled'[i] = handled[i]
  BY <1>1, <1>2, <1>4, AppendProperties
<1>6. \A i \in DOMAIN handled' : i \in DOMAIN handled \/ i = Len(handled) + 1
  BY <1>2, <1>5
<1>7. IsRecord(calls, Len(handled) + 1, buffer[1]) /\ IsTraced(buffer[1])
  BY <1>3 DEF RecordInv
<1>8. \A i \in DOMAIN handled' : /\ IsRecord(calls', i, handled'[i].call)
                                 /\ IsTraced(handled'[i].call)
                                 /\ handled'[i].alerted => Ebpf!Alerts(handled'[i].call)
  BY <1>1, <1>4, <1>5, <1>6, <1>7 DEF RecordInv
<1>9. \A i \in DOMAIN buffer' : IsRecord(calls', Len(handled') + i, buffer'[i]) /\ IsTraced(buffer'[i])
  <2> SUFFICES ASSUME NEW i \in DOMAIN buffer'
               PROVE  IsRecord(calls', Len(handled') + i, buffer'[i]) /\ IsTraced(buffer'[i])
    OBVIOUS
  <2>1. i \in Nat /\ i + 1 \in DOMAIN buffer /\ buffer'[i] = buffer[i + 1]
    BY <1>1, <1>3
  <2>2. Len(handled') + i = Len(handled) + (i + 1)
    BY <1>2, <1>5, <2>1
  <2> QED BY <1>1, <2>1, <2>2 DEF RecordInv
<1>10. Cardinality(RecordedIn(calls')) = Len(handled') + Len(buffer') + lost'
  BY <1>1, <1>2, <1>3, <1>5 DEF RecordInv
<1> QED BY <1>1, <1>2, <1>3, <1>5, <1>8, <1>9, <1>10 DEF RecordInv

LEMMA RecordNext == LoadInv /\ RecordInv /\ [Ebpf!Next]_(Ebpf!vars) => RecordInv'
<1> SUFFICES ASSUME LoadInv, RecordInv, [Ebpf!Next]_(Ebpf!vars) PROVE RecordInv'
  OBVIOUS
<1>1. ASSUME UNCHANGED <<calls, buffer, handled, lost>>, links' \subseteq Ebpf!Programs,
             epc # "off" \/ epc' = epc
      PROVE  RecordInv'
  BY <1>1 DEF RecordInv
<1>2. CASE Ebpf!Open \/ Ebpf!Load \/ Ebpf!InitSucceeds
  <2>1. UNCHANGED <<calls, buffer, handled, lost, links>> /\ epc # "off"
    BY <1>2 DEF Ebpf!Open, Ebpf!Load, Ebpf!InitSucceeds, Ebpf!AttachDone
  <2> QED BY <1>1, <2>1 DEF RecordInv
<1>3. CASE Ebpf!InitFails \/ Ebpf!End
  <2>1. /\ calls' = calls /\ handled' = handled /\ links' = {} /\ buffer' = <<>>
        /\ lost' = lost + Len(buffer) /\ epc' = "off"
    BY <1>3 DEF Ebpf!InitFails, Ebpf!FailAfterAttach, Ebpf!End, Ebpf!Shutdown
  <2>2. buffer \in Seq(Calls) /\ lost \in Nat /\ Len(handled) \in Nat /\ Len(buffer) \in Nat
    BY DEF RecordInv
  <2>3. <<>> \in Seq(Calls) /\ Len(<<>>) = 0 /\ DOMAIN <<>> = {}
    OBVIOUS
  <2>4. Cardinality(RecordedIn(calls')) = Len(handled') + Len(buffer') + lost' /\ lost' \in Nat
    BY <2>1, <2>2, <2>3 DEF RecordInv
  <2> QED BY <2>1, <2>3, <2>4 DEF RecordInv
<1>4. CASE Ebpf!HandleEvent
  BY <1>4, RecordHandled
<1>5. ASSUME NEW p \in Ebpf!Programs, Ebpf!Attach(p) PROVE RecordInv'
  <2>1. UNCHANGED <<calls, buffer, handled, lost>> /\ links' \subseteq Ebpf!Programs /\ epc' = epc
    BY <1>5 DEF Ebpf!Attach, RecordInv
  <2> QED BY <1>1, <2>1
<1>6. ASSUME NEW c \in Calls, Ebpf!Call(c) PROVE RecordInv'
  BY <1>6, RecordCall
<1>7. CASE UNCHANGED Ebpf!vars
  BY <1>1, <1>7 DEF Ebpf!vars, RecordInv
<1> QED BY <1>2, <1>3, <1>4, <1>5, <1>6, <1>7 DEF Ebpf!Next

LEMMA RecordAlways == ServicesSpec => []RecordInv
<1>1. ServicesSpec => Ebpf!Spec /\ []LoadInv
  BY ServicesAreEbpf, LoadAlways
<1> QED BY <1>1, RecordInit, RecordNext, PTL DEF Ebpf!Spec

\* What was handled are the first records, in their order; with what waits and what went with the
\* object they are all records.
THEOREM RecordsAreHandled == ServicesSpec => []EveryRecordIsHandled
<1>1. RecordInv => EveryRecordIsHandled
  <2> SUFFICES ASSUME RecordInv PROVE EveryRecordIsHandled
    OBVIOUS
  <2>1. Ebpf!Recorded = RecordedIn(calls) /\ \A j : Ebpf!Number(j) = NumberIn(calls, j)
    BY SameCardinality DEF Ebpf!Recorded, Ebpf!Number, RecordedIn, NumberIn
  <2> QED BY <2>1, SameCardinality
          DEF RecordInv, IsRecord, EveryRecordIsHandled, Ebpf!EveryRecordIsHandled
<1> QED BY <1>1, RecordAlways, PTL

\* The probes let pass what the handlers need not doubt: an alert is for a raw socket, an executable
\* mapping, a suspicious path, or a call that is reason enough.
THEOREM AlertsAreCaused == ServicesSpec => []AlertsHaveCause
<1>1. ASSUME NEW c, IsTraced(c), Ebpf!Alerts(c)
      PROVE  \/ c.name \in {"ptrace", "process_vm_writev", "process_vm_readv", "memfd_create"}
             \/ c.traits \intersect {"raw", "exec", "suspicious", "sensitive"} # {}
  BY <1>1 DEF IsTraced, Ebpf!Programs, Ebpf!Traced, Ebpf!Alerts, Ebpf!ByPath, Ebpf!PathIsSuspicious
<1>2. RecordInv => AlertsHaveCause
  BY <1>1 DEF RecordInv, AlertsHaveCause, Ebpf!AlertsHaveCause
<1> QED BY <1>2, RecordAlways, PTL

-----------------------------------------------------------------------------
(***************************************************************************)
(* The module manager                                                      *)
(***************************************************************************)
SlotRecords == [path : DOMAIN FileOf, file : Objects]

\* The slots of a file from a place on.
LiveFrom(s, first, f) == {i \in DOMAIN s : s[i].file = f /\ i >= first}
\* The first slot that the shutdown has not come to.
FirstLive == IF mpc = "shutdown" THEN upTo ELSE 1

SlotsInv ==
  /\ mpc \in {"builtins", "load", "running", "shutdown", "stopped"}
  /\ upTo \in Nat /\ upTo >= 1
  /\ slots \in Seq(SlotRecords) /\ Len(slots) <= MaxDynamic
  /\ \A i \in DOMAIN slots : slots[i].file = FileOf[slots[i].path]
  /\ \A i, j \in DOMAIN slots : slots[i].path = slots[j].path => i = j
  /\ refs \in [Objects -> Int] /\ polled \in [Objects -> Int]
  /\ \A f \in Objects : refs[f] = Cardinality(LiveFrom(slots, FirstLive, f))
  /\ initialized \subseteq Objects
  /\ \A f \in initialized : LiveFrom(slots, FirstLive, f) # {}
  /\ \A f \in Objects : polled[f] <= Cardinality({path \in DOMAIN FileOf : FileOf[path] = f})

\* A module that had a slot is initialised until it is shut down.
ShutdownInv ==
  /\ used \subseteq Objects /\ initialized \subseteq used
  /\ shutdowns \in [Objects -> Int]
  /\ mpc \in {"builtins", "load", "running"} => used = initialized
  /\ mpc = "stopped" => initialized = {}
  /\ \A f \in Objects : shutdowns[f] = IF f \in used \ initialized THEN 1 ELSE 0

LEMMA LiveFinite ==
  ASSUME NEW s \in Seq(SlotRecords), NEW first \in Nat, NEW f
  PROVE  /\ IsFiniteSet(LiveFrom(s, first, f)) /\ Cardinality(LiveFrom(s, first, f)) \in Nat
         /\ LiveFrom(s, first, f) = {} <=> Cardinality(LiveFrom(s, first, f)) = 0
<1>1. IsFiniteSet(1..Len(s)) /\ LiveFrom(s, first, f) \subseteq 1..Len(s)
  <2>1. DOMAIN s = 1..Len(s) /\ Len(s) \in Nat
    OBVIOUS
  <2> QED BY <2>1, FS_Interval DEF LiveFrom
<1>2. IsFiniteSet(LiveFrom(s, first, f))
  BY <1>1, FS_Subset
<1> QED BY <1>2, FS_CardinalityType, FS_EmptySet

\* A slot more.
LEMMA LiveAppended ==
  ASSUME NEW s \in Seq(SlotRecords), NEW r \in SlotRecords, NEW f \in Objects
  PROVE  /\ r.file = f => Cardinality(LiveFrom(Append(s, r), 1, f)) = Cardinality(LiveFrom(s, 1, f)) + 1
         /\ r.file = f => LiveFrom(Append(s, r), 1, f) # {}
         /\ r.file # f => LiveFrom(Append(s, r), 1, f) = LiveFrom(s, 1, f)
<1> DEFINE a == Append(s, r)
           n == Len(s)
<1>1. /\ n \in Nat /\ DOMAIN s = 1..n /\ DOMAIN a = 1..(n + 1)
      /\ a[n + 1] = r /\ \A i \in 1..n : a[i] = s[i]
  BY AppendProperties
<1> HIDE DEF a, n
<1>2. \A i : i \in 1..(n + 1) <=> i \in 1..n \/ i = n + 1
  BY <1>1
<1>3. LiveFrom(a, 1, f) = IF r.file = f THEN LiveFrom(s, 1, f) \union {n + 1} ELSE LiveFrom(s, 1, f)
  BY <1>1, <1>2 DEF LiveFrom
<1>4. n + 1 \notin LiveFrom(s, 1, f)
  BY <1>1 DEF LiveFrom
<1>5. IsFiniteSet(LiveFrom(s, 1, f))
  BY LiveFinite
<1> QED BY <1>3, <1>4, <1>5, FS_AddElement DEF a

\* The shutdown goes past a slot.
LEMMA LivePassed ==
  ASSUME NEW s \in Seq(SlotRecords), NEW k \in DOMAIN s, NEW f \in Objects
  PROVE  /\ s[k].file = f => Cardinality(LiveFrom(s, k + 1, f)) = Cardinality(LiveFrom(s, k, f)) - 1
         /\ s[k].file # f => LiveFrom(s, k + 1, f) = LiveFrom(s, k, f)
<1>1. k \in Nat /\ \A i \in DOMAIN s : i \in Nat
  OBVIOUS
<1>2. LiveFrom(s, k + 1, f) = LiveFrom(s, k, f) \ {k}
  BY <1>1 DEF LiveFrom
<1>3. k \in LiveFrom(s, k, f) <=> s[k].file = f
  BY <1>1 DEF LiveFrom
<1>4. IsFiniteSet(LiveFrom(s, k, f))
  BY <1>1, LiveFinite
<1>5. s[k].file = f => Cardinality(LiveFrom(s, k + 1, f)) = Cardinality(LiveFrom(s, k, f)) - 1
  BY <1>2, <1>3, <1>4, FS_RemoveElement
<1>6. s[k].file # f => LiveFrom(s, k + 1, f) = LiveFrom(s, k, f)
  BY <1>2, <1>3
<1> QED BY <1>5, <1>6

\* Where no path has two slots there are as many paths as slots, and a file has at most one slot
\* for each path that leads to it.
LEMMA PathsOfSlots ==
  ASSUME NEW s \in Seq(SlotRecords),
         \A i \in DOMAIN s : s[i].file = FileOf[s[i].path],
         \A i, j \in DOMAIN s : s[i].path = s[j].path => i = j
  PROVE  /\ Cardinality({s[i].path : i \in DOMAIN s}) = Len(s)
         /\ \A f \in Objects : Cardinality(LiveFrom(s, 1, f))
                               <= Cardinality({path \in DOMAIN FileOf : FileOf[path] = f})
<1>1. DOMAIN s = 1..Len(s) /\ Len(s) \in Nat /\ \A i \in DOMAIN s : s[i].path \in DOMAIN FileOf
  <2>1. \A i \in 1..Len(s) : s[i] \in SlotRecords
    OBVIOUS
  <2> QED BY <2>1 DEF SlotRecords
<1>2. Cardinality({s[i].path : i \in DOMAIN s}) = Len(s)
  <2> DEFINE S == 1..Len(s)
             T == {s[i].path : i \in DOMAIN s}
             g == [i \in S |-> s[i].path]
  <2>1. g \in Surjection(S, T) /\ g \in Injection(S, T)
    BY <1>1 DEF Surjection, Injection, IsInjective
  <2>2. IsFiniteSet(S) /\ Cardinality(S) = Len(s)
    BY <1>1, FS_Interval
  <2> HIDE DEF S, T, g
  <2>3. Cardinality(T) = Cardinality(S)
    BY <2>1, <2>2, FS_Surjection
  <2> QED BY <2>2, <2>3 DEF T
<1>3. ASSUME NEW f \in Objects
      PROVE  Cardinality(LiveFrom(s, 1, f)) <= Cardinality({path \in DOMAIN FileOf : FileOf[path] = f})
  <2> DEFINE S == LiveFrom(s, 1, f)
             T == {path \in DOMAIN FileOf : FileOf[path] = f}
             g == [i \in S |-> s[i].path]
  <2>1. g \in Injection(S, T)
    BY <1>1 DEF Injection, IsInjective, LiveFrom
  <2>2. IsFiniteSet(T)
    BY ServicesAssumption, FS_Subset
  <2> HIDE DEF S, T, g
  <2>3. Cardinality(S) <= Cardinality(T)
    BY <2>1, <2>2, FS_Injection
  <2> QED BY <2>3 DEF S, T
<1> QED BY <1>2, <1>3

LEMMA SlotsInit == Manager!Init => SlotsInv /\ ShutdownInv
<1> SUFFICES ASSUME Manager!Init PROVE SlotsInv /\ ShutdownInv
  OBVIOUS
<1>1. /\ mpc = "builtins" /\ upTo = 1 /\ slots = <<>> /\ initialized = {} /\ used = {}
      /\ refs = [f \in Objects |-> 0] /\ polled = [f \in Objects |-> 0]
      /\ shutdowns = [f \in Objects |-> 0]
  BY DEF Manager!Init
<1>2. <<>> \in Seq(SlotRecords) /\ Len(<<>>) = 0 /\ DOMAIN <<>> = {}
  OBVIOUS
<1>3. \A f \in Objects : Cardinality(LiveFrom(<<>>, 1, f)) = 0
  BY <1>2, FS_EmptySet DEF LiveFrom
<1>4. \A f \in Objects : 0 <= Cardinality({path \in DOMAIN FileOf : FileOf[path] = f})
  <2> SUFFICES ASSUME NEW f \in Objects
               PROVE  0 <= Cardinality({path \in DOMAIN FileOf : FileOf[path] = f})
    OBVIOUS
  <2>1. IsFiniteSet({path \in DOMAIN FileOf : FileOf[path] = f})
    BY ServicesAssumption, FS_Subset
  <2> QED BY <2>1, FS_CardinalityType
<1>5. MaxDynamic \in Nat
  BY ServicesAssumption
<1>6. SlotsInv
  BY <1>1, <1>2, <1>3, <1>4, <1>5 DEF SlotsInv, FirstLive
<1>7. ShutdownInv
  BY <1>1 DEF ShutdownInv
<1> QED BY <1>6, <1>7

\* What is loaded is a file of the dynamic linker's.
LEMMA RequestedFile ==
  ASSUME SlotsInv, Manager!Loading
  PROVE  /\ Manager!Request \in DOMAIN FileOf /\ Manager!File \in Objects
         /\ Manager!File = FileOf[Manager!Request]
         /\ mpc = "load" /\ mpc' = "load" /\ upTo' = upTo + 1 /\ polled' = polled
<1>1. mpc = "load" /\ mpc' = "load" /\ upTo <= Len(Requests) /\ upTo' = upTo + 1 /\ polled' = polled
  BY DEF Manager!Loading
<1>2. upTo \in 1..Len(Requests) /\ Requests \in Seq(DOMAIN FileOf)
  BY <1>1, ServicesAssumption DEF SlotsInv
<1>3. Requests[upTo] \in DOMAIN FileOf /\ FileOf \in [DOMAIN FileOf -> Objects]
  BY SMTT(30), <1>2, ServicesAssumption
<1> QED BY <1>1, <1>3 DEF Manager!Request, Manager!File

LEMMA AcceptKeeps ==
  ASSUME SlotsInv, ShutdownInv, Manager!Accept
  PROVE  SlotsInv' /\ ShutdownInv'
<1> DEFINE F == Manager!File
           r == [path |-> Manager!Request, file |-> F]
<1>1. /\ slots' = Append(slots, r) /\ initialized' = initialized \union {F}
      /\ refs' = [refs EXCEPT ![F] = @ + 1] /\ used' = used \union {F} /\ shutdowns' = shutdowns
      /\ Manager!Request \notin Manager!Paths /\ Len(slots) < MaxDynamic /\ Manager!Loading
  BY DEF Manager!Accept
<1>2. /\ Manager!Request \in DOMAIN FileOf /\ F \in Objects /\ F = FileOf[Manager!Request]
      /\ mpc = "load" /\ mpc' = "load" /\ upTo' = upTo + 1 /\ polled' = polled
  BY <1>1, RequestedFile
<1>3. FirstLive = 1 /\ FirstLive' = 1
  BY <1>2 DEF FirstLive
<1>4. r \in SlotRecords /\ r.file = F /\ r.path = Manager!Request
  BY <1>2 DEF SlotRecords
<1> HIDE DEF F, r
<1>5. /\ slots \in Seq(SlotRecords) /\ Len(slots) \in Nat /\ DOMAIN slots = 1..Len(slots)
      /\ refs \in [Objects -> Int] /\ upTo \in Nat /\ upTo >= 1 /\ initialized \subseteq Objects
  BY DEF SlotsInv
<1>6. /\ slots' \in Seq(SlotRecords) /\ Len(slots') = Len(slots) + 1
      /\ DOMAIN slots' = 1..(Len(slots) + 1) /\ slots'[Len(slots) + 1] = r
      /\ \A i \in DOMAIN slots : slots'[i] = slots[i]
  BY <1>1, <1>4, <1>5, AppendProperties
<1>7. \A i \in DOMAIN slots' : i \in DOMAIN slots \/ i = Len(slots) + 1
  BY <1>5, <1>6
<1>8. \A i \in DOMAIN slots : slots[i].path # r.path
  BY <1>1, <1>4 DEF Manager!Paths
<1>9. /\ \A i \in DOMAIN slots' : slots'[i].file = FileOf[slots'[i].path]
      /\ \A i, j \in DOMAIN slots' : slots'[i].path = slots'[j].path => i = j
  <2>1. \A i \in DOMAIN slots : /\ slots'[i].file = slots[i].file /\ slots'[i].path = slots[i].path
                               /\ slots[i].file = FileOf[slots[i].path]
                               /\ slots[i].path # r.path
    BY <1>6, <1>8 DEF SlotsInv
  <2>2. slots'[Len(slots) + 1].file = FileOf[r.path] /\ slots'[Len(slots) + 1].path = r.path
    BY <1>2, <1>4, <1>6
  <2>3. \A i \in DOMAIN slots' : slots'[i].file = FileOf[slots'[i].path]
    BY <1>7, <2>1, <2>2
  <2>4. \A i, j \in DOMAIN slots : slots[i].path = slots[j].path => i = j
    BY DEF SlotsInv
  <2>5. \A i, j \in DOMAIN slots' : slots'[i].path = slots'[j].path => i = j
    BY <1>7, <2>1, <2>2, <2>4
  <2> QED BY <2>3, <2>5
<1>10. \A f \in Objects : refs'[f] = Cardinality(LiveFrom(slots', 1, f))
  <2> SUFFICES ASSUME NEW f \in Objects PROVE refs'[f] = Cardinality(LiveFrom(slots', 1, f))
    OBVIOUS
  <2>1. refs[f] = Cardinality(LiveFrom(slots, 1, f))
    BY <1>3 DEF SlotsInv
  <2>2. CASE f = F
    BY <1>1, <1>4, <1>5, <2>1, <2>2, LiveAppended
  <2>3. CASE f # F
    BY <1>1, <1>4, <1>5, <2>1, <2>3, LiveAppended
  <2> QED BY <2>2, <2>3
<1>11. \A f \in initialized' : LiveFrom(slots', 1, f) # {}
  <2> SUFFICES ASSUME NEW f \in initialized' PROVE LiveFrom(slots', 1, f) # {}
    OBVIOUS
  <2>1. CASE f = F
    BY <1>1, <1>2, <1>4, <1>5, <2>1, LiveAppended
  <2>2. CASE f # F
    <3>1. f \in initialized /\ f \in Objects
      BY <1>1, <1>5, <2>2
    <3>2. LiveFrom(slots, 1, f) # {}
      BY <1>3, <3>1 DEF SlotsInv
    <3> QED BY <1>1, <1>4, <1>5, <2>2, <3>1, <3>2, LiveAppended
  <2> QED BY <2>1, <2>2
<1>12. MaxDynamic \in Nat
  BY ServicesAssumption
<1>13. refs' \in [Objects -> Int] /\ initialized' \subseteq Objects /\ Len(slots') <= MaxDynamic
       /\ upTo' \in Nat /\ upTo' >= 1
  BY <1>1, <1>2, <1>5, <1>6, <1>12
<1>14. SlotsInv'
  BY <1>2, <1>3, <1>6, <1>9, <1>10, <1>11, <1>13 DEF SlotsInv
<1>15. ShutdownInv'
  BY <1>1, <1>2 DEF ShutdownInv
<1> QED BY <1>14, <1>15

LEMMA ShutdownSlotKeeps ==
  ASSUME SlotsInv, ShutdownInv, Manager!ShutdownSlot
  PROVE  SlotsInv' /\ ShutdownInv'
<1> DEFINE g == slots[upTo].file
<1>1. /\ mpc = "shutdown" /\ mpc' = mpc /\ upTo <= Len(slots) /\ upTo' = upTo + 1
      /\ shutdowns' = [shutdowns EXCEPT ![g] = IF g \in initialized THEN @ + 1 ELSE @]
      /\ initialized' = initialized \ {g} /\ refs' = [refs EXCEPT ![g] = @ - 1]
      /\ slots' = slots /\ polled' = polled /\ used' = used
  BY DEF Manager!ShutdownSlot
<1>2. /\ slots \in Seq(SlotRecords) /\ refs \in [Objects -> Int] /\ upTo \in Nat /\ upTo >= 1
      /\ initialized \subseteq Objects /\ shutdowns \in [Objects -> Int] /\ used \subseteq Objects
  BY DEF SlotsInv, ShutdownInv
<1>3. upTo \in DOMAIN slots /\ g \in Objects
  <2>1. upTo \in DOMAIN slots
    BY <1>1, <1>2
  <2>2. slots[upTo] \in SlotRecords
    BY <1>2, <2>1
  <2> QED BY <2>1, <2>2 DEF SlotRecords
<1>4. FirstLive = upTo /\ FirstLive' = upTo + 1
  BY <1>1 DEF FirstLive
<1> HIDE DEF g
<1>5. \A f \in Objects :
        /\ f = g => Cardinality(LiveFrom(slots, upTo + 1, f)) = Cardinality(LiveFrom(slots, upTo, f)) - 1
        /\ f # g => LiveFrom(slots, upTo + 1, f) = LiveFrom(slots, upTo, f)
  BY <1>2, <1>3, LivePassed DEF g
<1>6. \A f \in Objects : refs'[f] = Cardinality(LiveFrom(slots, upTo + 1, f))
  <2> SUFFICES ASSUME NEW f \in Objects
               PROVE  refs'[f] = Cardinality(LiveFrom(slots, upTo + 1, f))
    OBVIOUS
  <2>1. refs[f] = Cardinality(LiveFrom(slots, upTo, f))
    BY <1>4 DEF SlotsInv
  <2>2. CASE f = g
    BY <1>1, <1>2, <1>5, <2>1, <2>2
  <2>3. CASE f # g
    BY <1>1, <1>2, <1>5, <2>1, <2>3
  <2> QED BY <2>2, <2>3
<1>7. \A f \in initialized' : LiveFrom(slots, upTo + 1, f) # {}
  BY <1>1, <1>2, <1>4, <1>5 DEF SlotsInv
<1>8. refs' \in [Objects -> Int] /\ initialized' \subseteq Objects /\ upTo' \in Nat /\ upTo' >= 1
  <2>1. refs' \in [Objects -> Int]
    <3>1. refs[g] - 1 \in Int
      BY <1>2, <1>3
    <3> QED BY <1>1, <1>2, <3>1
  <2> QED BY <1>1, <1>2, <2>1
<1>9. SlotsInv'
  BY <1>1, <1>4, <1>6, <1>7, <1>8 DEF SlotsInv
<1>10. ShutdownInv'
  <2>1. shutdowns' \in [Objects -> Int]
    <3> DEFINE x == IF g \in initialized THEN shutdowns[g] + 1 ELSE shutdowns[g]
    <3>1. shutdowns' = [shutdowns EXCEPT ![g] = x] /\ x \in Int
      BY <1>1, <1>2, <1>3
    <3> HIDE DEF x
    <3> QED BY <1>2, <3>1
  <2>2. ASSUME NEW f \in Objects
        PROVE  shutdowns'[f] = IF f \in used' \ initialized' THEN 1 ELSE 0
    <3>1. shutdowns[f] = IF f \in used \ initialized THEN 1 ELSE 0
      BY DEF ShutdownInv
    <3>2. CASE f = g /\ g \in initialized
      <4>1. f \in used
        BY <3>2 DEF ShutdownInv
      <4>2. shutdowns[f] = 0 /\ shutdowns'[f] = shutdowns[f] + 1
        BY <1>1, <1>2, <3>1, <3>2
      <4> QED BY <1>1, <3>2, <4>1, <4>2
    <3>3. CASE f = g /\ g \notin initialized
      BY <1>1, <1>2, <3>1, <3>3
    <3>4. CASE f # g
      BY <1>1, <1>2, <3>1, <3>4
    <3> QED BY <3>2, <3>3, <3>4
  <2> QED BY <1>1, <2>1, <2>2 DEF ShutdownInv
<1> QED BY <1>9, <1>10

LEMMA SlotsNext == SlotsInv /\ ShutdownInv /\ [Manager!Next]_(Manager!vars) => SlotsInv' /\ ShutdownInv'
<1> SUFFICES ASSUME SlotsInv, ShutdownInv, [Manager!Next]_(Manager!vars)
             PROVE  SlotsInv' /\ ShutdownInv'
  OBVIOUS
<1>1. ASSUME UNCHANGED <<slots, refs, polled, initialized, shutdowns, used>>,
             mpc' \in {"builtins", "load", "running"}, upTo' \in Nat, upTo' >= 1,
             mpc \in {"builtins", "load", "running"}
      PROVE  SlotsInv' /\ ShutdownInv'
  <2>1. FirstLive = 1 /\ FirstLive' = 1
    BY <1>1 DEF FirstLive
  <2> QED BY <1>1, <2>1 DEF SlotsInv, ShutdownInv
<1>2. CASE Manager!InitBuiltin \/ Manager!BeginLoad
  BY <1>1, <1>2 DEF Manager!InitBuiltin, Manager!BeginLoad, SlotsInv
<1>3. CASE Manager!AlreadyLoaded \/ Manager!Refuse \/ Manager!RefuseAtLimit
  <2>1. /\ UNCHANGED <<slots, refs, initialized, shutdowns, used>> /\ Manager!Loading
    BY <1>3 DEF Manager!AlreadyLoaded, Manager!Refuse, Manager!RefuseAtLimit
  <2>2. mpc = "load" /\ mpc' = "load" /\ upTo' = upTo + 1 /\ polled' = polled
    BY <2>1, RequestedFile
  <2> QED BY <1>1, <2>1, <2>2 DEF SlotsInv
<1>4. CASE Manager!Accept
  BY <1>4, AcceptKeeps
<1>5. CASE Manager!EndLoad
  BY <1>1, <1>5 DEF Manager!EndLoad, SlotsInv
<1>6. CASE Manager!PollAll
  <2>1. /\ mpc = "running" /\ UNCHANGED <<mpc, upTo, slots, refs, initialized, shutdowns, used>>
        /\ polled' = [f \in Objects |-> IF f \in initialized
                                        THEN Manager!Cardinality(Manager!SlotsOf(f)) ELSE 0]
    BY <1>6 DEF Manager!PollAll
  <2>2. FirstLive = 1 /\ FirstLive' = 1
    BY <2>1 DEF FirstLive
  <2>3. \A f \in Objects : Manager!SlotsOf(f) = LiveFrom(slots, 1, f)
    <3>1. \A i \in DOMAIN slots : i >= 1
      BY DEF SlotsInv
    <3> QED BY <3>1 DEF Manager!SlotsOf, LiveFrom
  <2>4. \A f \in Objects : /\ Cardinality(LiveFrom(slots, 1, f)) \in Nat
                         /\ Cardinality(LiveFrom(slots, 1, f))
                              <= Cardinality({path \in DOMAIN FileOf : FileOf[path] = f})
    BY PathsOfSlots, LiveFinite DEF SlotsInv
  <2>5. \A f \in Objects : polled'[f] = IF f \in initialized THEN Cardinality(LiveFrom(slots, 1, f)) ELSE 0
    BY <2>1, <2>3, SameCardinality
  <2>6. polled' \in [Objects -> Int]
    <3>1. ASSUME NEW f \in Objects PROVE polled'[f] \in Int
      <4>1. slots \in Seq(SlotRecords)
        BY DEF SlotsInv
      <4>2. Cardinality(LiveFrom(slots, 1, f)) \in Nat
        BY <4>1, LiveFinite
      <4>3. polled'[f] = Cardinality(LiveFrom(slots, 1, f)) \/ polled'[f] = 0
        BY <2>5
      <4> QED BY <4>2, <4>3
    <3>2. polled' = [f \in Objects |-> polled'[f]]
      BY <2>1
    <3> QED BY <3>1, <3>2
  <2>7. \A f \in Objects : polled'[f] <= Cardinality({path \in DOMAIN FileOf : FileOf[path] = f})
    <3>1. \A f \in Objects : Cardinality({path \in DOMAIN FileOf : FileOf[path] = f}) \in Nat
      BY ServicesAssumption, FS_Subset, FS_CardinalityType
    <3> QED BY <2>4, <2>5, <3>1
  <2>8. SlotsInv'
    BY <2>1, <2>2, <2>6, <2>7 DEF SlotsInv
  <2> QED BY <2>1, <2>8 DEF ShutdownInv
<1>7. CASE Manager!BeginShutdown
  <2>1. /\ mpc = "running" /\ mpc' = "shutdown" /\ upTo' = 1
        /\ UNCHANGED <<slots, refs, polled, initialized, shutdowns, used>>
    BY <1>7 DEF Manager!BeginShutdown
  <2>2. FirstLive = 1 /\ FirstLive' = 1
    BY <2>1 DEF FirstLive
  <2> QED BY <2>1, <2>2 DEF SlotsInv, ShutdownInv
<1>8. CASE Manager!ShutdownSlot
  BY <1>8, ShutdownSlotKeeps
<1>9. CASE Manager!EndShutdown
  <2>1. /\ mpc = "shutdown" /\ upTo > Len(slots) /\ slots' = <<>> /\ mpc' = "stopped" /\ upTo' = upTo
        /\ UNCHANGED <<refs, polled, initialized, shutdowns, used>>
    BY <1>9 DEF Manager!EndShutdown
  <2>2. FirstLive = upTo /\ FirstLive' = 1
    BY <2>1 DEF FirstLive
  <2>3. \A f : LiveFrom(slots, upTo, f) = {}
    <3>1. \A i \in DOMAIN slots : i <= Len(slots) /\ i \in Nat /\ Len(slots) \in Nat
      BY DEF SlotsInv
    <3> QED BY <2>1, <3>1 DEF LiveFrom, SlotsInv
  <2>4. \A f : LiveFrom(slots', 1, f) = {}
    BY <2>1 DEF LiveFrom
  <2>5. initialized = {}
    BY <2>2, <2>3 DEF SlotsInv
  <2>6. \A f \in Objects : refs[f] = Cardinality(LiveFrom(slots', 1, f))
    BY <2>2, <2>3, <2>4 DEF SlotsInv
  <2>7. slots' \in Seq(SlotRecords) /\ Len(slots') <= MaxDynamic /\ DOMAIN slots' = {}
    BY <2>1, ServicesAssumption
  <2>8. SlotsInv'
    BY <2>1, <2>2, <2>4, <2>5, <2>6, <2>7 DEF SlotsInv
  <2> QED BY <2>1, <2>5, <2>8 DEF ShutdownInv
<1>10. CASE UNCHANGED Manager!vars
  BY <1>10 DEF Manager!vars, SlotsInv, ShutdownInv, FirstLive
<1> QED BY <1>2, <1>3, <1>4, <1>5, <1>6, <1>7, <1>8, <1>9, <1>10 DEF Manager!Next

LEMMA SlotsAlways == ServicesSpec => [](SlotsInv /\ ShutdownInv)
<1>1. Manager!Spec => [](SlotsInv /\ ShutdownInv)
  BY SlotsInit, SlotsNext, PTL DEF Manager!Spec
<1> QED BY <1>1, ServicesAreManager, PTL

\* The manager holds a handle for each slot and none besides, so that what it polls or shuts down is
\* mapped, and polls a module at most once for each path.
THEOREM HandlesAreCounted == ServicesSpec => []HandlesMatchSlots
<1>1. SlotsInv => HandlesMatchSlots
  <2> SUFFICES ASSUME SlotsInv PROVE HandlesMatchSlots
    OBVIOUS
  <2>1. Manager!Cardinality(Manager!Paths) = Len(slots)
    BY PathsOfSlots, SameCardinality DEF SlotsInv, Manager!Paths
  <2>2. \A f \in Objects : Manager!LiveSlotsOf(f) = LiveFrom(slots, FirstLive, f)
    <3>1. \A i \in DOMAIN slots : i >= 1
      BY DEF SlotsInv
    <3> QED BY <3>1 DEF Manager!LiveSlotsOf, Manager!SlotsOf, LiveFrom, FirstLive
  <2>3. FirstLive \in Nat
    BY DEF SlotsInv, FirstLive
  <2>4. \A f \in initialized : refs[f] > 0
    <3> SUFFICES ASSUME NEW f \in initialized PROVE refs[f] > 0
      OBVIOUS
    <3>1. f \in Objects /\ LiveFrom(slots, FirstLive, f) # {} /\ slots \in Seq(SlotRecords)
          /\ refs[f] = Cardinality(LiveFrom(slots, FirstLive, f))
      BY DEF SlotsInv
    <3>2. /\ Cardinality(LiveFrom(slots, FirstLive, f)) \in Nat
          /\ Cardinality(LiveFrom(slots, FirstLive, f)) # 0
      BY <2>3, <3>1, LiveFinite
    <3> QED BY <3>1, <3>2
  <2> QED BY <2>1, <2>2, <2>4, SameCardinality DEF SlotsInv, HandlesMatchSlots, Manager!HandlesMatchSlots
<1> QED BY <1>1, SlotsAlways, PTL

\* In the end every module that had a slot was shut down exactly once, and no other one ever.
THEOREM ShutdownIsOnce == ServicesSpec => []ShutDownOnce
<1>1. ShutdownInv => ShutDownOnce
  BY DEF ShutdownInv, ShutDownOnce, Manager!ShutDownOnce
<1> QED BY <1>1, SlotsAlways, PTL

-----------------------------------------------------------------------------
(***************************************************************************)
(* The whitelist's file                                                    *)
(***************************************************************************)
\* Times of the file never decrease, and none is 0.
TimesInv ==
  /\ wnow \in Nat /\ wnow >= 1
  /\ mtimes \in Seq(Nat) /\ Len(mtimes) >= 1
  /\ \A i \in DOMAIN mtimes : mtimes[i] \in Nat /\ mtimes[i] >= 1 /\ mtimes[i] <= wnow
  /\ \A i, j \in DOMAIN mtimes : i <= j => mtimes[i] <= mtimes[j]

\* Rules that were read are of the version that stat saw or of a later one, and the time that is
\* remembered is that of the former.
RulesInv ==
  /\ wpc \in {"init", "idle", "poll", "load", "loaded"}
  /\ rules \in 0..Len(mtimes)
  /\ wpc = "init" => lastMtime = 0 /\ rules = 0 /\ ~failed
  /\ wpc \in {"idle", "poll"} => fresh
  /\ wpc \in {"idle", "poll"} /\ ~failed =>
       \/ rules = 0 /\ lastMtime = 0
       \/ seen \in 1..rules /\ lastMtime = mtimes[seen]
  /\ wpc \in {"load", "loaded"} => seen \in 1..Len(mtimes)
  /\ wpc = "loaded" /\ ~failed => seen \in 1..rules

LEMMA RulesInit == Whitelist!Init => TimesInv /\ RulesInv
<1> SUFFICES ASSUME Whitelist!Init PROVE TimesInv /\ RulesInv
  OBVIOUS
<1>1. /\ wnow = PollSeconds /\ mtimes = <<1>> /\ rules = 0 /\ lastMtime = 0
      /\ wpc = "init" /\ failed = FALSE
  BY DEF Whitelist!Init
<1>2. PollSeconds \in Nat /\ PollSeconds >= 1
  BY ServicesAssumption
<1>3. TimesInv
  BY <1>1, <1>2 DEF TimesInv
<1>4. RulesInv
  BY <1>1 DEF RulesInv
<1> QED BY <1>3, <1>4

\* An edit appends a time to the others.
LEMMA EditKeeps ==
  ASSUME TimesInv, RulesInv, Whitelist!Edit
  PROVE  TimesInv' /\ RulesInv'
<1>1. /\ mtimes' = Append(mtimes, wnow)
      /\ UNCHANGED <<wnow, rules, lastMtime, fresh, wpc, seen, failed>>
  BY DEF Whitelist!Edit
<1>2. /\ mtimes \in Seq(Nat) /\ wnow \in Nat /\ wnow >= 1 /\ Len(mtimes) \in Nat /\ Len(mtimes) >= 1
  BY DEF TimesInv
<1> DEFINE n == Len(mtimes)
<1>3. /\ mtimes' \in Seq(Nat) /\ Len(mtimes') = n + 1 /\ DOMAIN mtimes = 1..n
      /\ DOMAIN mtimes' = 1..(n + 1) /\ mtimes'[n + 1] = wnow
      /\ \A i \in DOMAIN mtimes : mtimes'[i] = mtimes[i]
  BY <1>1, <1>2, AppendProperties
<1>4. \A i \in DOMAIN mtimes' : i \in DOMAIN mtimes \/ i = n + 1
  BY <1>2, <1>3
<1> HIDE DEF n
<1>5. TimesInv'
  <2>1. \A i \in DOMAIN mtimes' : mtimes'[i] \in Nat /\ mtimes'[i] >= 1 /\ mtimes'[i] <= wnow
    <3> SUFFICES ASSUME NEW i \in DOMAIN mtimes'
                 PROVE  mtimes'[i] \in Nat /\ mtimes'[i] >= 1 /\ mtimes'[i] <= wnow
      OBVIOUS
    <3>1. CASE i \in DOMAIN mtimes
      <4>1. mtimes'[i] = mtimes[i] /\ mtimes[i] \in Nat /\ mtimes[i] >= 1 /\ mtimes[i] <= wnow
        BY <1>3, <3>1 DEF TimesInv
      <4> QED BY <4>1
    <3>2. CASE i = n + 1
      <4>1. mtimes'[i] = wnow
        BY <1>3, <3>2
      <4> QED BY <1>2, <4>1
    <3> QED BY <1>4, <3>1, <3>2
  <2>2. ASSUME NEW i \in DOMAIN mtimes', NEW j \in DOMAIN mtimes', i <= j
        PROVE  mtimes'[i] <= mtimes'[j]
    <3>1. CASE j = n + 1
      BY <1>3, <2>1, <3>1
    <3>2. CASE j # n + 1
      <4>1. i \in DOMAIN mtimes /\ j \in DOMAIN mtimes
        BY <1>2, <1>3, <1>4, <2>2, <3>2 DEF n
      <4> QED BY <1>3, <2>2, <4>1 DEF TimesInv
    <3> QED BY <3>1, <3>2
  <2>3. Len(mtimes') >= 1
    BY <1>2, <1>3 DEF n
  <2> QED BY <1>1, <1>2, <1>3, <2>1, <2>2, <2>3 DEF TimesInv
<1>6. RulesInv'
  <2>1. rules \in 0..n /\ n \in Nat
    BY <1>2 DEF RulesInv, n
  <2>2. rules \in 0..(n + 1) /\ 1..rules \subseteq DOMAIN mtimes /\ 1..n \subseteq 1..(n + 1)
    BY <1>3, <2>1
  <2>3. wpc \in {"load", "loaded"} => seen \in 1..(n + 1)
    BY <2>2 DEF RulesInv, n
  <2> QED BY <1>1, <1>3, <2>2, <2>3 DEF RulesInv
<1> QED BY <1>5, <1>6

LEMMA RulesNext == TimesInv /\ RulesInv /\ [Whitelist!Next]_(Whitelist!vars) => TimesInv' /\ RulesInv'
<1> SUFFICES ASSUME TimesInv, RulesInv, [Whitelist!Next]_(Whitelist!vars)
             PROVE  TimesInv' /\ RulesInv'
  OBVIOUS
<1>1. ASSUME UNCHANGED <<wnow, mtimes>> PROVE TimesInv'
  BY <1>1 DEF TimesInv
<1>2. Len(mtimes) \in Nat /\ Len(mtimes) >= 1 /\ Whitelist!Version = Len(mtimes)
  BY DEF TimesInv, Whitelist!Version
<1>3. CASE Whitelist!Edit
  BY <1>3, EditKeeps
<1>4. CASE Whitelist!Delete \/ Whitelist!Restore
  <2>1. UNCHANGED <<wnow, mtimes, rules, lastMtime, fresh, wpc, seen, failed>>
    BY <1>4 DEF Whitelist!Delete, Whitelist!Restore
  <2> QED BY <1>1, <2>1 DEF RulesInv
<1>5. CASE Whitelist!Tick
  <2>1. wnow' = wnow + 1 /\ UNCHANGED <<mtimes, rules, lastMtime, fresh, wpc, seen, failed>>
    BY <1>5 DEF Whitelist!Tick
  <2> QED BY <2>1 DEF TimesInv, RulesInv
<1>6. CASE Whitelist!BeginPoll \/ Whitelist!Unchanged
  <2>1. /\ wpc \in {"idle", "poll"} /\ wpc' \in {"idle", "poll"}
        /\ UNCHANGED <<wnow, mtimes, rules, lastMtime, fresh, seen, failed>>
    BY <1>6 DEF Whitelist!BeginPoll, Whitelist!Unchanged
  <2> QED BY <1>1, <2>1 DEF RulesInv
<1>7. CASE Whitelist!Unavailable
  <2>1. /\ wpc \in {"init", "poll"} /\ wpc' = "idle"
        /\ UNCHANGED <<wnow, mtimes, lastMtime, seen, failed>>
        /\ wpc = "init" => rules' = 0 /\ fresh' = TRUE
        /\ wpc = "poll" /\ fresh => rules' = rules /\ fresh' = fresh
    BY <1>7 DEF Whitelist!Unavailable
  <2>2. 0 \in 0..Len(mtimes)
    BY <1>2
  <2> QED BY <1>1, <2>1, <2>2 DEF RulesInv
<1>8. CASE Whitelist!Stat
  <2>1. seen' = Len(mtimes) /\ wpc' = "load" /\ UNCHANGED <<wnow, mtimes, rules>>
    BY <1>2, <1>8 DEF Whitelist!Stat
  <2>2. Len(mtimes) \in 1..Len(mtimes)
    BY <1>2
  <2> QED BY <1>1, <2>1, <2>2 DEF RulesInv
<1>9. CASE Whitelist!Load
  <2>1. wpc = "load" /\ rules' = Len(mtimes) /\ wpc' = "loaded" /\ UNCHANGED <<wnow, mtimes, seen>>
    BY <1>2, <1>9 DEF Whitelist!Load
  <2>2. Len(mtimes) \in 0..Len(mtimes)
    BY <1>2
  <2> QED BY <1>1, <2>1, <2>2 DEF RulesInv
<1>10. CASE Whitelist!LoadFails
  <2>1. /\ wpc = "load" /\ rules' = 0 /\ failed' = TRUE /\ wpc' = "loaded"
        /\ UNCHANGED <<wnow, mtimes, seen>>
    BY <1>10 DEF Whitelist!LoadFails
  <2>2. 0 \in 0..Len(mtimes)
    BY <1>2
  <2> QED BY <1>1, <2>1, <2>2 DEF RulesInv
<1>11. CASE Whitelist!EndLoad
  <2>1. /\ wpc = "loaded" /\ wpc' = "idle" /\ lastMtime' = mtimes[seen] /\ fresh' = TRUE
        /\ UNCHANGED <<wnow, mtimes, rules, seen, failed>>
    BY <1>11 DEF Whitelist!EndLoad, Whitelist!Loaded
  <2> QED BY <1>1, <2>1 DEF RulesInv
<1>12. CASE UNCHANGED Whitelist!vars
  BY <1>12 DEF Whitelist!vars, TimesInv, RulesInv
<1> QED BY <1>3, <1>4, <1>5, <1>6, <1>7, <1>8, <1>9, <1>10, <1>11, <1>12 DEF Whitelist!Next

LEMMA RulesAlways == ServicesSpec => [](TimesInv /\ RulesInv)
<1>1. Whitelist!Spec => [](TimesInv /\ RulesInv)
  BY RulesInit, RulesNext, PTL DEF Whitelist!Spec
<1> QED BY <1>1, ServicesAreWhitelist, PTL

\* A position of a prefix of a sequence is one of the sequence.
LEMMA Positions ==
  ASSUME NEW n \in Nat, NEW prefix \in 0..n, NEW i \in 1..prefix
  PROVE  i \in 1..n /\ prefix \in 1..n /\ i <= prefix /\ prefix <= n /\ prefix # 0
OBVIOUS

\* Rules that are not those of the file differ from it in the time, unless the file could not be
\* opened or was edited again within the second of the version that was read.
THEOREM StaleRulesAreNoticed == ServicesSpec => []StaleIsNoticed
<1>1. TimesInv /\ RulesInv => StaleIsNoticed
  <2> SUFFICES ASSUME TimesInv, RulesInv, wpc = "idle", ~failed, rules # Len(mtimes),
                      mtimes[Len(mtimes)] = lastMtime
               PROVE  rules # 0 /\ mtimes[Len(mtimes)] = mtimes[rules]
    BY DEF StaleIsNoticed, Whitelist!StaleIsNoticed, Whitelist!Version
  <2>1. Len(mtimes) \in DOMAIN mtimes /\ DOMAIN mtimes = 1..Len(mtimes) /\ Len(mtimes) \in Nat
    BY DEF TimesInv
  <2>2. lastMtime # 0
    BY <2>1 DEF TimesInv
  <2>3. seen \in 1..rules /\ lastMtime = mtimes[seen] /\ rules \in 0..Len(mtimes)
    BY SMTT(30), <2>2 DEF RulesInv
  <2>4. seen \in DOMAIN mtimes /\ rules \in DOMAIN mtimes /\ seen <= rules /\ rules <= Len(mtimes)
        /\ rules # 0
    BY <2>1, <2>3, Positions
  <2>5. mtimes[seen] <= mtimes[rules] /\ mtimes[rules] <= mtimes[Len(mtimes)]
        /\ mtimes[rules] \in Nat /\ mtimes[seen] \in Nat
    BY <2>1, <2>4 DEF TimesInv
  <2> QED BY <2>3, <2>4, <2>5
<1> QED BY <1>1, RulesAlways, PTL

-----------------------------------------------------------------------------
(***************************************************************************)
(* The filter of repeated lines                                            *)
(***************************************************************************)
LineRecords == [line : Lines, at : Int, written : BOOLEAN, repeats : Nat]
SlotStates  == [hash : Lines \cup {NoLine}, last : Int, suppressed : Nat]

\* The lines of q that repeat line l after i and before j, and what LogDedup says of two calls.
Same(q, l, i, j) == {c \in (i + 1)..(j - 1) : q[c].line = l}
Chain(q, i, j) ==
  /\ i < j /\ q[i].line = q[j].line
  /\ \A c \in (i + 1)..(j - 1) : SlotOf[q[c].line] = SlotOf[q[i].line] => q[c].line = q[i].line

Suppressed(q, rate) ==
  \A j \in DOMAIN q : ~q[j].written =>
    \E i \in DOMAIN q : Chain(q, i, j) /\ q[i].written /\ q[j].at - q[i].at < rate

Reported(q, rate) ==
  \A i, j \in DOMAIN q :
    Chain(q, i, j) /\ q[i].written /\ q[j].written =>
      /\ rate > 0 => q[j].at - q[i].at >= rate
      /\ (\A c \in Same(q, q[i].line, i, j) : ~q[c].written)
           => q[j].repeats = Cardinality(Same(q, q[i].line, i, j))

\* A slot remembers the last line that was written through it: since then only that line used the
\* slot, was left out each time, and was counted.
Remembers(slot, s, q, i) ==
  /\ q[i].line = slot.hash /\ SlotOf[slot.hash] = s /\ q[i].written /\ q[i].at = slot.last
  /\ \A c \in DOMAIN q : c > i /\ SlotOf[q[c].line] = s => q[c].line = slot.hash /\ ~q[c].written
  /\ slot.suppressed = Cardinality(Same(q, slot.hash, i, Len(q) + 1))

Unused(slot, s, q) == slot.hash = NoLine /\ \A c \in DOMAIN q : SlotOf[q[c].line] # s

SlotIsCurrent(slot, s, q) == Unused(slot, s, q) \/ \E i \in DOMAIN q : Remembers(slot, s, q, i)

LEMMA LineAdded ==
  ASSUME NEW q \in Seq(LineRecords), NEW r \in LineRecords
  PROVE  /\ Append(q, r) \in Seq(LineRecords) /\ Len(q) \in Nat
         /\ DOMAIN q = 1..Len(q) /\ DOMAIN Append(q, r) = 1..(Len(q) + 1)
         /\ Len(Append(q, r)) = Len(q) + 1 /\ Append(q, r)[Len(q) + 1] = r
         /\ \A i \in DOMAIN Append(q, r) : i \in DOMAIN q \/ i = Len(q) + 1
         /\ \A i \in DOMAIN q : Append(q, r)[i] = q[i] /\ q[i] \in LineRecords
<1>1. \A i \in DOMAIN q : q[i] \in LineRecords
  OBVIOUS
<1>2. Len(q) \in Nat /\ DOMAIN q = 1..Len(q) /\ DOMAIN Append(q, r) = 1..(Len(q) + 1)
  BY AppendProperties
<1>3. \A i \in 1..(Len(q) + 1) : i \in 1..Len(q) \/ i = Len(q) + 1
  BY <1>2
<1> QED BY <1>1, <1>2, <1>3, AppendProperties

\* What is said of two calls does not change with the calls that follow.
LEMMA PairsStay ==
  ASSUME NEW q \in Seq(LineRecords), NEW r \in LineRecords, NEW i \in DOMAIN q, NEW j \in DOMAIN q
  PROVE  /\ Chain(Append(q, r), i, j) <=> Chain(q, i, j)
         /\ \A l : Same(Append(q, r), l, i, j) = Same(q, l, i, j)
<1>1. \A c \in (i + 1)..(j - 1) : Append(q, r)[c] = q[c]
  <2> SUFFICES ASSUME NEW c \in (i + 1)..(j - 1) PROVE Append(q, r)[c] = q[c]
    OBVIOUS
  <2>1. c \in DOMAIN q
    BY LineAdded
  <2> QED BY <2>1, LineAdded
<1>2. Append(q, r)[i] = q[i] /\ Append(q, r)[j] = q[j]
  BY LineAdded
<1> QED BY <1>1, <1>2 DEF Chain, Same

LEMMA SuppressedStep ==
  ASSUME NEW q \in Seq(LineRecords), NEW r \in LineRecords, NEW rate, Suppressed(q, rate),
         ~r.written => \E i \in DOMAIN q : /\ Chain(Append(q, r), i, Len(q) + 1) /\ q[i].written
                                           /\ r.at - q[i].at < rate
  PROVE  Suppressed(Append(q, r), rate)
<1> DEFINE p == Append(q, r)
           n == Len(q)
<1>1. /\ DOMAIN q = 1..n /\ DOMAIN p = 1..(n + 1) /\ n \in Nat /\ p[n + 1] = r
      /\ \A i \in DOMAIN q : p[i] = q[i]
      /\ \A i \in DOMAIN p : i \in DOMAIN q \/ i = n + 1
  BY LineAdded
<1>2. ASSUME NEW j \in DOMAIN q, ~q[j].written
      PROVE  \E i \in DOMAIN p : Chain(p, i, j) /\ p[i].written /\ p[j].at - p[i].at < rate
  <2>1. PICK i \in DOMAIN q : Chain(q, i, j) /\ q[i].written /\ q[j].at - q[i].at < rate
    BY <1>2 DEF Suppressed
  <2>2. Chain(p, i, j)
    BY <2>1, PairsStay
  <2>3. i \in DOMAIN p /\ p[i] = q[i] /\ p[j] = q[j]
    BY <1>1
  <2> QED BY <2>1, <2>2, <2>3
<1>3. ASSUME ~r.written
      PROVE  \E i \in DOMAIN p :
               Chain(p, i, n + 1) /\ p[i].written /\ p[n + 1].at - p[i].at < rate
  <2>1. PICK i \in DOMAIN q : Chain(p, i, n + 1) /\ q[i].written /\ r.at - q[i].at < rate
    BY <1>3
  <2>2. i \in DOMAIN p /\ p[i] = q[i]
    BY <1>1
  <2> QED BY <1>1, <2>1, <2>2
<1> HIDE DEF p, n
<1>4. \A j \in DOMAIN p : (j \in DOMAIN q /\ p[j] = q[j]) \/ (j = n + 1 /\ p[j] = r)
  BY <1>1
<1>5. Suppressed(p, rate)
  BY <1>2, <1>3, <1>4 DEF Suppressed
<1> QED BY <1>5 DEF p

LEMMA ReportedStep ==
  ASSUME NEW q \in Seq(LineRecords), NEW r \in LineRecords, NEW rate, Reported(q, rate),
         \A i \in DOMAIN q :
           Chain(Append(q, r), i, Len(q) + 1) /\ q[i].written /\ r.written =>
             /\ rate > 0 => r.at - q[i].at >= rate
             /\ (\A c \in Same(q, q[i].line, i, Len(q) + 1) : ~q[c].written)
                  => r.repeats = Cardinality(Same(q, q[i].line, i, Len(q) + 1))
  PROVE  Reported(Append(q, r), rate)
<1> DEFINE p == Append(q, r)
           n == Len(q)
<1>1. /\ DOMAIN q = 1..n /\ DOMAIN p = 1..(n + 1) /\ n \in Nat /\ p[n + 1] = r
      /\ \A i \in DOMAIN q : p[i] = q[i]
      /\ \A i \in DOMAIN p : i \in DOMAIN q \/ i = n + 1
  BY LineAdded
<1>2. ASSUME NEW i \in DOMAIN q, NEW j \in DOMAIN q, Chain(p, i, j), p[i].written, p[j].written
      PROVE  /\ rate > 0 => p[j].at - p[i].at >= rate
             /\ (\A c \in Same(p, p[i].line, i, j) : ~p[c].written)
                  => p[j].repeats = Cardinality(Same(p, p[i].line, i, j))
  <2>1. Chain(q, i, j) /\ Same(p, p[i].line, i, j) = Same(q, q[i].line, i, j)
    <3>1. Chain(p, i, j) <=> Chain(q, i, j)
      BY PairsStay
    <3>2. Same(p, q[i].line, i, j) = Same(q, q[i].line, i, j)
      BY PairsStay
    <3> QED BY <1>1, <1>2, <3>1, <3>2
  <2>2. \A c \in Same(q, q[i].line, i, j) : p[c] = q[c]
    <3> SUFFICES ASSUME NEW c \in (i + 1)..(j - 1) PROVE p[c] = q[c]
      BY DEF Same
    <3>1. c \in DOMAIN q
      BY <1>1
    <3> QED BY <1>1, <3>1
  <2>3. p[i] = q[i] /\ p[j] = q[j]
    BY <1>1
  <2> HIDE DEF p
  <2> QED BY <1>2, <2>1, <2>2, <2>3 DEF Reported
<1>3. ASSUME NEW i \in DOMAIN q, Chain(p, i, n + 1), p[i].written, r.written
      PROVE  /\ rate > 0 => r.at - p[i].at >= rate
             /\ (\A c \in Same(p, p[i].line, i, n + 1) : ~p[c].written)
                  => r.repeats = Cardinality(Same(p, p[i].line, i, n + 1))
  <2>1. \A c \in (i + 1)..((n + 1) - 1) : p[c] = q[c]
    <3> SUFFICES ASSUME NEW c \in (i + 1)..((n + 1) - 1) PROVE p[c] = q[c]
      OBVIOUS
    <3>1. c \in DOMAIN q
      BY <1>1
    <3> QED BY <1>1, <3>1
  <2>2. p[i] = q[i]
    BY <1>1
  <2>3. Same(p, p[i].line, i, n + 1) = Same(q, q[i].line, i, n + 1)
    BY <2>1, <2>2 DEF Same
  <2>4. \A c \in Same(q, q[i].line, i, n + 1) : p[c] = q[c]
    BY <2>1 DEF Same
  <2> QED BY <1>3, <2>2, <2>3, <2>4
<1> HIDE DEF p, n
<1>4. \A j \in DOMAIN p : j \in DOMAIN q \/ (j = n + 1 /\ p[j] = r)
  BY <1>1
<1>5. \A j \in DOMAIN q : ~ Chain(p, n + 1, j)
  BY <1>1 DEF Chain
<1>6. ~ Chain(p, n + 1, n + 1)
  BY <1>1 DEF Chain
<1>7. Reported(p, rate)
  BY <1>2, <1>3, <1>4, <1>5, <1>6 DEF Reported
<1> QED BY <1>7 DEF p

\* The repeats that follow call i are finitely many.
LEMMA SameFinite ==
  ASSUME NEW q, NEW l, NEW i \in Int, NEW j \in Int
  PROVE  IsFiniteSet(Same(q, l, i, j)) /\ Cardinality(Same(q, l, i, j)) \in Nat
<1>1. IsFiniteSet((i + 1)..(j - 1))
  BY FS_Interval
<1>2. Same(q, l, i, j) \in SUBSET ((i + 1)..(j - 1))
  BY DEF Same
<1> QED BY <1>1, <1>2, FS_Subset, FS_CardinalityType

LEMMA SameMember ==
  ASSUME NEW q, NEW l, NEW i \in Int, NEW j \in Int
  PROVE  \A c : c \in Same(q, l, i, j) <=> c \in Int /\ i < c /\ c < j /\ q[c].line = l
BY DEF Same

\* A call of another slot leaves a slot current.
LEMMA OtherSlotsStay ==
  ASSUME NEW q \in Seq(LineRecords), NEW r \in LineRecords, NEW s \in Slots, NEW slot \in SlotStates,
         SlotIsCurrent(slot, s, q), SlotOf[r.line] # s
  PROVE  SlotIsCurrent(slot, s, Append(q, r))
<1> DEFINE p == Append(q, r)
           n == Len(q)
<1>1. /\ DOMAIN q = 1..n /\ DOMAIN p = 1..(n + 1) /\ n \in Nat /\ p[n + 1] = r /\ Len(p) = n + 1
      /\ \A i \in DOMAIN q : p[i] = q[i]
      /\ \A i \in DOMAIN p : i \in DOMAIN q \/ i = n + 1
  BY LineAdded
<1> HIDE DEF p, n
<1>2. CASE Unused(slot, s, q)
  <2>1. Unused(slot, s, p)
    BY <1>1, <1>2 DEF Unused
  <2> QED BY <2>1 DEF SlotIsCurrent, p
<1>3. CASE \E i \in DOMAIN q : Remembers(slot, s, q, i)
  <2>1. PICK i \in DOMAIN q : Remembers(slot, s, q, i)
    BY <1>3
  <2>2. i \in DOMAIN p /\ p[i] = q[i]
    BY <1>1
  <2>3. \A c \in DOMAIN p : c > i /\ SlotOf[p[c].line] = s => p[c].line = slot.hash /\ ~p[c].written
    BY <1>1, <2>1 DEF Remembers
  <2>4. Same(p, slot.hash, i, Len(p) + 1) = Same(q, slot.hash, i, n + 1)
    <3>1. SlotOf[slot.hash] = s
      BY <2>1 DEF Remembers
    <3>2. p[n + 1].line # slot.hash
      BY <1>1, <3>1
    <3>3. \A c \in Int : i < c /\ c < n + 1 => p[c] = q[c]
      BY <1>1
    <3>4. ASSUME NEW c \in Int, i < c
          PROVE  c < n + 2 /\ p[c].line = slot.hash <=> c < n + 1 /\ q[c].line = slot.hash
      <4>1. CASE c = n + 1
        BY <1>1, <3>2, <4>1
      <4>2. CASE c # n + 1
        <5>1. c < n + 2 <=> c < n + 1
          BY <1>1, <4>2
        <5> QED BY <3>3, <3>4, <5>1
      <4> QED BY <4>1, <4>2
    <3>5. i \in Int /\ n + 1 \in Int /\ Len(p) + 1 \in Int /\ Len(p) + 1 = n + 2
      BY <1>1
    <3>6. \A c : c \in Same(p, slot.hash, i, Len(p) + 1) <=> c \in Same(q, slot.hash, i, n + 1)
      BY <3>4, <3>5, SameMember
    <3> QED BY <3>6
  <2>5. Remembers(slot, s, p, i)
    BY <1>1, <2>1, <2>2, <2>3, <2>4 DEF Remembers, n
  <2> QED BY <2>2, <2>5 DEF SlotIsCurrent, p
<1> QED BY <1>2, <1>3 DEF SlotIsCurrent

\* A repeat is counted in its slot.
LEMMA RepeatIsCounted ==
  ASSUME NEW q \in Seq(LineRecords), NEW r \in LineRecords, NEW s \in Slots, NEW slot \in SlotStates,
         NEW i \in DOMAIN q, Remembers(slot, s, q, i), r.line = slot.hash, ~r.written
  PROVE  Remembers([slot EXCEPT !.suppressed = @ + 1], s, Append(q, r), i)
<1> DEFINE p == Append(q, r)
           n == Len(q)
           counted == [slot EXCEPT !.suppressed = @ + 1]
<1>1. /\ DOMAIN q = 1..n /\ DOMAIN p = 1..(n + 1) /\ n \in Nat /\ p[n + 1] = r /\ Len(p) = n + 1
      /\ \A c \in DOMAIN q : p[c] = q[c]
      /\ \A c \in DOMAIN p : c \in DOMAIN q \/ c = n + 1
  BY LineAdded
<1>2. counted.hash = slot.hash /\ counted.last = slot.last /\ counted.suppressed = slot.suppressed + 1
  BY DEF SlotStates
<1> HIDE DEF p, n, counted
<1>3. \A c \in DOMAIN p : c > i /\ SlotOf[p[c].line] = s => p[c].line = slot.hash /\ ~p[c].written
  BY <1>1 DEF Remembers
<1>4. Same(p, slot.hash, i, n + 2) = Same(q, slot.hash, i, n + 1) \cup {n + 1}
  <2>1. \A c \in Int : i < c /\ c < n + 1 => p[c] = q[c]
    BY <1>1
  <2>2. p[n + 1].line = slot.hash /\ n + 1 \in Int /\ n + 2 \in Int /\ i \in Int /\ i < n + 1
    BY <1>1
  <2>3. ASSUME NEW c \in Int, i < c
        PROVE  c < n + 2 /\ p[c].line = slot.hash <=> (c < n + 1 /\ q[c].line = slot.hash) \/ c = n + 1
    <3>1. CASE c = n + 1
      BY <1>1, <2>2, <3>1
    <3>2. CASE c # n + 1
      <4>1. c < n + 2 <=> c < n + 1
        BY <1>1, <3>2
      <4> QED BY <2>1, <2>3, <3>2, <4>1
    <3> QED BY <3>1, <3>2
  <2>4. \A c : c \in Same(p, slot.hash, i, n + 2) <=> c \in Same(q, slot.hash, i, n + 1) \/ c = n + 1
    BY <2>2, <2>3, SameMember
  <2> QED BY <2>4
<1>5. n + 1 \notin Same(q, slot.hash, i, n + 1)
  BY <1>1 DEF Same
<1>6. IsFiniteSet(Same(q, slot.hash, i, n + 1))
  BY <1>1, SameFinite
<1>7. Cardinality(Same(p, slot.hash, i, n + 2)) = slot.suppressed + 1
  BY <1>4, <1>5, <1>6, FS_AddElement DEF Remembers, n
<1>8. Len(p) + 1 = n + 2 /\ p[i] = q[i]
  BY <1>1
<1>9. Remembers(counted, s, p, i)
  BY <1>2, <1>3, <1>7, <1>8 DEF Remembers
<1> QED BY <1>9 DEF p, counted

\* A line that is written takes its slot.
LEMMA WrittenIsRemembered ==
  ASSUME NEW q \in Seq(LineRecords), NEW r \in LineRecords, r.written
  PROVE  Remembers([hash |-> r.line, last |-> r.at, suppressed |-> 0], SlotOf[r.line],
                   Append(q, r), Len(q) + 1)
<1> DEFINE p == Append(q, r)
           n == Len(q)
<1>1. DOMAIN p = 1..(n + 1) /\ n \in Nat /\ p[n + 1] = r /\ Len(p) = n + 1
  BY LineAdded
<1> HIDE DEF p, n
<1>2. \A c \in DOMAIN p : ~(c > n + 1)
  BY <1>1
<1>3. Same(p, r.line, n + 1, Len(p) + 1) = {}
  BY <1>1 DEF Same
<1>4. Cardinality(Same(p, r.line, n + 1, Len(p) + 1)) = 0
  BY <1>3, FS_EmptySet
<1>5. Remembers([hash |-> r.line, last |-> r.at, suppressed |-> 0], SlotOf[r.line], p, n + 1)
  BY <1>1, <1>2, <1>4 DEF Remembers
<1> QED BY <1>5 DEF p, n

\* The filter's state against the lines that were logged.
DedupInv ==
  /\ rateSeconds \in Nat /\ dnow \in Int
  /\ lines \in Seq(LineRecords) /\ dedup \in [Slots -> SlotStates]
  /\ rateSeconds = 0 => \A c \in DOMAIN lines : lines[c].written /\ lines[c].repeats = 0
  /\ rateSeconds # 0 => \A s \in Slots : SlotIsCurrent(dedup[s], s, lines)
  /\ Suppressed(lines, rateSeconds) /\ Reported(lines, rateSeconds)

LEMMA DedupInit == Dedup!Init => DedupInv
<1> SUFFICES ASSUME Dedup!Init PROVE DedupInv
  OBVIOUS
<1>1. /\ rateSeconds \in Rates /\ dnow = 0 /\ lines = <<>>
      /\ dedup = [s \in Slots |-> [hash |-> NoLine, last |-> 0, suppressed |-> 0]]
  BY DEF Dedup!Init
<1>2. rateSeconds \in Nat
  BY <1>1, ServicesAssumption
<1>3. DOMAIN lines = {} /\ lines \in Seq(LineRecords)
  BY <1>1
<1>4. \A s \in Slots : SlotIsCurrent(dedup[s], s, lines)
  BY <1>1, <1>3 DEF SlotIsCurrent, Unused
<1>5. dedup \in [Slots -> SlotStates]
  BY <1>1 DEF SlotStates
<1>6. Suppressed(lines, rateSeconds) /\ Reported(lines, rateSeconds)
  BY <1>3 DEF Suppressed, Reported
<1> QED BY <1>1, <1>2, <1>3, <1>4, <1>5, <1>6 DEF DedupInv

\* What a call appends.
LEMMA CalledRecord ==
  ASSUME DedupInv, NEW l \in Lines, NEW out \in BOOLEAN, NEW repeats \in Nat
  PROVE  [line |-> l, at |-> dnow, written |-> out, repeats |-> repeats] \in LineRecords
BY DEF DedupInv, LineRecords

LEMMA UnfilteredKeeps ==
  ASSUME DedupInv, NEW l \in Lines, Dedup!LogUnfiltered(l)
  PROVE  DedupInv'
<1> DEFINE r == [line |-> l, at |-> dnow, written |-> TRUE, repeats |-> 0]
<1>1. rateSeconds = 0 /\ lines' = Append(lines, r) /\ UNCHANGED <<rateSeconds, dnow, dedup>>
  BY DEF Dedup!LogUnfiltered, Dedup!Called
<1>2. r \in LineRecords
  BY CalledRecord
<1>3. r.written /\ r.repeats = 0
  OBVIOUS
<1> HIDE DEF r
<1>4. lines \in Seq(LineRecords) /\ Suppressed(lines, rateSeconds) /\ Reported(lines, rateSeconds)
  BY DEF DedupInv
<1>5. \A c \in DOMAIN lines : lines[c].written
  BY <1>1 DEF DedupInv
<1>7. Suppressed(lines', rateSeconds') /\ Reported(lines', rateSeconds')
  <2>1. ASSUME NEW i \in DOMAIN lines
        PROVE  (\A c \in Same(lines, lines[i].line, i, Len(lines) + 1) : ~lines[c].written)
                 => r.repeats = Cardinality(Same(lines, lines[i].line, i, Len(lines) + 1))
    <3>1. Same(lines, lines[i].line, i, Len(lines) + 1) \subseteq DOMAIN lines
      <4>1. Len(lines) \in Nat /\ DOMAIN lines = 1..Len(lines)
        BY <1>4
      <4>2. (i + 1)..(Len(lines) + 1 - 1) \subseteq 1..Len(lines)
        BY <4>1
      <4> QED BY <4>1, <4>2 DEF Same
    <3> SUFFICES ASSUME \A c \in Same(lines, lines[i].line, i, Len(lines) + 1) : ~lines[c].written
                 PROVE  r.repeats = Cardinality(Same(lines, lines[i].line, i, Len(lines) + 1))
      OBVIOUS
    <3>2. Same(lines, lines[i].line, i, Len(lines) + 1) = {}
      BY <1>5, <3>1
    <3> QED BY <1>3, <3>2, FS_EmptySet
  <2>2. ~(rateSeconds > 0)
    BY <1>1
  <2>3. Reported(Append(lines, r), rateSeconds)
    BY <1>2, <1>4, <2>1, <2>2, ReportedStep
  <2>4. Suppressed(Append(lines, r), rateSeconds)
    BY <1>2, <1>3, <1>4, SuppressedStep
  <2> QED BY <1>1, <2>3, <2>4
<1>8. \A c \in DOMAIN lines' : lines'[c].written /\ lines'[c].repeats = 0
  BY <1>1, <1>2, <1>3, <1>4, LineAdded DEF DedupInv
<1>9. lines' \in Seq(LineRecords)
  BY <1>1, <1>2, <1>4, LineAdded
<1> QED BY <1>1, <1>7, <1>8, <1>9 DEF DedupInv

\* A line of a current slot is the one it remembers when it is a repeat.
LEMMA SuppressKeeps ==
  ASSUME DedupInv, NEW l \in Lines, Dedup!Suppress(l)
  PROVE  DedupInv'
<1> DEFINE r == [line |-> l, at |-> dnow, written |-> FALSE, repeats |-> 0]
           s == SlotOf[l]
           n == Len(lines)
<1>1. /\ rateSeconds # 0 /\ lines' = Append(lines, r) /\ UNCHANGED <<rateSeconds, dnow>>
      /\ dedup[s].hash = l /\ dnow - dedup[s].last < rateSeconds
      /\ dedup' = [dedup EXCEPT ![s].suppressed = @ + 1]
  BY DEF Dedup!Suppress, Dedup!Called, Dedup!IsRepeat
<1>2. r \in LineRecords /\ r.line = l /\ r.at = dnow /\ ~r.written
  BY CalledRecord
<1>3. s \in Slots /\ NoLine \notin Lines
  BY ServicesAssumption
<1> HIDE DEF r, s
<1>4. /\ lines \in Seq(LineRecords) /\ Suppressed(lines, rateSeconds) /\ Reported(lines, rateSeconds)
      /\ dedup \in [Slots -> SlotStates] /\ SlotIsCurrent(dedup[s], s, lines)
      /\ n \in Nat
  BY <1>1, <1>3 DEF DedupInv
<1>5. PICK i \in DOMAIN lines : Remembers(dedup[s], s, lines, i)
  BY <1>1, <1>3, <1>4 DEF SlotIsCurrent, Unused
<1>6. Chain(lines', i, n + 1) /\ lines[i].written /\ r.at - lines[i].at < rateSeconds
  <2>1. /\ DOMAIN lines = 1..n /\ lines'[n + 1] = r
        /\ \A c \in DOMAIN lines : lines'[c] = lines[c]
    BY <1>1, <1>2, <1>4, LineAdded
  <2>2. lines[i].line = l /\ SlotOf[l] = s
    BY <1>1, <1>5 DEF Remembers
  <2>3. ASSUME NEW c \in (i + 1)..(n + 1 - 1), SlotOf[lines'[c].line] = s PROVE lines'[c].line = l
    <3>1. c \in DOMAIN lines /\ c > i
      BY <1>4, <2>1
    <3> QED BY <1>1, <1>5, <2>1, <2>3, <3>1 DEF Remembers
  <2>4. lines[i].written /\ r.at - lines[i].at < rateSeconds
    BY <1>1, <1>2, <1>5 DEF Remembers
  <2>5. i < n + 1
    BY <1>4, <2>1
  <2> QED BY <1>2, <2>1, <2>2, <2>3, <2>4, <2>5 DEF Chain
<1>7. Suppressed(Append(lines, r), rateSeconds)
  BY <1>1, <1>2, <1>4, <1>6, SuppressedStep
<1>8. Reported(Append(lines, r), rateSeconds)
  BY <1>2, <1>4, ReportedStep
<1>9. \A t \in Slots : SlotIsCurrent(dedup'[t], t, lines')
  <2> SUFFICES ASSUME NEW t \in Slots PROVE SlotIsCurrent(dedup'[t], t, lines')
    OBVIOUS
  <2>1. CASE t = s
    <3>1. dedup'[s] = [dedup[s] EXCEPT !.suppressed = @ + 1] /\ dedup[s] \in SlotStates
      BY <1>1, <1>3, <1>4
    <3>2. Remembers(dedup'[s], s, lines', i)
      BY <1>1, <1>2, <1>3, <1>4, <1>5, <3>1, RepeatIsCounted
    <3>3. i \in DOMAIN lines'
      BY <1>1, <1>2, <1>4, LineAdded
    <3> QED BY <2>1, <3>2, <3>3 DEF SlotIsCurrent
  <2>2. CASE t # s
    <3>1. dedup'[t] = dedup[t] /\ dedup[t] \in SlotStates /\ SlotIsCurrent(dedup[t], t, lines)
      BY <1>1, <1>4, <2>2 DEF DedupInv
    <3>2. SlotOf[r.line] # t
      BY <1>2, <2>2 DEF s
    <3> QED BY <1>1, <1>2, <1>4, <3>1, <3>2, OtherSlotsStay
  <2> QED BY <2>1, <2>2
<1>10. dedup' \in [Slots -> SlotStates]
  <2>1. [dedup[s] EXCEPT !.suppressed = @ + 1] \in SlotStates
    BY SMTT(30), <1>3, <1>4 DEF SlotStates
  <2> QED BY <1>1, <1>3, <1>4, <2>1
<1>11. lines' \in Seq(LineRecords)
  BY <1>1, <1>2, <1>4, LineAdded
<1>12. Suppressed(lines', rateSeconds') /\ Reported(lines', rateSeconds')
  BY <1>1, <1>7, <1>8
<1> QED BY <1>1, <1>9, <1>10, <1>11, <1>12 DEF DedupInv

\* A line that is written again tells what its slot counted: the call that the slot remembers comes
\* last among those that wrote it.
LEMMA EmitKeeps ==
  ASSUME DedupInv, NEW l \in Lines, Dedup!Emit(l)
  PROVE  DedupInv'
<1> DEFINE s == SlotOf[l]
           told == IF dedup[s].hash = l THEN dedup[s].suppressed ELSE 0
           r == [line |-> l, at |-> dnow, written |-> TRUE, repeats |-> told]
           n == Len(lines)
           taken == [hash |-> l, last |-> dnow, suppressed |-> 0]
<1>1. /\ rateSeconds # 0 /\ lines' = Append(lines, r) /\ UNCHANGED <<rateSeconds, dnow>>
      /\ ~(dedup[s].hash = l /\ dnow - dedup[s].last < rateSeconds)
      /\ dedup' = [dedup EXCEPT ![s] = taken]
  BY DEF Dedup!Emit, Dedup!Called, Dedup!IsRepeat
<1>2. s \in Slots /\ NoLine \notin Lines
  BY ServicesAssumption
<1>3. /\ lines \in Seq(LineRecords) /\ Suppressed(lines, rateSeconds) /\ Reported(lines, rateSeconds)
      /\ dedup \in [Slots -> SlotStates] /\ SlotIsCurrent(dedup[s], s, lines)
      /\ n \in Nat /\ dnow \in Int /\ rateSeconds \in Nat
  BY <1>1, <1>2 DEF DedupInv
<1>4. dedup[s] \in SlotStates /\ dedup[s].suppressed \in Nat /\ dedup[s].last \in Int
  BY <1>2, <1>3 DEF SlotStates
<1>5. told \in Nat /\ (dedup[s].hash = l => told = dedup[s].suppressed)
  BY <1>4
<1> HIDE DEF told
<1>6. r \in LineRecords
  BY <1>5, CalledRecord
<1>7. r.line = l /\ r.at = dnow /\ r.written /\ r.repeats = told
  OBVIOUS
<1>8. taken \in SlotStates /\ taken = [hash |-> r.line, last |-> r.at, suppressed |-> 0]
  BY <1>3 DEF SlotStates
<1> HIDE DEF r, s, taken
<1>9. /\ DOMAIN lines = 1..n /\ lines'[n + 1] = r /\ n + 1 \in DOMAIN lines'
      /\ \A c \in DOMAIN lines : lines'[c] = lines[c] /\ lines[c] \in LineRecords
  BY <1>1, <1>3, <1>6, LineAdded
<1>10. ASSUME NEW i \in DOMAIN lines, Chain(lines', i, n + 1), lines[i].written
       PROVE  /\ r.at - lines[i].at >= rateSeconds
              /\ (\A c \in Same(lines, lines[i].line, i, n + 1) : ~lines[c].written)
                   => r.repeats = Cardinality(Same(lines, lines[i].line, i, n + 1))
  <2>1. lines[i].line = l /\ SlotOf[lines[i].line] = s
    BY <1>7, <1>9, <1>10 DEF Chain, s
  <2>2. PICK k \in DOMAIN lines : Remembers(dedup[s], s, lines, k)
    BY <1>3, <2>1 DEF SlotIsCurrent, Unused
  <2>3. i \in Int /\ k \in Int /\ i <= n /\ k <= n /\ ~(i > k)
    BY <1>3, <1>9, <1>10, <2>1, <2>2 DEF Remembers
  <2>4. lines[k].line = l /\ SlotOf[lines[k].line] = s
    <3>1. CASE i = k
      BY <2>1, <3>1
    <3>2. CASE i # k
      <4>1. k \in (i + 1)..(n + 1 - 1)
        BY <1>3, <2>3, <3>2
      <4>2. SlotOf[lines[k].line] = s
        BY <2>2 DEF Remembers
      <4> QED BY <1>9, <1>10, <2>1, <4>1, <4>2 DEF Chain
    <3> QED BY <3>1, <3>2
  <2>5. dedup[s].hash = l /\ lines[k].at = dedup[s].last /\ lines[k].written
    BY <2>2, <2>4 DEF Remembers
  <2>6. r.at - lines[k].at >= rateSeconds /\ r.repeats = dedup[s].suppressed
    BY <1>1, <1>3, <1>4, <1>5, <1>7, <2>5
  <2>7. CASE i = k
    <3>1. r.repeats = Cardinality(Same(lines, lines[i].line, i, n + 1))
      BY <2>1, <2>2, <2>5, <2>6, <2>7 DEF Remembers
    <3> QED BY <2>6, <2>7, <3>1
  <2>8. CASE i # k
    <3>1. Chain(lines, i, k)
      <4>1. \A c \in (i + 1)..(k - 1) : c \in (i + 1)..(n + 1 - 1) /\ c \in DOMAIN lines
        BY <1>3, <1>9, <2>3
      <4>2. \A c \in (i + 1)..(k - 1) :
              SlotOf[lines[c].line] = SlotOf[lines[i].line] => lines[c].line = lines[i].line
        BY <1>9, <1>10, <4>1 DEF Chain
      <4> QED BY <2>1, <2>3, <2>4, <2>8, <4>2 DEF Chain
    <3>2. rateSeconds > 0
      BY <1>1, <1>3
    <3>3. lines[k].at - lines[i].at >= rateSeconds
      BY <1>3, <1>10, <2>5, <3>1, <3>2 DEF Reported
    <3>4. lines[k].at \in Int /\ lines[i].at \in Int /\ r.at \in Int
      BY <1>6, <1>9 DEF LineRecords
    <3>5. r.at - lines[i].at >= rateSeconds
      BY <1>3, <2>6, <3>2, <3>3, <3>4
    <3>6. k \in Same(lines, lines[i].line, i, n + 1)
      <4>1. n + 1 \in Int /\ i < k /\ k < n + 1
        BY <1>3, <2>3, <2>8
      <4> QED BY <2>1, <2>3, <2>4, <4>1, SameMember
    <3> QED BY <2>5, <3>5, <3>6
  <2> QED BY <2>7, <2>8
<1>11. Reported(Append(lines, r), rateSeconds)
  BY <1>1, <1>3, <1>6, <1>10, ReportedStep
<1>12. Suppressed(Append(lines, r), rateSeconds)
  BY <1>3, <1>6, <1>7, SuppressedStep
<1>13. \A t \in Slots : SlotIsCurrent(dedup'[t], t, lines')
  <2> SUFFICES ASSUME NEW t \in Slots PROVE SlotIsCurrent(dedup'[t], t, lines')
    OBVIOUS
  <2>1. CASE t = s
    <3>1. dedup'[s] = taken /\ SlotOf[r.line] = s
      BY <1>1, <1>2, <1>3, <1>7 DEF s
    <3>2. Remembers(taken, s, lines', n + 1)
      BY <1>1, <1>3, <1>6, <1>7, <1>8, <3>1, WrittenIsRemembered
    <3> QED BY <1>9, <2>1, <3>1, <3>2 DEF SlotIsCurrent
  <2>2. CASE t # s
    <3>1. dedup'[t] = dedup[t] /\ dedup[t] \in SlotStates /\ SlotIsCurrent(dedup[t], t, lines)
      BY <1>1, <1>3, <2>2 DEF DedupInv
    <3>2. SlotOf[r.line] # t
      BY <1>7, <2>2 DEF s
    <3> QED BY <1>1, <1>3, <1>6, <3>1, <3>2, OtherSlotsStay
  <2> QED BY <2>1, <2>2
<1>14. dedup' \in [Slots -> SlotStates]
  BY <1>1, <1>2, <1>3, <1>8
<1>15. lines' \in Seq(LineRecords)
  BY <1>1, <1>3, <1>6, LineAdded
<1> QED BY <1>1, <1>3, <1>11, <1>12, <1>13, <1>14, <1>15 DEF DedupInv

LEMMA DedupNext == DedupInv /\ [Dedup!Next]_(Dedup!vars) => DedupInv'
<1> SUFFICES ASSUME DedupInv, [Dedup!Next]_(Dedup!vars) PROVE DedupInv'
  OBVIOUS
<1>1. CASE Dedup!Tick
  <2>1. UNCHANGED <<rateSeconds, dedup, lines>> /\ dnow' \in Int
    BY <1>1 DEF Dedup!Tick
  <2> QED BY <2>1 DEF DedupInv
<1>2. ASSUME NEW l \in Lines, Dedup!Log(l) PROVE DedupInv'
  BY <1>2, UnfilteredKeeps, SuppressKeeps, EmitKeeps DEF Dedup!Log
<1>3. CASE UNCHANGED Dedup!vars
  BY <1>3 DEF Dedup!vars, DedupInv
<1> QED BY <1>1, <1>2, <1>3 DEF Dedup!Next

LEMMA DedupAlways == ServicesSpec => []DedupInv
<1>1. Dedup!Spec => []DedupInv
  BY DedupInit, DedupNext, PTL DEF Dedup!Spec
<1> QED BY <1>1, ServicesAreDedup, PTL

\* No line is lost altogether: one that is left out was written less than the rate before.
THEOREM SuppressedLinesWereWritten == ServicesSpec => []SuppressedWasWritten
<1>1. DedupInv => SuppressedWasWritten
  BY DEF DedupInv, Suppressed, Chain, SuppressedWasWritten, Dedup!SuppressedWasWritten,
         Dedup!Undisturbed
<1> QED BY <1>1, DedupAlways, PTL

\* A line is written again only after the rate, unless another took its slot, and tells how often it
\* was left out.
THEOREM RepeatsAreCounted == ServicesSpec => []RepeatsAreReported
<1>1. DedupInv => RepeatsAreReported
  <2> SUFFICES ASSUME DedupInv, NEW i \in DOMAIN lines, NEW j \in DOMAIN lines,
                      Dedup!Undisturbed(i, j), lines[i].written, lines[j].written
               PROVE  /\ rateSeconds > 0 => lines[j].at - lines[i].at >= rateSeconds
                      /\ (\A c \in Dedup!Between(i, j) : ~lines[c].written)
                           => lines[j].repeats = Dedup!Cardinality(Dedup!Between(i, j))
    BY DEF RepeatsAreReported, Dedup!RepeatsAreReported
  <2>1. Chain(lines, i, j)
    BY DEF Chain, Dedup!Undisturbed
  <2>2. Dedup!Between(i, j) = Same(lines, lines[i].line, i, j)
    BY DEF Same, Dedup!Between
  <2>3. Dedup!Cardinality(Dedup!Between(i, j)) = Cardinality(Same(lines, lines[i].line, i, j))
    BY <2>2, SameCardinality
  <2> QED BY <2>1, <2>2, <2>3 DEF DedupInv, Reported
<1> QED BY <1>1, DedupAlways, PTL
=============================================================================
