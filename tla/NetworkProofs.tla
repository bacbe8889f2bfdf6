---------------------------- MODULE NetworkProofs ----------------------------
(***************************************************************************)
(* What the connect tracks of the eBPF monitor and the SYN windows of the  *)
(* network monitor do for all destinations, sizes, limits and clocks, in   *)
(* every behaviour of Network.                                             *)
(***************************************************************************)
EXTENDS Network, NetTrackProofs

\* A behaviour of the three tables is one of each of them.
LEMMA NetworkIsTracks == NetworkSpec => Spec
<1>1. NetworkInit => Init
  BY DEF NetworkInit
<1>2. [NetworkNext]_<<part, vars, cvars, svars>> => [Next]_vars
  BY DEF NetworkNext
<1> QED BY <1>1, <1>2, PTL DEF NetworkSpec, Spec

LEMMA NetworkIsConnects == NetworkSpec => Connects!Spec
<1>1. NetworkInit => Connects!Init
  BY DEF NetworkInit
<1>2. [NetworkNext]_<<part, vars, cvars, svars>> => [Connects!Next]_(Connects!vars)
  <2>1. UNCHANGED cvars => UNCHANGED Connects!vars
    BY DEF cvars, Connects!vars
  <2> QED BY <2>1 DEF NetworkNext
<1> QED BY <1>1, <1>2, PTL DEF NetworkSpec, Connects!Spec

LEMMA NetworkIsSyns == NetworkSpec => Syns!Spec
<1>1. NetworkInit => Syns!Init
  BY DEF NetworkInit
<1>2. [NetworkNext]_<<part, vars, cvars, svars>> => [Syns!Next]_(Syns!vars)
  <2>1. UNCHANGED svars => UNCHANGED Syns!vars
    BY DEF svars, Syns!vars
  <2> QED BY <2>1 DEF NetworkNext
<1> QED BY <1>1, <1>2, PTL DEF NetworkSpec, Syns!Spec

-----------------------------------------------------------------------------
(***************************************************************************)
(* The table of connect tracks                                             *)
(***************************************************************************)
ConnectPlaces  == 0..(ConnectIntervals - 1)
ConnectRecords == [last : Nat, intervals : [ConnectPlaces -> Nat], count : 0..ConnectIntervals,
                   seen : Nat, alerted : BOOLEAN]

\* Every slot is well formed, and a round of the module has taken no longer than Round so far.
ConnectTypeInv ==
  /\ ctime \in 0..ConnectTime /\ cpollEnd \in Nat /\ cpollEnd <= ctime /\ ctime <= cpollEnd + Round
  /\ cring \in Seq(Keys)
  /\ ctracked \subseteq Keys
  /\ ctrack \in [Keys -> ConnectRecords]
  /\ \A k \in Keys \ ctracked : ctrack[k] = Connects!Zeroed
  /\ cconnectAt \in [Keys -> Seq(Nat)] /\ cseenAt \in [Keys -> Seq(Nat)]

ConnectOld(k) == IF k \in ctracked THEN ctrack[k] ELSE Connects!NewTrack
ConnectNew(k) == [Connects!WithInterval(ConnectOld(k)) EXCEPT !.seen = @ + 1]

LEMMA ConnectFresh ==
  ASSUME ctime \in Nat
  PROVE  /\ Connects!Zeroed \in ConnectRecords /\ Connects!NewTrack \in ConnectRecords
         /\ Connects!NewTrack.last = ctime /\ Connects!NewTrack.seen = 0
         /\ Connects!NewTrack.alerted = FALSE /\ Connects!Zeroed.alerted = FALSE
         /\ Connects!Zeroed.seen = 0 /\ Connects!Zeroed.count = 0 /\ Connects!NewTrack.count = 0
         /\ Connects!Gaps(Connects!Zeroed) = <<>> /\ Connects!Gaps(Connects!NewTrack) = <<>>
<1>1. [i \in ConnectPlaces |-> 0] \in [ConnectPlaces -> Nat] /\ 0 \in 0..ConnectIntervals
  BY NetworkAssumption
<1>2. Connects!Zeroed = [last |-> 0, intervals |-> [i \in ConnectPlaces |-> 0], count |-> 0,
                         seen |-> 0, alerted |-> FALSE]
  BY DEF Connects!Zeroed, Connects!Places, ConnectPlaces
<1>3. Connects!NewTrack = [last |-> ctime, intervals |-> [i \in ConnectPlaces |-> 0], count |-> 0,
                           seen |-> 0, alerted |-> FALSE]
  <2> DEFINE z == [i \in ConnectPlaces |-> 0]
  <2>1. Connects!Zeroed = [last |-> 0, intervals |-> z, count |-> 0, seen |-> 0, alerted |-> FALSE]
    BY <1>2
  <2> HIDE DEF z
  <2>2. Connects!NewTrack = [last |-> ctime, intervals |-> z, count |-> 0, seen |-> 0, alerted |-> FALSE]
    <3>1. Connects!NewTrack = [Connects!Zeroed EXCEPT !.last = ctime]
      BY DEF Connects!NewTrack
    <3>2. [Connects!Zeroed EXCEPT !.last = ctime]
            = [[last |-> 0, intervals |-> z, count |-> 0, seen |-> 0, alerted |-> FALSE] EXCEPT !.last = ctime]
      BY <2>1
    <3> QED BY <3>1, <3>2
  <2> QED BY <2>2 DEF z
<1>4. \A t : t.count = 0 => Connects!Gaps(t) = <<>>
  BY DEF Connects!Gaps
<1> QED BY <1>1, <1>2, <1>3, <1>4 DEF ConnectRecords

\* A slot with an interval recorded holds the last gaps, although the last place of the array is
\* written too.
LEMMA ConnectInterval ==
  ASSUME NEW t \in ConnectRecords, ctime \in Nat
  PROVE  LET w == Connects!WithInterval(t) IN
         /\ w \in ConnectRecords /\ w.alerted = t.alerted /\ w.seen = t.seen
         /\ w.count <= t.count + 1
         /\ ~(ctime > t.last) => w = t
         /\ ctime > t.last =>
              /\ w.last = ctime
              /\ Connects!Gaps(w) = LastN(Append(Connects!Gaps(t), ctime - t.last), ConnectIntervals)
         /\ Connects!Gaps(t) \in Seq(Nat) /\ Len(Connects!Gaps(t)) = t.count
<1> DEFINE m == ConnectIntervals
           c == t.count
           a == t.intervals
           w == Connects!WithInterval(t)
<1>0. m \in Nat \ {0}
  BY NetworkAssumption
<1>1. /\ t.last \in Nat /\ a \in [0..(m - 1) -> Nat] /\ c \in 0..m /\ t.seen \in Nat
      /\ t.alerted \in BOOLEAN
  BY DEF ConnectRecords, ConnectPlaces
<1>2. Connects!Gaps(t) = ArrayGaps(a, c) /\ Connects!Gaps(t) \in Seq(Nat) /\ Len(Connects!Gaps(t)) = c
  <2>1. \A i \in 1..c : a[i - 1] \in Nat
    BY <1>0, <1>1
  <2> QED BY SMTT(30), <1>1, <2>1 DEF Connects!Gaps, ArrayGaps
<1>3. CASE ~(ctime > t.last)
  <2>1. w = t
    BY <1>3 DEF Connects!WithInterval
  <2> QED BY <1>1, <1>2, <1>3, <2>1
<1>4. CASE ctime > t.last
  <2> DEFINE x == ctime - t.last
             b == IF c < m THEN [[a EXCEPT ![c] = x] EXCEPT ![m - 1] = x]
                  ELSE [i \in ConnectPlaces |-> IF i < m - 1 THEN a[i + 1] ELSE x]
             d == IF c < m THEN c + 1 ELSE m
  <2>1. x \in Nat
    BY <1>1, <1>4
  <2>2. w = [last |-> ctime, intervals |-> b, count |-> d, seen |-> t.seen, alerted |-> t.alerted]
    <3>1. w = [Connects!Recorded(t, x) EXCEPT !.last = ctime]
      BY <1>4 DEF Connects!WithInterval
    <3> HIDE DEF x, w
    <3>2. Connects!Recorded(t, x) = [last |-> t.last, intervals |-> b, count |-> d, seen |-> t.seen,
                                     alerted |-> t.alerted]
      <4>1. CASE c < m
        <5>1. Connects!Recorded(t, x) =
                [t EXCEPT !.count = @ + 1, !.intervals = [[@ EXCEPT ![t.count] = x] EXCEPT ![m - 1] = x]]
          BY <4>1 DEF Connects!Recorded
        <5> QED BY <4>1, <5>1 DEF ConnectRecords
      <4>2. CASE ~(c < m)
        <5>1. c = m
          BY <1>0, <1>1, <4>2
        <5>2. Connects!Recorded(t, x) = [t EXCEPT !.intervals = b]
          BY <4>2 DEF Connects!Recorded, Connects!Places, ConnectPlaces
        <5> QED BY <4>2, <5>1, <5>2 DEF ConnectRecords
      <4> QED BY <4>1, <4>2
    <3> HIDE DEF b, d
    <3> QED BY <3>1, <3>2
  <2>3. /\ b \in [0..(m - 1) -> Nat]
        /\ c < m => b[c] = x /\ \A i \in 0..(c - 1) : b[i] = a[i]
        /\ c = m => \A i \in 0..(m - 1) : b[i] = IF i < m - 1 THEN a[i + 1] ELSE x
    <3>1. CASE c < m
      <4>1. b = [[a EXCEPT ![c] = x] EXCEPT ![m - 1] = x]
        BY <3>1
      <4>2. c \in 0..(m - 1) /\ m - 1 \in 0..(m - 1) /\ \A i \in 0..(c - 1) : i # c /\ i # m - 1 /\ i \in 0..(m - 1)
        BY <1>0, <1>1, <3>1
      <4>3. [a EXCEPT ![c] = x] \in [0..(m - 1) -> Nat]
        <5> HIDE DEF x
        <5> QED BY <1>1, <2>1
      <4> HIDE DEF b, x, c, m, a
      <4> QED BY <1>0, <1>1, <2>1, <3>1, <4>1, <4>2, <4>3
    <3>2. CASE c = m
      <4>1. b = [i \in 0..(m - 1) |-> IF i < m - 1 THEN a[i + 1] ELSE x]
        BY <1>0, <3>2 DEF ConnectPlaces
      <4>2. \A i \in 0..(m - 1) : (IF i < m - 1 THEN a[i + 1] ELSE x) \in Nat
        <5> HIDE DEF x
        <5> QED BY <1>0, <1>1, <2>1
      <4> HIDE DEF x
      <4> QED BY <1>0, <3>2, <4>1, <4>2
    <3>3. c < m \/ c = m
      BY <1>0, <1>1
    <3>4. ~(c < m /\ c = m)
      BY <1>0, <1>1
    <3> HIDE DEF b, x, c, m
    <3> QED BY <3>1, <3>2, <3>3, <3>4
  <2>4. ArrayGaps(b, d) = LastN(Append(ArrayGaps(a, c), x), m)
    <3> HIDE DEF b, x
    <3> QED BY ZenonT(60), <1>0, <1>1, <2>1, <2>3, ArrayKeepsLast
  <2>5. Connects!Gaps(w) = ArrayGaps(b, d)
    <3> HIDE DEF b, d, w
    <3> QED BY <2>2 DEF Connects!Gaps, ArrayGaps
  <2>6. d \in 0..m /\ d <= c + 1
    BY <1>0, <1>1
  <2>7. w \in ConnectRecords
    <3> HIDE DEF b, d, w
    <3> QED BY <1>1, <2>2, <2>3, <2>6 DEF ConnectRecords, ConnectPlaces
  <2> HIDE DEF b, d, w
  <2> QED BY <1>1, <1>2, <1>4, <2>2, <2>4, <2>5, <2>6, <2>7 DEF w
<1> QED BY <1>3, <1>4

LEMMA ConnectInit == Connects!Init => ConnectTypeInv
<1> SUFFICES ASSUME Connects!Init PROVE ConnectTypeInv
  OBVIOUS
<1>1. ctime = 0 /\ cpollEnd = 0 /\ Connects!Zeroed \in ConnectRecords
  BY ConnectFresh DEF Connects!Init
<1> QED BY <1>1, NetworkAssumption DEF Connects!Init, ConnectTypeInv

\* The next record is dropped for want of a slot, or changes the slot of its destination only.
LEMMA HandleEffect ==
  ASSUME ConnectTypeInv, Connects!Handle
  PROVE  LET k   == Head(cring)
             old == ConnectOld(k)
             w   == Connects!WithInterval(old)
             new == ConnectNew(k)
         IN  /\ UNCHANGED <<ctime, cpolling, cpollEnd, cconnectAt>>
             /\ cring # <<>> /\ k \in Keys /\ cring' = Tail(cring)
             /\ \/ UNCHANGED <<ctracked, ctrack, cseenAt, calerts>>
                \/ /\ ctracked' = ctracked \union {k}
                   /\ old \in ConnectRecords /\ w \in ConnectRecords
                   /\ new \in ConnectRecords /\ new.alerted = old.alerted /\ new.seen = old.seen + 1
                   /\ new.count = w.count /\ Connects!Gaps(new) = Connects!Gaps(w)
                   /\ ctrack' \in [Keys -> ConnectRecords]
                   /\ \A l \in Keys \ {k} : ctrack'[l] = ctrack[l]
                   /\ ctrack'[k].last = w.last /\ ctrack'[k].seen = new.seen
                   /\ ctrack'[k].count = new.count
                   /\ ctrack'[k].alerted <=> old.alerted \/ Connects!Alerts(k, new)
                   /\ Connects!Gaps(ctrack'[k]) = Connects!Gaps(w)
                   /\ calerts' = IF Connects!Alerts(k, new)
                                   THEN Append(calerts, [key |-> k, gaps |-> Connects!Gaps(new)])
                                   ELSE calerts
                   /\ cseenAt' = IF k \notin ctracked \/ ctime > old.last
                                   THEN [cseenAt EXCEPT ![k] = Append(cseenAt[k], ctime)] ELSE cseenAt
<1> DEFINE k   == Head(cring)
           old == ConnectOld(k)
           w   == Connects!WithInterval(old)
           new == ConnectNew(k)
           b   == old.alerted \/ Connects!Alerts(k, new)
<1>1. /\ UNCHANGED <<ctime, cpolling, cpollEnd, cconnectAt>>
      /\ cring # <<>> /\ k \in Keys /\ cring' = Tail(cring) /\ ctime \in Nat
  BY NetworkAssumption DEF Connects!Handle, ConnectTypeInv
<1>2. CASE UNCHANGED <<ctracked, ctrack, cseenAt, calerts>>
  BY <1>1, <1>2
<1>3. CASE ~UNCHANGED <<ctracked, ctrack, cseenAt, calerts>>
  <2>1. /\ ctracked' = ctracked \union {k}
        /\ ctrack' = [ctrack EXCEPT ![k] = [new EXCEPT !.alerted = @ \/ Connects!Alerts(k, new)]]
        /\ calerts' = IF Connects!Alerts(k, new)
                        THEN Append(calerts, [key |-> k, gaps |-> Connects!Gaps(new)])
                        ELSE calerts
        /\ cseenAt' = IF k \notin ctracked \/ ctime > old.last
                        THEN [cseenAt EXCEPT ![k] = Append(cseenAt[k], ctime)] ELSE cseenAt
    BY <1>3 DEF Connects!Handle, ConnectOld, ConnectNew
  <2>2. old \in ConnectRecords
    BY <1>1, ConnectFresh DEF ConnectTypeInv, ConnectOld
  <2>3. w \in ConnectRecords /\ w.alerted = old.alerted /\ w.seen = old.seen
    BY <1>1, <2>2, ConnectInterval
  <2>4. new = [last |-> w.last, intervals |-> w.intervals, count |-> w.count, seen |-> w.seen + 1,
               alerted |-> w.alerted]
    <3> HIDE DEF w
    <3> QED BY <2>3 DEF ConnectRecords, ConnectNew, w
  <2> HIDE DEF w
  <2>5. /\ w.last \in Nat /\ w.intervals \in [ConnectPlaces -> Nat] /\ w.count \in 0..ConnectIntervals
        /\ w.seen \in Nat /\ w.alerted \in BOOLEAN
    BY <2>3 DEF ConnectRecords
  <2>6. new \in ConnectRecords
    <3> HIDE DEF new
    <3> QED BY <2>4, <2>5 DEF ConnectRecords
  <2>7. [new EXCEPT !.alerted = @ \/ Connects!Alerts(k, new)] =
          [last |-> w.last, intervals |-> w.intervals, count |-> w.count, seen |-> w.seen + 1,
           alerted |-> b]
    <3>1. new.alerted = old.alerted
      BY <2>3, <2>4
    <3> HIDE DEF new, old
    <3> QED BY <2>4, <2>6, <3>1 DEF ConnectRecords
  <2>0. b \in BOOLEAN
    BY DEF Connects!Alerts
  <2> HIDE DEF new, b, k, old
  <2>8. /\ ctrack'[k] = [last |-> w.last, intervals |-> w.intervals, count |-> w.count,
                         seen |-> w.seen + 1, alerted |-> b]
        /\ \A l \in Keys \ {k} : ctrack'[l] = ctrack[l]
    BY <1>1, <2>1, <2>7 DEF ConnectTypeInv
  <2>9. ctrack' \in [Keys -> ConnectRecords]
    <3>1. [last |-> w.last, intervals |-> w.intervals, count |-> w.count,
           seen |-> w.seen + 1, alerted |-> b] \in ConnectRecords
      BY <2>0, <2>5 DEF ConnectRecords
    <3> QED BY <1>1, <2>1, <2>7, <3>1 DEF ConnectTypeInv
  <2>10. /\ new.count = w.count /\ new.intervals = w.intervals /\ new.alerted = old.alerted
         /\ new.seen = old.seen + 1
         /\ ctrack'[k].count = w.count /\ ctrack'[k].intervals = w.intervals
         /\ ctrack'[k].last = w.last /\ ctrack'[k].seen = new.seen
         /\ ctrack'[k].alerted = b
    BY <2>3, <2>4, <2>8
  <2>11. Connects!Gaps(new) = Connects!Gaps(w) /\ Connects!Gaps(ctrack'[k]) = Connects!Gaps(w)
    BY <2>10 DEF Connects!Gaps
  <2>12. ctrack'[k].alerted <=> old.alerted \/ Connects!Alerts(k, new)
    BY <2>10 DEF b
  <2> QED BY <1>1, <2>1, <2>2, <2>3, <2>6, <2>8, <2>9, <2>10, <2>11, <2>12 DEF w, new, b, k, old
<1> QED BY <1>2, <1>3

LEMMA ConnectTypeNext ==
  ConnectTypeInv /\ [Connects!Next]_(Connects!vars) => ConnectTypeInv'
<1> SUFFICES ASSUME ConnectTypeInv, [Connects!Next]_(Connects!vars) PROVE ConnectTypeInv'
  OBVIOUS
<1>1. CASE Connects!Handle
  <2> DEFINE k == Head(cring)
  <2>1. cring' \in Seq(Keys) /\ k \in Keys
    <3>1. cring \in Seq(Keys) /\ cring # <<>> /\ cring' = Tail(cring)
      BY <1>1, HandleEffect DEF ConnectTypeInv
    <3> QED BY <3>1, HeadTailProperties
  <2>2. UNCHANGED <<ctime, cpollEnd, cconnectAt>>
    BY <1>1, HandleEffect
  <2>3. CASE UNCHANGED <<ctracked, ctrack, cseenAt>>
    BY <2>1, <2>2, <2>3 DEF ConnectTypeInv, Connects!Zeroed, Connects!Places
  <2>4. CASE ~UNCHANGED <<ctracked, ctrack, cseenAt>>
    <3> DEFINE appended == [cseenAt EXCEPT ![k] = Append(cseenAt[k], ctime)]
    <3>1. /\ ctracked' = ctracked \union {k} /\ ctrack' \in [Keys -> ConnectRecords]
          /\ \A l \in Keys \ {k} : ctrack'[l] = ctrack[l]
          /\ cseenAt' = appended \/ cseenAt' = cseenAt
      BY <1>1, <2>4, HandleEffect
    <3>2. appended \in [Keys -> Seq(Nat)]
      <4>1. ctime \in Nat /\ cseenAt \in [Keys -> Seq(Nat)]
        BY NetworkAssumption DEF ConnectTypeInv
      <4> HIDE DEF k
      <4>2. Append(cseenAt[k], ctime) \in Seq(Nat)
        BY <2>1, <4>1, AppendProperties
      <4> QED BY <2>1, <4>1, <4>2
    <3> HIDE DEF k, appended
    <3>3. ctracked' \subseteq Keys /\ cseenAt' \in [Keys -> Seq(Nat)]
      BY <2>1, <3>1, <3>2 DEF ConnectTypeInv
    <3>4. \A l \in Keys \ ctracked' : ctrack'[l] = Connects!Zeroed
      BY <3>1 DEF ConnectTypeInv
    <3> QED BY <2>1, <2>2, <3>1, <3>3, <3>4 DEF ConnectTypeInv, Connects!Zeroed, Connects!Places
  <2> QED BY <2>3, <2>4
<1>2. ASSUME NEW k \in Keys, Connects!Connect(k) PROVE ConnectTypeInv'
  <2>1. ctime \in Nat
    BY NetworkAssumption DEF ConnectTypeInv
  <2>2. cconnectAt' \in [Keys -> Seq(Nat)] /\ cring' \in Seq(Keys)
    <3>1. Append(cconnectAt[k], ctime) \in Seq(Nat)
      BY <2>1, AppendProperties DEF ConnectTypeInv
    <3> QED BY <1>2, <3>1, AppendProperties DEF Connects!Connect, ConnectTypeInv
  <2> QED BY <1>2, <2>2 DEF Connects!Connect, ConnectTypeInv, Connects!Zeroed, Connects!Places
<1>3. CASE Connects!Poll
  BY <1>3 DEF Connects!Poll, ConnectTypeInv, Connects!Zeroed, Connects!Places
<1>4. CASE Connects!EndPoll
  BY <1>4, NetworkAssumption DEF Connects!EndPoll, ConnectTypeInv, Connects!Zeroed, Connects!Places
<1>5. CASE Connects!Tick
  <2>1. ctime' \in 0..ConnectTime /\ ctime' <= cpollEnd + Round /\ cpollEnd <= ctime'
    BY <1>5, NetworkAssumption DEF Connects!Tick, ConnectTypeInv
  <2> QED BY <1>5, <2>1 DEF Connects!Tick, ConnectTypeInv, Connects!Zeroed, Connects!Places
<1>6. CASE UNCHANGED Connects!vars
  BY <1>6 DEF Connects!vars, ConnectTypeInv, Connects!Zeroed, Connects!Places
<1> QED BY <1>1, <1>2, <1>3, <1>4, <1>5, <1>6 DEF Connects!Next

LEMMA ConnectTypeAlways == Connects!Spec => []ConnectTypeInv
BY ConnectInit, ConnectTypeNext, PTL DEF Connects!Spec

-----------------------------------------------------------------------------
(***************************************************************************)
(* Both tables of tracks implement Sightings                               *)
(***************************************************************************)
LEMMA ConnectsImplementSightings == Connects!Spec => Connects!ImplementsSightings
<1> DEFINE lasts == [k \in Keys |-> ctrack[k].last]
           kept  == [k \in Keys |-> Connects!Gaps(ctrack[k])]
<1>1. Connects!Init => Connects!Kept!Empty
  <2> SUFFICES ASSUME Connects!Init PROVE Connects!Kept!Empty
    OBVIOUS
  <2>1. ctime \in Nat
    BY DEF Connects!Init
  <2>2. kept = [k \in Keys |-> <<>>] /\ ctracked = {}
    BY <2>1, ConnectFresh DEF Connects!Init
  <2> QED BY <2>2 DEF Connects!Kept!Empty
<1>2. ConnectTypeInv /\ [Connects!Next]_(Connects!vars)
        => [Connects!Kept!See]_(Connects!Kept!sightingVars)
  <2> SUFFICES ASSUME ConnectTypeInv, [Connects!Next]_(Connects!vars)
               PROVE  Connects!Kept!See \/ UNCHANGED Connects!Kept!sightingVars
    OBVIOUS
  <2>1. CASE UNCHANGED <<ctracked, ctrack>>
    BY <2>1 DEF Connects!Kept!sightingVars
  <2>2. CASE ~UNCHANGED <<ctracked, ctrack>>
    <3>1. Connects!Handle
      BY <2>2 DEF Connects!Next, Connects!vars, Connects!Poll, Connects!EndPoll, Connects!Tick,
                  Connects!Connect
    <3> DEFINE l == Head(cring)
               old == ConnectOld(l)
               w   == Connects!WithInterval(old)
    <3>2. /\ l \in Keys /\ ctracked' = ctracked \union {l} /\ old \in ConnectRecords
          /\ \A k \in Keys \ {l} : ctrack'[k] = ctrack[k]
          /\ ctrack'[l].last = w.last /\ Connects!Gaps(ctrack'[l]) = Connects!Gaps(w)
      BY <2>2, <3>1, HandleEffect
    <3>3. ctime \in 0..ConnectTime /\ ctime \in Nat
      BY NetworkAssumption DEF ConnectTypeInv
    <3> HIDE DEF l, old, w
    <3>4. lasts' = [lasts EXCEPT ![l] = w.last] /\ kept' = [kept EXCEPT ![l] = Connects!Gaps(w)]
      BY <3>2
    <3>5. CASE l \notin ctracked
      <4>1. old = Connects!NewTrack /\ old.last = ctime /\ Connects!Gaps(old) = <<>>
        BY <3>3, <3>5, ConnectFresh DEF old, ConnectOld
      <4>2. w = old
        BY <3>2, <3>3, <4>1, ConnectInterval DEF w
      <4>3. kept[l] = <<>>
        BY <3>2, <3>3, <3>5, ConnectFresh DEF ConnectTypeInv
      <4>4. kept' = kept /\ lasts' = [lasts EXCEPT ![l] = ctime]
        BY <3>4, <4>1, <4>2, <4>3
      <4> QED BY <3>2, <3>3, <3>5, <4>4 DEF Connects!Kept!See, Connects!Kept!Follow
    <3>6. CASE l \in ctracked
      <4>1. old = ctrack[l] /\ ctracked' = ctracked
        BY <3>2, <3>6 DEF old, ConnectOld
      <4>2. CASE ctime > ctrack[l].last
        <5>1. /\ w.last = ctime
              /\ Connects!Gaps(w)
                   = LastN(Append(Connects!Gaps(ctrack[l]), ctime - ctrack[l].last), ConnectIntervals)
          BY <3>2, <3>3, <4>1, <4>2, ConnectInterval DEF w
        <5>2. LastN(Append(Connects!Gaps(ctrack[l]), ctime - ctrack[l].last), ConnectIntervals)
                = Connects!Kept!LastOnes(Append(kept[l], ctime - lasts[l]))
          BY <3>2 DEF LastN, Connects!Kept!LastOnes
        <5>3. /\ kept' = [kept EXCEPT ![l] = Connects!Kept!LastOnes(Append(kept[l], ctime - lasts[l]))]
              /\ lasts' = [lasts EXCEPT ![l] = ctime] /\ ctime > lasts[l]
          BY <3>2, <3>4, <4>2, <5>1, <5>2
        <5> QED BY <3>2, <3>3, <3>6, <4>1, <5>3 DEF Connects!Kept!See, Connects!Kept!SeeLater
      <4>3. CASE ~(ctime > ctrack[l].last)
        <5>1. w = ctrack[l]
          BY <3>2, <3>3, <4>1, <4>3, ConnectInterval DEF w
        <5>2. kept' = kept /\ lasts' = lasts
          BY <3>4, <5>1
        <5> QED BY <4>1, <5>2 DEF Connects!Kept!sightingVars
      <4> QED BY <4>2, <4>3
    <3> QED BY <3>5, <3>6
  <2> QED BY <2>1, <2>2
<1> QED BY <1>1, <1>2, ConnectTypeAlways, PTL
    DEF Connects!Spec, Connects!ImplementsSightings, Connects!Kept!SightingsSpec

\* Whatever array they keep, and although that of the eBPF monitor is also written in its last
\* place, both tables hold the last gaps between the sightings of every destination.
THEOREM BothKeepSightings == NetworkSpec => SightingsImplemented
BY NetworkIsTracks, NetworkIsConnects, TracksImplementSightings, ConnectsImplementSightings, PTL
   DEF SightingsImplemented

-----------------------------------------------------------------------------
(***************************************************************************)
(* Sightings are fresh                                                     *)
(***************************************************************************)
Connected(k, from, to) == \E j \in DOMAIN cconnectAt[k] : cconnectAt[k][j] \in from..to

\* A poll empties the ring buffer, so whatever is in it has been put there since the last poll.
FreshInv ==
  /\ \A i \in DOMAIN cring : Connected(cring[i], cpollEnd, ctime)
  /\ \A k \in Keys : \A i \in DOMAIN cseenAt[k] :
       Connected(k, cseenAt[k][i] - Round, cseenAt[k][i])

LEMMA FreshInit == Connects!Init => FreshInv
BY DEF Connects!Init, FreshInv

LEMMA ConnectedMore ==
  ASSUME NEW k, NEW from, NEW to, NEW s, NEW t, Connected(k, from, to),
         from..to \subseteq s..t
  PROVE  Connected(k, s, t)
BY DEF Connected

LEMMA FreshNext ==
  ConnectTypeInv /\ FreshInv /\ [Connects!Next]_(Connects!vars) => FreshInv'
<1> SUFFICES ASSUME ConnectTypeInv, FreshInv, [Connects!Next]_(Connects!vars) PROVE FreshInv'
  OBVIOUS
<1>0. ctime \in Nat /\ cpollEnd \in Nat /\ cpollEnd <= ctime /\ ctime <= cpollEnd + Round
      /\ Round \in Nat
  BY NetworkAssumption DEF ConnectTypeInv
<1>1. CASE Connects!Handle
  <2> DEFINE k == Head(cring)
  <2>1. /\ UNCHANGED <<ctime, cpollEnd, cconnectAt>> /\ cring # <<>> /\ cring \in Seq(Keys)
        /\ cring' = Tail(cring) /\ k \in Keys
    BY <1>1, HandleEffect DEF ConnectTypeInv
  <2>2. ASSUME NEW i \in DOMAIN cring'
        PROVE  Connected(cring'[i], cpollEnd, ctime)
    <3>1. i + 1 \in DOMAIN cring /\ cring'[i] = cring[i + 1]
      BY <2>1, HeadTailProperties
    <3>2. Connected(cring[i + 1], cpollEnd, ctime)
      BY <3>1 DEF FreshInv
    <3> QED BY <3>1, <3>2
  <2>3. Connected(k, ctime - Round, ctime)
    <3>1. 1 \in DOMAIN cring /\ k = cring[1]
      BY <2>1
    <3>2. Connected(k, cpollEnd, ctime)
      BY <3>1 DEF FreshInv
    <3>3. cpollEnd..ctime \subseteq (ctime - Round)..ctime
      BY <1>0
    <3> QED BY <3>2, <3>3, ConnectedMore
  <2>4. ASSUME NEW l \in Keys, NEW i \in DOMAIN cseenAt'[l]
        PROVE  Connected(l, cseenAt'[l][i] - Round, cseenAt'[l][i])
    <3>1. CASE cseenAt'[l] = cseenAt[l]
      BY <3>1 DEF FreshInv
    <3>2. CASE cseenAt'[l] # cseenAt[l]
      <4>1. cseenAt' = [cseenAt EXCEPT ![k] = Append(cseenAt[k], ctime)]
        BY <1>1, <3>2, HandleEffect
      <4> HIDE DEF k
      <4>2. l = k /\ cseenAt'[k] = Append(cseenAt[k], ctime) /\ cseenAt[k] \in Seq(Nat)
        BY <2>1, <3>2, <4>1 DEF ConnectTypeInv
      <4>3. CASE i \in DOMAIN cseenAt[k]
        <5>1. cseenAt'[l][i] = cseenAt[k][i]
          BY <1>0, <4>2, <4>3, AppendProperties
        <5> QED BY <2>1, <4>2, <4>3, <5>1 DEF FreshInv
      <4>4. CASE i \notin DOMAIN cseenAt[k]
        <5>1. DOMAIN cseenAt[k] = 1..Len(cseenAt[k]) /\ DOMAIN cseenAt'[k] = 1..(Len(cseenAt[k]) + 1)
              /\ Len(cseenAt[k]) \in Nat /\ cseenAt'[k][Len(cseenAt[k]) + 1] = ctime
          BY <1>0, <4>2, AppendProperties
        <5>2. i = Len(cseenAt[k]) + 1
          BY <4>2, <4>4, <5>1
        <5> QED BY <2>3, <4>2, <5>1, <5>2
      <4> QED BY <4>3, <4>4
    <3> QED BY <3>1, <3>2
  <2> QED BY <2>1, <2>2, <2>4 DEF FreshInv, Connected
<1>2. ASSUME NEW k \in Keys, Connects!Connect(k) PROVE FreshInv'
  <2>1. /\ UNCHANGED <<ctime, cpollEnd, cseenAt>>
        /\ cconnectAt' = [cconnectAt EXCEPT ![k] = Append(cconnectAt[k], ctime)]
        /\ cring' = cring \/ cring' = Append(cring, k)
    BY <1>2 DEF Connects!Connect
  <2>2. ASSUME NEW l \in Keys
        PROVE  /\ DOMAIN cconnectAt[l] \subseteq DOMAIN cconnectAt'[l]
               /\ \A j \in DOMAIN cconnectAt[l] : cconnectAt'[l][j] = cconnectAt[l][j]
    <3>1. CASE l = k
      <4>1. cconnectAt[k] \in Seq(Nat) /\ cconnectAt'[k] = Append(cconnectAt[k], ctime)
        BY <2>1 DEF ConnectTypeInv
      <4> QED BY <1>0, <3>1, <4>1, AppendProperties
    <3>2. CASE l # k
      BY <2>1, <3>2 DEF ConnectTypeInv
    <3> QED BY <3>1, <3>2
  <2>3. ASSUME NEW l \in Keys, NEW s, NEW t, Connected(l, s, t)
        PROVE  \E j \in DOMAIN cconnectAt'[l] : cconnectAt'[l][j] \in s..t
    BY <2>2, <2>3 DEF Connected
  <2>4. \E j \in DOMAIN cconnectAt'[k] : cconnectAt'[k][j] \in cpollEnd..ctime
    <3>1. cconnectAt[k] \in Seq(Nat) /\ cconnectAt'[k] = Append(cconnectAt[k], ctime)
      BY <2>1 DEF ConnectTypeInv
    <3>2. /\ Len(cconnectAt[k]) + 1 \in DOMAIN cconnectAt'[k]
          /\ cconnectAt'[k][Len(cconnectAt[k]) + 1] = ctime
      BY <1>0, <3>1, AppendProperties
    <3> QED BY <1>0, <3>2
  <2>5. ASSUME NEW i \in DOMAIN cring'
        PROVE  \E j \in DOMAIN cconnectAt'[cring'[i]] : cconnectAt'[cring'[i]][j] \in cpollEnd..ctime
    <3>1. CASE i \in DOMAIN cring /\ cring'[i] = cring[i]
      <4>1. cring[i] \in Keys /\ Connected(cring[i], cpollEnd, ctime)
        BY <3>1 DEF ConnectTypeInv, FreshInv
      <4> QED BY <2>3, <3>1, <4>1
    <3>2. CASE ~(i \in DOMAIN cring /\ cring'[i] = cring[i])
      <4>1. cring' = Append(cring, k) /\ cring \in Seq(Keys)
        BY <2>1, <3>2 DEF ConnectTypeInv
      <4>2. cring'[i] = k
        BY <3>2, <4>1, AppendProperties
      <4> QED BY <2>4, <4>2
    <3> QED BY <3>1, <3>2
  <2>6. ASSUME NEW l \in Keys, NEW i \in DOMAIN cseenAt'[l]
        PROVE  \E j \in DOMAIN cconnectAt'[l] : cconnectAt'[l][j] \in (cseenAt'[l][i] - Round)..cseenAt'[l][i]
    <3>1. Connected(l, cseenAt[l][i] - Round, cseenAt[l][i])
      BY <2>1 DEF FreshInv
    <3> QED BY <2>1, <2>3, <3>1
  <2> QED BY <2>1, <2>5, <2>6 DEF FreshInv, Connected
<1>3. CASE Connects!Poll \/ UNCHANGED Connects!vars
  BY <1>3 DEF Connects!Poll, Connects!vars, FreshInv, Connected
<1>4. CASE Connects!EndPoll
  BY <1>4 DEF Connects!EndPoll, FreshInv, Connected
<1>5. CASE Connects!Tick
  <2>1. /\ UNCHANGED <<cring, cpollEnd, cconnectAt, cseenAt>>
        /\ cpollEnd..ctime \subseteq cpollEnd..ctime'
    <3>1. ctime' \in Nat /\ ctime <= ctime'
      BY <1>0, <1>5, NetworkAssumption DEF Connects!Tick
    <3> QED BY <1>0, <1>5, <3>1 DEF Connects!Tick
  <2> QED BY <2>1 DEF FreshInv, Connected
<1> QED BY <1>1, <1>2, <1>3, <1>4, <1>5 DEF Connects!Next

\* The time taken for a sighting is that of its handling, but the process did call connect within
\* one round before it.
THEOREM SightingsAreFresh == NetworkSpec => []SightingIsFresh
<1>1. ConnectTypeInv /\ FreshInv => SightingIsFresh
  <2> SUFFICES ASSUME ConnectTypeInv, FreshInv, NEW k \in ctracked, NEW i \in DOMAIN cseenAt[k]
               PROVE  Connected(k, cseenAt[k][i] - Round, cseenAt[k][i])
    BY DEF SightingIsFresh, Connects!SightingIsFresh, Connected
  <2> QED BY DEF ConnectTypeInv, FreshInv
<1>2. Connects!Spec => []FreshInv
  BY ConnectTypeAlways, FreshInit, FreshNext, PTL DEF Connects!Spec
<1> QED BY <1>1, <1>2, NetworkIsConnects, ConnectTypeAlways, PTL

-----------------------------------------------------------------------------
(***************************************************************************)
(* Alerts on connects                                                      *)
(***************************************************************************)
\* How often a destination is in the ring buffer.
PlacesOf(s, k)      == {i \in DOMAIN s : s[i] = k}
Occurrences(s, k)   == Cardinality(PlacesOf(s, k))

LEMMA OccurrencesType ==
  ASSUME NEW s \in Seq(Keys), NEW k
  PROVE  IsFiniteSet(PlacesOf(s, k)) /\ Occurrences(s, k) \in Nat
<1>1. DOMAIN s = 1..Len(s) /\ Len(s) \in Nat
  OBVIOUS
<1>2. IsFiniteSet(1..Len(s))
  BY <1>1, FS_Interval
<1>3. PlacesOf(s, k) \in SUBSET (1..Len(s))
  BY <1>1 DEF PlacesOf
<1>4. IsFiniteSet(PlacesOf(s, k))
  BY <1>2, <1>3, FS_Subset
<1> QED BY <1>4, FS_CardinalityType DEF Occurrences

LEMMA OccurrencesAppend ==
  ASSUME NEW s \in Seq(Keys), NEW x \in Keys, NEW k
  PROVE  /\ x = k => Occurrences(Append(s, x), k) = Occurrences(s, k) + 1
         /\ x # k => Occurrences(Append(s, x), k) = Occurrences(s, k)
<1> DEFINE a == Append(s, x)
           n == Len(s)
<1>1. /\ DOMAIN s = 1..n /\ n \in Nat /\ DOMAIN a = 1..(n + 1) /\ a[n + 1] = x
      /\ \A i \in 1..n : a[i] = s[i]
  BY AppendProperties
<1>2. IsFiniteSet(PlacesOf(s, k)) /\ Occurrences(s, k) \in Nat
  BY OccurrencesType
<1> HIDE DEF a, n
<1>3. CASE x = k
  <2>1. PlacesOf(a, k) = PlacesOf(s, k) \union {n + 1}
    <3>1. \A i : i \in 1..(n + 1) <=> i \in 1..n \/ i = n + 1
      BY <1>1
    <3> QED BY <1>1, <1>3, <3>1 DEF PlacesOf
  <2>2. n + 1 \notin PlacesOf(s, k)
    BY <1>1 DEF PlacesOf
  <2>3. Cardinality(PlacesOf(s, k) \union {n + 1}) = Cardinality(PlacesOf(s, k)) + 1
    BY <1>2, <2>2, FS_AddElement
  <2> QED BY <1>2, <1>3, <2>1, <2>3 DEF Occurrences, a
<1>4. CASE x # k
  <2>1. PlacesOf(a, k) = PlacesOf(s, k)
    <3>1. \A i : i \in 1..(n + 1) <=> i \in 1..n \/ i = n + 1
      BY <1>1
    <3> QED BY <1>1, <1>4, <3>1 DEF PlacesOf
  <2> QED BY <1>2, <1>4, <2>1 DEF Occurrences, a
<1> QED BY <1>3, <1>4

LEMMA OccurrencesTail ==
  ASSUME NEW s \in Seq(Keys), s # <<>>, NEW k
  PROVE  Occurrences(Tail(s), k) + (IF Head(s) = k THEN 1 ELSE 0) <= Occurrences(s, k)
<1> DEFINE t == Tail(s)
           n == Len(s)
           f == [i \in PlacesOf(t, k) |-> i + 1]
<1>1. /\ DOMAIN s = 1..n /\ n \in Nat \ {0} /\ t \in Seq(Keys) /\ DOMAIN t = 1..(n - 1)
      /\ \A i \in 1..(n - 1) : t[i] = s[i + 1] /\ i + 1 \in 1..n /\ i + 1 # 1
      /\ Head(s) = s[1]
  BY HeadTailProperties, EmptySeq
<1>2. /\ IsFiniteSet(PlacesOf(s, k)) /\ IsFiniteSet(PlacesOf(t, k))
      /\ Occurrences(s, k) \in Nat /\ Occurrences(t, k) \in Nat
  BY <1>1, OccurrencesType
<1>3. IsFiniteSet(PlacesOf(s, k) \ {1})
      /\ Cardinality(PlacesOf(s, k) \ {1}) = Cardinality(PlacesOf(s, k)) - (IF s[1] = k THEN 1 ELSE 0)
  <2>1. 1 \in PlacesOf(s, k) <=> s[1] = k
    BY <1>1 DEF PlacesOf
  <2> QED BY <1>2, <2>1, FS_RemoveElement DEF Occurrences
<1> HIDE DEF t, n
<1>4. f \in Injection(PlacesOf(t, k), PlacesOf(s, k) \ {1})
  <2>1. \A i \in PlacesOf(t, k) : i \in Int /\ i + 1 \in PlacesOf(s, k) \ {1}
    BY <1>1 DEF PlacesOf
  <2>2. f \in [PlacesOf(t, k) -> PlacesOf(s, k) \ {1}]
    BY <2>1
  <2>3. IsInjective(f)
    BY <2>1 DEF IsInjective
  <2> QED BY <2>2, <2>3 DEF Injection
<1>5. Cardinality(PlacesOf(t, k)) <= Cardinality(PlacesOf(s, k) \ {1})
  BY <1>3, <1>4, FS_Injection
<1> QED BY <1>1, <1>2, <1>3, <1>5 DEF Occurrences, t

LEMMA ElementOf ==
  ASSUME NEW S, NEW s \in Seq(S), NEW i \in DOMAIN s
  PROVE  s[i] \in S
OBVIOUS

ConnectAlerted(k) == \E i \in DOMAIN calerts : calerts[i].key = k

\* A sighting takes a record out of the ring buffer, which a call of connect has put there; a track
\* was seen more often than it has gaps; who was alerted on is marked.
ReconnectInv ==
  /\ \A k \in Keys : ctrack[k].seen + Occurrences(cring, k) <= Len(cconnectAt[k])
  /\ \A k \in ctracked : ctrack[k].count < ctrack[k].seen
  /\ calerts \in Seq([key : Keys, gaps : Seq(Nat)])
  /\ \A k \in Keys : ctrack[k].alerted <=> ConnectAlerted(k)
  /\ AlertHasReconnects

LEMMA ReconnectInit == Connects!Init => ReconnectInv
<1> SUFFICES ASSUME Connects!Init PROVE ReconnectInv
  OBVIOUS
<1>1. /\ \A k \in Keys : ctrack[k] = Connects!Zeroed /\ cconnectAt[k] = <<>>
      /\ cring = <<>> /\ calerts = <<>> /\ ctracked = {}
  BY DEF Connects!Init
<1>2. \A k : Occurrences(<<>>, k) = 0
  <2>1. \A k : PlacesOf(<<>>, k) = {}
    BY DEF PlacesOf
  <2> QED BY <2>1, FS_EmptySet DEF Occurrences
<1>3. Connects!Zeroed.seen = 0 /\ Connects!Zeroed.alerted = FALSE
  BY DEF Connects!Zeroed
<1>4. Len(<<>>) = 0 /\ <<>> \in Seq([key : Keys, gaps : Seq(Nat)]) /\ DOMAIN <<>> = {}
  OBVIOUS
<1>5. AlertHasReconnects
  BY <1>1, <1>4 DEF AlertHasReconnects, Connects!AlertHasReconnects
<1> QED BY <1>1, <1>2, <1>3, <1>4, <1>5 DEF ReconnectInv, ConnectAlerted

\* Without regular gaps there are no more than 30 points.
LEMMA ConnectTimingIsNeeded ==
  ASSUME NEW k \in Keys, NEW t, Connects!Score(k, t) > 30
  PROVE  Connects!Beaconing(Connects!Gaps(t), 1)
<1>1. SUFFICES ASSUME ~Connects!Beaconing(Connects!Gaps(t), 1) PROVE FALSE
  OBVIOUS
<1>2. Connects!If(Connects!Beaconing(Connects!Gaps(t), 1), 60) = 0
  BY <1>1 DEF Connects!If
<1> DEFINE s == Connects!If(t.seen >= 4, 25)
           w == Connects!If(k \in ConnectWebPorts, 5)
           b == Connects!If(Connects!Beaconing(Connects!Gaps(t), 1), 60)
<1>3. Connects!Score(k, t) = s + b + w
  BY DEF Connects!Score, Connects!ConnectScore
<1>4. s \in {0, 25} /\ w \in {0, 5} /\ b = 0
  BY <1>2 DEF Connects!If
<1> HIDE DEF s, w, b
<1> QED BY <1>3, <1>4

\* A new alert is the first of its destination, for a score that is high enough.
LEMMA NewConnectAlert ==
  ASSUME ReconnectInv, NEW k \in Keys, NEW t, Connects!Alerts(k, t), ~ctrack[k].alerted,
         Connects!Gaps(t) \in Seq(Nat), Len(Connects!Gaps(t)) < Len(cconnectAt'[k]),
         calerts' = Append(calerts, [key |-> k, gaps |-> Connects!Gaps(t)]),
         \A l \in Keys : Len(cconnectAt[l]) <= Len(cconnectAt'[l]),
         \A l \in Keys : Len(cconnectAt[l]) \in Nat /\ Len(cconnectAt'[l]) \in Nat
  PROVE  /\ calerts' \in Seq([key : Keys, gaps : Seq(Nat)])
         /\ \A l \in Keys : ConnectAlerted(l)' <=> ConnectAlerted(l) \/ l = k
         /\ AlertHasReconnects'
<1> DEFINE record == [key |-> k, gaps |-> Connects!Gaps(t)]
           n == Len(calerts)
<1>1. record \in [key : Keys, gaps : Seq(Nat)] /\ record.key = k /\ record.gaps = Connects!Gaps(t)
  OBVIOUS
<1>2. calerts' = Append(calerts, record)
  OBVIOUS
<1> HIDE DEF record
<1>3. /\ calerts' \in Seq([key : Keys, gaps : Seq(Nat)])
      /\ n \in Nat /\ DOMAIN calerts = 1..n /\ DOMAIN calerts' = 1..(n + 1)
      /\ calerts'[n + 1] = record /\ \A i \in 1..n : calerts'[i] = calerts[i]
  BY <1>1, <1>2, AppendProperties DEF ReconnectInv
<1>4. ~ConnectAlerted(k)
  BY DEF ReconnectInv
<1> HIDE DEF n
<1>5. ASSUME NEW i \in DOMAIN calerts'
      PROVE  (i \in DOMAIN calerts /\ calerts'[i] = calerts[i] /\ i # n + 1) \/ (i = n + 1 /\ calerts'[i] = record)
  <2>1. i \in 1..n \/ i = n + 1
    BY <1>3
  <2>2. i \in 1..n => i # n + 1
    BY <1>3
  <2> QED BY <1>3, <2>1, <2>2
<1>6. \A i \in DOMAIN calerts : i \in DOMAIN calerts' /\ calerts'[i] = calerts[i]
  BY <1>3
<1>7. n + 1 \in DOMAIN calerts'
  BY <1>3
<1>8. \A l \in Keys : ConnectAlerted(l)' <=> ConnectAlerted(l) \/ l = k
  BY <1>1, <1>3, <1>5, <1>6, <1>7 DEF ConnectAlerted
<1>9. Connects!AlertThreshold > 30
        => Len(Connects!Gaps(t)) >= 3 /\ Connects!LowJitter(Connects!Gaps(t))
  <2> SUFFICES ASSUME Connects!AlertThreshold > 30
               PROVE  Len(Connects!Gaps(t)) >= 3 /\ Connects!LowJitter(Connects!Gaps(t))
    OBVIOUS
  <2>1. Connects!AlertThreshold \in Int /\ Connects!Score(k, t) \in Int
    BY NetworkAssumption
       DEF Connects!AlertThreshold, Connects!Score, Connects!ConnectScore, Connects!If
  <2>2. Connects!Score(k, t) >= Connects!AlertThreshold
    BY DEF Connects!Alerts
  <2>3. Connects!Score(k, t) > 30
    BY <2>1, <2>2
  <2> QED BY <2>3, ConnectTimingIsNeeded DEF Connects!Beaconing
<1>10. AlertHasReconnects'
  <2> SUFFICES ASSUME NEW i \in DOMAIN calerts'
               PROVE  LET r == calerts'[i] IN
                        /\ Connects!AlertThreshold > 30 => Len(r.gaps) >= 3 /\ Connects!LowJitter(r.gaps)
                        /\ Len(cconnectAt'[r.key]) > Len(r.gaps)
                        /\ \A j \in DOMAIN calerts' : calerts'[j].key = r.key => i = j
    BY DEF AlertHasReconnects, Connects!AlertHasReconnects, Connects!AlertThreshold
  <2>1. CASE i \in DOMAIN calerts /\ calerts'[i] = calerts[i] /\ i # n + 1
    <3> DEFINE r == calerts[i]
    <3>1. r.key \in Keys /\ r.gaps \in Seq(Nat) /\ r.key # k
      <4>1. r \in [key : Keys, gaps : Seq(Nat)]
        <5>1. calerts \in Seq([key : Keys, gaps : Seq(Nat)])
          BY DEF ReconnectInv
        <5> QED BY <2>1, <5>1, ElementOf
      <4>2. r.key # k
        BY <1>4, <2>1 DEF ConnectAlerted
      <4> QED BY <4>1, <4>2
    <3>2. /\ Connects!AlertThreshold > 30 => Len(r.gaps) >= 3 /\ Connects!LowJitter(r.gaps)
          /\ Len(cconnectAt[r.key]) > Len(r.gaps)
          /\ \A j \in DOMAIN calerts : calerts[j].key = r.key => i = j
      BY <2>1 DEF ReconnectInv, AlertHasReconnects, Connects!AlertHasReconnects
    <3>3. Len(cconnectAt'[r.key]) > Len(r.gaps)
      <4>1. Len(r.gaps) \in Nat
        BY <3>1
      <4> HIDE DEF r
      <4> QED BY <3>1, <3>2, <4>1
    <3>4. \A j \in DOMAIN calerts' : calerts'[j].key = r.key => i = j
      BY <1>1, <1>5, <3>1, <3>2
    <3> QED BY <2>1, <3>2, <3>3, <3>4
  <2>2. CASE i = n + 1 /\ calerts'[i] = record
    <3>1. \A j \in DOMAIN calerts' : calerts'[j].key = k => i = j
      BY <1>4, <1>5, <2>2 DEF ConnectAlerted
    <3> QED BY <1>1, <1>9, <2>2, <3>1
  <2> QED BY <1>5, <2>1, <2>2
<1> QED BY <1>3, <1>8, <1>10

LEMMA ReconnectNext ==
  ConnectTypeInv /\ ReconnectInv /\ [Connects!Next]_(Connects!vars) => ReconnectInv'
<1> SUFFICES ASSUME ConnectTypeInv, ReconnectInv, [Connects!Next]_(Connects!vars)
             PROVE  ReconnectInv'
  OBVIOUS
<1>0. ctime \in Nat
  BY NetworkAssumption DEF ConnectTypeInv
<1>1. CASE Connects!Handle
  <2> DEFINE k   == Head(cring)
             old == ConnectOld(k)
             w   == Connects!WithInterval(old)
             new == ConnectNew(k)
  <2>1. /\ UNCHANGED <<ctime, cconnectAt>> /\ cring # <<>> /\ cring \in Seq(Keys)
        /\ cring' = Tail(cring) /\ cring' \in Seq(Keys) /\ k \in Keys
    <3>1. cring \in Seq(Keys) /\ cring # <<>> /\ cring' = Tail(cring)
      BY <1>1, HandleEffect DEF ConnectTypeInv
    <3> QED BY <1>1, <3>1, HandleEffect, HeadTailProperties
  <2>2. ASSUME NEW l \in Keys
        PROVE  /\ ctrack[l].seen \in Nat /\ Len(cconnectAt[l]) \in Nat
               /\ Occurrences(cring, l) \in Nat /\ Occurrences(cring', l) \in Nat
               /\ Occurrences(cring', l) + (IF k = l THEN 1 ELSE 0) <= Occurrences(cring, l)
    <3>1. ctrack[l].seen \in Nat /\ Len(cconnectAt[l]) \in Nat
      BY DEF ConnectTypeInv, ConnectRecords
    <3>2. Occurrences(cring, l) \in Nat /\ Occurrences(cring', l) \in Nat
      BY <2>1, OccurrencesType
    <3>3. Occurrences(Tail(cring), l) + (IF Head(cring) = l THEN 1 ELSE 0) <= Occurrences(cring, l)
      BY <2>1, OccurrencesTail
    <3> QED BY <2>1, <3>1, <3>2, <3>3
  <2>3. CASE UNCHANGED <<ctracked, ctrack, cseenAt, calerts>>
    <3>1. \A l \in Keys : ctrack'[l].seen + Occurrences(cring', l) <= Len(cconnectAt'[l])
      <4> SUFFICES ASSUME NEW l \in Keys
                   PROVE  ctrack[l].seen + Occurrences(cring', l) <= Len(cconnectAt[l])
        BY <2>1, <2>3
      <4>1. ctrack[l].seen + Occurrences(cring, l) <= Len(cconnectAt[l])
        BY DEF ReconnectInv
      <4> HIDE DEF k
      <4> QED BY <2>2, <4>1
    <3> QED BY <2>1, <2>3, <3>1
        DEF ReconnectInv, ConnectAlerted, AlertHasReconnects, Connects!AlertHasReconnects,
            Connects!AlertThreshold
  <2>4. CASE ~UNCHANGED <<ctracked, ctrack, cseenAt, calerts>>
    <3>1. /\ ctracked' = ctracked \union {k}
          /\ old \in ConnectRecords /\ w \in ConnectRecords
          /\ new \in ConnectRecords /\ new.alerted = old.alerted /\ new.seen = old.seen + 1
          /\ new.count = w.count /\ Connects!Gaps(new) = Connects!Gaps(w)
          /\ \A l \in Keys \ {k} : ctrack'[l] = ctrack[l]
          /\ ctrack'[k].seen = new.seen /\ ctrack'[k].count = new.count
          /\ ctrack'[k].alerted <=> old.alerted \/ Connects!Alerts(k, new)
          /\ calerts' = IF Connects!Alerts(k, new)
                          THEN Append(calerts, [key |-> k, gaps |-> Connects!Gaps(new)])
                          ELSE calerts
      BY <1>1, <2>4, HandleEffect
    <3>2. old.alerted = ctrack[k].alerted /\ old.seen = ctrack[k].seen
      BY <1>0, <2>1, ConnectFresh DEF ConnectTypeInv, ConnectOld
    <3>3. new.count < new.seen
      <4>1. CASE k \in ctracked
        <5>1. old.count < old.seen /\ w.count <= old.count + 1
          BY <1>0, <3>1, <4>1, ConnectInterval DEF ConnectOld, ReconnectInv
        <5>2. old.count \in Nat /\ old.seen \in Nat /\ w.count \in Nat
          BY <3>1, NetworkAssumption DEF ConnectRecords
        <5> HIDE DEF old, w, new
        <5> QED BY <3>1, <5>1, <5>2
      <4>2. CASE k \notin ctracked
        <5>1. old = Connects!NewTrack /\ old.last = ctime /\ old.seen = 0 /\ old.count = 0
          BY <1>0, <4>2, ConnectFresh DEF ConnectOld
        <5>2. w = old
          BY <1>0, <3>1, <5>1, ConnectInterval
        <5> HIDE DEF old, w, new
        <5> QED BY <3>1, <5>1, <5>2
      <4> QED BY <4>1, <4>2
    <3>4. Len(Connects!Gaps(new)) = new.count /\ Connects!Gaps(new) \in Seq(Nat)
      BY <1>0, <3>1, ConnectInterval
    <3>5. new.seen \in Nat /\ new.count \in Nat /\ new.seen = ctrack[k].seen + 1
      BY <3>1, <3>2, NetworkAssumption DEF ConnectRecords
    <3> HIDE DEF k, old, w, new
    <3>6. new.seen + Occurrences(cring', k) <= Len(cconnectAt[k])
      <4>1. ctrack[k].seen + Occurrences(cring, k) <= Len(cconnectAt[k])
        BY <2>1 DEF ReconnectInv
      <4>2. /\ ctrack[k].seen \in Nat /\ Len(cconnectAt[k]) \in Nat
            /\ Occurrences(cring, k) \in Nat /\ Occurrences(cring', k) \in Nat
            /\ Occurrences(cring', k) + 1 <= Occurrences(cring, k)
        BY <2>1, <2>2
      <4> QED BY <3>5, <4>1, <4>2
    <3>7. \A l \in Keys : ctrack'[l].seen + Occurrences(cring', l) <= Len(cconnectAt'[l])
      <4> SUFFICES ASSUME NEW l \in Keys
                   PROVE  ctrack'[l].seen + Occurrences(cring', l) <= Len(cconnectAt[l])
        BY <2>1
      <4>1. CASE l = k
        BY <3>1, <3>6, <4>1
      <4>2. CASE l # k
        <5>1. ctrack[l].seen + Occurrences(cring, l) <= Len(cconnectAt[l])
          BY DEF ReconnectInv
        <5>2. Occurrences(cring', l) + 0 <= Occurrences(cring, l)
          BY <2>2, <4>2
        <5> QED BY <2>2, <3>1, <4>2, <5>1, <5>2
      <4> QED BY <4>1, <4>2
    <3>8. \A l \in ctracked' : ctrack'[l].count < ctrack'[l].seen
      <4> SUFFICES ASSUME NEW l \in ctracked' PROVE ctrack'[l].count < ctrack'[l].seen
        OBVIOUS
      <4>1. CASE l = k
        BY <3>1, <3>3, <4>1
      <4>2. CASE l # k
        BY <3>1, <4>2 DEF ReconnectInv, ConnectTypeInv
      <4> QED BY <4>1, <4>2
    <3>9. CASE Connects!Alerts(k, new)
      <4>1. ~ctrack[k].alerted
        BY <3>1, <3>2, <3>9 DEF Connects!Alerts
      <4>2. Len(Connects!Gaps(new)) < Len(cconnectAt'[k])
        <5>1. Occurrences(cring', k) \in Nat /\ Len(cconnectAt[k]) \in Nat /\ cconnectAt' = cconnectAt
          BY <2>1, <2>2
        <5> QED BY <3>3, <3>4, <3>5, <3>6, <5>1
      <4>3. \A l \in Keys : /\ Len(cconnectAt[l]) <= Len(cconnectAt'[l])
                            /\ Len(cconnectAt[l]) \in Nat /\ Len(cconnectAt'[l]) \in Nat
        BY <2>1, <2>2
      <4>4. /\ calerts' \in Seq([key : Keys, gaps : Seq(Nat)])
            /\ \A l \in Keys : ConnectAlerted(l)' <=> ConnectAlerted(l) \/ l = k
            /\ AlertHasReconnects'
        BY <2>1, <3>1, <3>4, <3>9, <4>1, <4>2, <4>3, NewConnectAlert
      <4>5. \A l \in Keys : ctrack'[l].alerted <=> ConnectAlerted(l)'
        BY <3>1, <3>9, <4>4 DEF ReconnectInv
      <4> QED BY <3>7, <3>8, <4>4, <4>5 DEF ReconnectInv
    <3>10. CASE ~Connects!Alerts(k, new)
      <4>1. calerts' = calerts /\ cconnectAt' = cconnectAt
            /\ \A l \in Keys : ctrack'[l].alerted <=> ctrack[l].alerted
        BY <2>1, <3>1, <3>2, <3>10
      <4>2. AlertHasReconnects'
        BY <4>1 DEF ReconnectInv, AlertHasReconnects, Connects!AlertHasReconnects,
                    Connects!AlertThreshold
      <4> QED BY <3>7, <3>8, <4>1, <4>2 DEF ReconnectInv, ConnectAlerted
    <3> QED BY <3>9, <3>10
  <2> QED BY <2>3, <2>4
<1>2. ASSUME NEW k \in Keys, Connects!Connect(k) PROVE ReconnectInv'
  <2>1. /\ UNCHANGED <<ctracked, ctrack, calerts>>
        /\ cconnectAt' = [cconnectAt EXCEPT ![k] = Append(cconnectAt[k], ctime)]
        /\ cring' = cring \/ cring' = Append(cring, k)
    BY <1>2 DEF Connects!Connect
  <2>2. ASSUME NEW l \in Keys
        PROVE  /\ Len(cconnectAt[l]) \in Nat
               /\ l = k => Len(cconnectAt'[l]) = Len(cconnectAt[l]) + 1
               /\ l # k => Len(cconnectAt'[l]) = Len(cconnectAt[l])
    <3>1. CASE l = k
      <4>1. cconnectAt[k] \in Seq(Nat) /\ cconnectAt'[k] = Append(cconnectAt[k], ctime)
        BY <2>1 DEF ConnectTypeInv
      <4> QED BY <1>0, <3>1, <4>1, AppendProperties
    <3>2. CASE l # k
      <4>1. cconnectAt'[l] = cconnectAt[l] /\ cconnectAt[l] \in Seq(Nat)
        BY <2>1, <3>2 DEF ConnectTypeInv
      <4> QED BY <3>2, <4>1
    <3> QED BY <3>1, <3>2
  <2>3. ASSUME NEW l \in Keys
        PROVE  ctrack'[l].seen + Occurrences(cring', l) <= Len(cconnectAt'[l])
    <3>1. ctrack[l].seen + Occurrences(cring, l) <= Len(cconnectAt[l])
      BY DEF ReconnectInv
    <3>2. /\ ctrack[l].seen \in Nat /\ Occurrences(cring, l) \in Nat /\ Occurrences(cring', l) \in Nat
          /\ Occurrences(cring', l) <= Occurrences(cring, l) + 1
          /\ l # k => Occurrences(cring', l) = Occurrences(cring, l)
      <4>1. cring \in Seq(Keys) /\ ctrack[l].seen \in Nat
        BY DEF ConnectTypeInv, ConnectRecords
      <4>2. cring' \in Seq(Keys)
        BY <2>1, <4>1, AppendProperties
      <4>3. Occurrences(cring, l) \in Nat /\ Occurrences(cring', l) \in Nat
        BY <4>1, <4>2, OccurrencesType
      <4>4. CASE cring' = cring
        BY <4>1, <4>3, <4>4
      <4>5. CASE cring' = Append(cring, k)
        <5>1. /\ l = k => Occurrences(cring', l) = Occurrences(cring, l) + 1
              /\ l # k => Occurrences(cring', l) = Occurrences(cring, l)
          BY <4>1, <4>5, OccurrencesAppend
        <5> QED BY <4>1, <4>3, <5>1
      <4> QED BY <2>1, <4>4, <4>5
    <3>3. ctrack' = ctrack
      BY <2>1
    <3>4. CASE l = k
      BY <2>2, <3>1, <3>2, <3>3, <3>4
    <3>5. CASE l # k
      BY <2>2, <3>1, <3>2, <3>3, <3>5
    <3> QED BY <3>4, <3>5
  <2>4. AlertHasReconnects'
    <3> SUFFICES ASSUME NEW i \in DOMAIN calerts
                 PROVE  LET r == calerts[i] IN
                          /\ Connects!AlertThreshold > 30
                               => Len(r.gaps) >= 3 /\ Connects!LowJitter(r.gaps)
                          /\ Len(cconnectAt'[r.key]) > Len(r.gaps)
                          /\ \A j \in DOMAIN calerts : calerts[j].key = r.key => i = j
      BY <2>1 DEF AlertHasReconnects, Connects!AlertHasReconnects, Connects!AlertThreshold
    <3> DEFINE r == calerts[i]
    <3>1. /\ Connects!AlertThreshold > 30 => Len(r.gaps) >= 3 /\ Connects!LowJitter(r.gaps)
          /\ Len(cconnectAt[r.key]) > Len(r.gaps)
          /\ \A j \in DOMAIN calerts : calerts[j].key = r.key => i = j
      BY DEF ReconnectInv, AlertHasReconnects, Connects!AlertHasReconnects
    <3>3. r.key \in Keys /\ Len(r.gaps) \in Nat
      <4>1. r \in [key : Keys, gaps : Seq(Nat)]
        <5>1. calerts \in Seq([key : Keys, gaps : Seq(Nat)])
          BY DEF ReconnectInv
        <5> QED BY <5>1, ElementOf
      <4> QED BY <4>1
    <3> HIDE DEF r
    <3>2. Len(cconnectAt'[r.key]) > Len(r.gaps)
      <4>1. Len(cconnectAt'[r.key]) >= Len(cconnectAt[r.key]) /\ Len(cconnectAt[r.key]) \in Nat
            /\ Len(cconnectAt'[r.key]) \in Nat
        <5>1. CASE r.key = k
          BY <2>2, <3>3, <5>1
        <5>2. CASE r.key # k
          BY <2>2, <3>3, <5>2
        <5> QED BY <5>1, <5>2
      <4> QED BY <3>1, <3>3, <4>1
    <3> QED BY <3>1, <3>2 DEF r
  <2> QED BY <2>1, <2>3, <2>4 DEF ReconnectInv, ConnectAlerted
<1>3. CASE UNCHANGED <<cring, ctracked, ctrack, cconnectAt, calerts>>
  BY <1>3 DEF ReconnectInv, ConnectAlerted, AlertHasReconnects, Connects!AlertHasReconnects,
              Connects!AlertThreshold
<1>4. \/ Connects!Handle \/ \E k \in Keys : Connects!Connect(k)
      \/ UNCHANGED <<cring, ctracked, ctrack, cconnectAt, calerts>>
  BY DEF Connects!Next, Connects!vars, Connects!Poll, Connects!EndPoll, Connects!Tick
<1> QED BY <1>1, <1>2, <1>3, <1>4

\* An alert on connects is for regular gaps and for as many calls of connect, and never repeated.
THEOREM ConnectAlertsHaveReconnects == NetworkSpec => []AlertHasReconnects
<1>1. ReconnectInv => AlertHasReconnects
  BY DEF ReconnectInv
<1>2. Connects!Spec => []ReconnectInv
  BY ConnectTypeAlways, ReconnectInit, ReconnectNext, PTL DEF Connects!Spec
<1> QED BY <1>1, <1>2, NetworkIsConnects, PTL

-----------------------------------------------------------------------------
(***************************************************************************)
(* Windows of SYNs                                                         *)
(***************************************************************************)
SynSightingsOf == [target : Targets, at : Nat]

\* The sightings in a stretch of time and their targets.
PlacesIn(s, lo, hi)  == {i \in DOMAIN s : s[i].at \in lo..hi}
TargetsIn(s, lo, hi) == {s[i].target : i \in PlacesIn(s, lo, hi)}
NoAlertIn(a, lo, hi) == \A i \in DOMAIN a : a[i] \notin lo..hi

LEMMA InFinite ==
  ASSUME NEW s \in Seq(SynSightingsOf), NEW lo \in Int, NEW hi \in Int
  PROVE  /\ IsFiniteSet(PlacesIn(s, lo, hi)) /\ IsFiniteSet(TargetsIn(s, lo, hi))
         /\ Cardinality(PlacesIn(s, lo, hi)) \in Nat /\ Cardinality(TargetsIn(s, lo, hi)) \in Nat
         /\ Cardinality(TargetsIn(s, lo, hi)) <= Cardinality(PlacesIn(s, lo, hi))
<1> DEFINE I == PlacesIn(s, lo, hi)
           T == TargetsIn(s, lo, hi)
           f == [i \in I |-> s[i].target]
<1>1. IsFiniteSet(I)
  <2>1. DOMAIN s = 1..Len(s) /\ Len(s) \in Nat
    OBVIOUS
  <2>2. IsFiniteSet(1..Len(s)) /\ I \in SUBSET (1..Len(s))
    BY <2>1, FS_Interval DEF PlacesIn
  <2> QED BY <2>2, FS_Subset
<1>2. f \in Surjection(I, T)
  BY DEF Surjection, TargetsIn
<1>3. IsFiniteSet(T) /\ Cardinality(T) <= Cardinality(I)
  <2> HIDE DEF I, T, f
  <2> QED BY <1>1, <1>2, FS_Surjection
<1> QED BY <1>1, <1>3, FS_CardinalityType

\* A stretch of time that covers another has its sightings and targets.
LEMMA InMore ==
  ASSUME NEW s \in Seq(SynSightingsOf), NEW lo \in Int, NEW hi \in Int, NEW l \in Int, NEW h \in Int,
         \A i \in DOMAIN s : s[i].at \in lo..hi => s[i].at \in l..h
  PROVE  /\ PlacesIn(s, lo, hi) \subseteq PlacesIn(s, l, h)
         /\ TargetsIn(s, lo, hi) \subseteq TargetsIn(s, l, h)
         /\ Cardinality(PlacesIn(s, lo, hi)) <= Cardinality(PlacesIn(s, l, h))
         /\ Cardinality(TargetsIn(s, lo, hi)) <= Cardinality(TargetsIn(s, l, h))
<1>1. PlacesIn(s, lo, hi) \subseteq PlacesIn(s, l, h)
  BY DEF PlacesIn
<1>2. TargetsIn(s, lo, hi) \subseteq TargetsIn(s, l, h)
  BY <1>1 DEF TargetsIn
<1>3. IsFiniteSet(PlacesIn(s, l, h)) /\ IsFiniteSet(TargetsIn(s, l, h))
  BY InFinite
<1> QED BY <1>1, <1>2, <1>3, FS_Subset

\* Nothing is seen in a stretch of time that no sighting lies in.
LEMMA InNothing ==
  ASSUME NEW s \in Seq(SynSightingsOf), NEW lo \in Int, NEW hi \in Int,
         \A i \in DOMAIN s : s[i].at \notin lo..hi
  PROVE  /\ PlacesIn(s, lo, hi) = {} /\ TargetsIn(s, lo, hi) = {}
         /\ Cardinality(PlacesIn(s, lo, hi)) = 0 /\ Cardinality(TargetsIn(s, lo, hi)) = 0
BY FS_EmptySet DEF PlacesIn, TargetsIn

LEMMA InAppend ==
  ASSUME NEW s \in Seq(SynSightingsOf), NEW r \in SynSightingsOf, NEW lo \in Int, NEW hi \in Int
  PROVE  /\ Append(s, r) \in Seq(SynSightingsOf)
         /\ r.at \notin lo..hi => /\ PlacesIn(Append(s, r), lo, hi) = PlacesIn(s, lo, hi)
                                  /\ TargetsIn(Append(s, r), lo, hi) = TargetsIn(s, lo, hi)
         /\ r.at \in lo..hi =>
              /\ Cardinality(PlacesIn(Append(s, r), lo, hi)) = Cardinality(PlacesIn(s, lo, hi)) + 1
              /\ TargetsIn(Append(s, r), lo, hi) = TargetsIn(s, lo, hi) \union {r.target}
         /\ Cardinality(PlacesIn(s, lo, hi)) <= Cardinality(PlacesIn(Append(s, r), lo, hi))
         /\ Cardinality(TargetsIn(s, lo, hi)) <= Cardinality(TargetsIn(Append(s, r), lo, hi))
<1> DEFINE a == Append(s, r)
           n == Len(s)
<1>1. /\ a \in Seq(SynSightingsOf) /\ n \in Nat /\ DOMAIN s = 1..n /\ DOMAIN a = 1..(n + 1)
      /\ a[n + 1] = r /\ \A i \in 1..n : a[i] = s[i]
  BY AppendProperties
<1>2. \A i : i \in 1..(n + 1) <=> i \in 1..n \/ i = n + 1
  BY <1>1
<1>3. n + 1 \notin 1..n
  BY <1>1
<1> HIDE DEF a, n
<1>4. ASSUME r.at \notin lo..hi
      PROVE  PlacesIn(a, lo, hi) = PlacesIn(s, lo, hi) /\ TargetsIn(a, lo, hi) = TargetsIn(s, lo, hi)
  <2>1. PlacesIn(a, lo, hi) = PlacesIn(s, lo, hi)
    BY <1>1, <1>2, <1>4 DEF PlacesIn
  <2>2. \A i \in PlacesIn(s, lo, hi) : a[i].target = s[i].target
    BY <1>1 DEF PlacesIn
  <2> QED BY <2>1, <2>2 DEF TargetsIn
<1>5. ASSUME r.at \in lo..hi
      PROVE  /\ PlacesIn(a, lo, hi) = PlacesIn(s, lo, hi) \union {n + 1}
             /\ Cardinality(PlacesIn(a, lo, hi)) = Cardinality(PlacesIn(s, lo, hi)) + 1
             /\ TargetsIn(a, lo, hi) = TargetsIn(s, lo, hi) \union {r.target}
  <2>1. PlacesIn(a, lo, hi) = PlacesIn(s, lo, hi) \union {n + 1}
    BY <1>1, <1>2, <1>5 DEF PlacesIn
  <2>2. n + 1 \notin PlacesIn(s, lo, hi)
    BY <1>1, <1>3 DEF PlacesIn
  <2>3. Cardinality(PlacesIn(a, lo, hi)) = Cardinality(PlacesIn(s, lo, hi)) + 1
    BY <2>1, <2>2, InFinite, FS_AddElement
  <2>4. \A i \in PlacesIn(s, lo, hi) : a[i].target = s[i].target
    BY <1>1 DEF PlacesIn
  <2>5. TargetsIn(a, lo, hi) = TargetsIn(s, lo, hi) \union {r.target}
    BY <1>1, <2>1, <2>4 DEF TargetsIn
  <2> QED BY <2>1, <2>3, <2>5
<1>6. PlacesIn(s, lo, hi) \subseteq PlacesIn(a, lo, hi) /\ TargetsIn(s, lo, hi) \subseteq TargetsIn(a, lo, hi)
  BY <1>4, <1>5
<1>7. /\ Cardinality(PlacesIn(s, lo, hi)) <= Cardinality(PlacesIn(a, lo, hi))
      /\ Cardinality(TargetsIn(s, lo, hi)) <= Cardinality(TargetsIn(a, lo, hi))
  BY <1>1, <1>6, InFinite, FS_Subset
<1> QED BY <1>1, <1>4, <1>5, <1>7 DEF a

Windows == [start : Nat, syns : Nat, keys : SUBSET Targets, alerted : BOOLEAN]
FreshWindow(time) == [start |-> time, syns |-> 0, keys |-> {}, alerted |-> FALSE]

\* A window w, the sightings s and the alerts a of a process: what the window counts is what was
\* seen since its start, and while it has no alert that is too little for one.
CountsSightings(w, s, time) ==
  /\ w \in Windows /\ w.start <= time
  /\ s \in Seq(SynSightingsOf)
  /\ \A i \in DOMAIN s : s[i].at <= time /\ (s[i].at >= w.start => s[i].at <= w.start + Window)
  /\ w.syns = Cardinality(PlacesIn(s, w.start, w.start + Window))
  /\ w.keys \subseteq TargetsIn(s, w.start, w.start + Window)
  /\ Cardinality(w.keys) < KeySlots => w.keys = TargetsIn(s, w.start, w.start + Window)
  /\ ~w.alerted => w.syns < SynLimit \/ Cardinality(w.keys) < UniqueLimit

\* Alerts are one to a window; each is for the sightings of its own.
CountsAlerts(w, s, a, time) ==
  /\ a \in Seq(Nat)
  /\ \A i \in DOMAIN a : a[i] <= time
  /\ w.alerted => Len(a) > 0 /\ a[Len(a)] \in w.start..(w.start + Window)
  /\ \A i \in DOMAIN a : i < Len(a) \/ ~w.alerted => a[i] < w.start
  /\ \A i \in DOMAIN a : i < Len(a) - 1 \/ (i < Len(a) /\ ~w.alerted) => a[i] + Window < w.start
  /\ \A i, j \in DOMAIN a : j >= i + 2 => a[j] - a[i] > Window
  /\ \A i \in DOMAIN a : /\ Cardinality(PlacesIn(s, a[i] - Window, a[i])) >= SynLimit
                         /\ Cardinality(TargetsIn(s, a[i] - Window, a[i])) >= UniqueLimit

\* Where no alert was given, few targets were seen: since the start of the window, in the windows
\* before that reach up to it, and in any stretch of a window's length that is over.
FewUnlessAlerted(w, s, a) ==
  /\ \A t \in Nat : t >= w.start /\ NoAlertIn(a, w.start, t)
       => Cardinality(TargetsIn(s, w.start, t)) <= SynLimit - 1
  /\ \A f \in Nat : f < w.start /\ w.start <= f + Window /\ NoAlertIn(a, f - Window, f + Window)
       => Cardinality(TargetsIn(s, f, w.start - 1)) <= SynLimit - 1
  /\ \A f \in Nat : f + Window < w.start /\ NoAlertIn(a, f - Window, f + Window)
       => Cardinality(TargetsIn(s, f, f + Window)) <= 2 * SynLimit - 2

WindowInv(w, s, a, time) ==
  CountsSightings(w, s, time) /\ CountsAlerts(w, s, a, time) /\ FewUnlessAlerted(w, s, a)

SynLimits == /\ Window \in Nat /\ SynLimit \in Nat /\ UniqueLimit \in Nat /\ KeySlots \in Nat
             /\ 1 <= UniqueLimit /\ UniqueLimit <= SynLimit /\ UniqueLimit <= KeySlots

LEMMA SynLimitsHold == SynLimits
BY NetworkAssumption DEF SynLimits

\* A window without an alert has seen fewer targets than sightings are asked for.
LEMMA UnalertedIsSmall ==
  ASSUME NEW w, NEW s, NEW time \in Nat, CountsSightings(w, s, time), ~w.alerted
  PROVE  Cardinality(TargetsIn(s, w.start, w.start + Window)) <= SynLimit - 1
<1> DEFINE lo == w.start
           hi == w.start + Window
<1>1. lo \in Int /\ hi \in Int /\ s \in Seq(SynSightingsOf)
  BY SynLimitsHold DEF CountsSightings, Windows, SynLimits
<1>2. /\ Cardinality(PlacesIn(s, lo, hi)) \in Nat /\ Cardinality(TargetsIn(s, lo, hi)) \in Nat
      /\ Cardinality(TargetsIn(s, lo, hi)) <= Cardinality(PlacesIn(s, lo, hi))
      /\ IsFiniteSet(TargetsIn(s, lo, hi))
  <2> HIDE DEF lo, hi
  <2> QED BY <1>1, InFinite
<1>3. /\ w.syns = Cardinality(PlacesIn(s, lo, hi))
      /\ Cardinality(w.keys) < KeySlots => w.keys = TargetsIn(s, lo, hi)
      /\ w.syns < SynLimit \/ Cardinality(w.keys) < UniqueLimit
      /\ w.keys \subseteq TargetsIn(s, lo, hi)
  BY DEF CountsSightings
<1>4. Cardinality(w.keys) \in Nat
  BY <1>2, <1>3, FS_Subset, FS_CardinalityType
<1> HIDE DEF lo, hi
<1>5. CASE w.syns < SynLimit
  BY <1>2, <1>3, <1>5, SynLimitsHold DEF SynLimits, lo, hi
<1>6. CASE Cardinality(w.keys) < UniqueLimit
  <2>1. w.keys = TargetsIn(s, lo, hi)
    BY <1>3, <1>4, <1>6, SynLimitsHold DEF SynLimits
  <2> QED BY <1>2, <1>4, <1>6, <2>1, SynLimitsHold DEF SynLimits, lo, hi
<1> QED BY <1>3, <1>5, <1>6

\* No stretch of a window's length without an alert around it has seen many targets.
LEMMA FewAnywhere ==
  ASSUME NEW w, NEW s, NEW a, NEW time \in Nat, WindowInv(w, s, a, time),
         NEW f \in Nat, NoAlertIn(a, f - Window, f + Window)
  PROVE  Cardinality(TargetsIn(s, f, f + Window)) <= 2 * SynLimit - 2
<1> DEFINE S == w.start
           W == Window
           L == SynLimit
<1>0. W \in Nat /\ L \in Nat /\ L >= 1
  BY SynLimitsHold DEF SynLimits
<1>1. /\ S \in Nat /\ s \in Seq(SynSightingsOf) /\ a \in Seq(Nat) /\ w.alerted \in BOOLEAN
      /\ \A i \in DOMAIN s : s[i].at \in Nat /\ (s[i].at >= S => s[i].at <= S + W)
  <2>1. \A i \in DOMAIN s : s[i] \in SynSightingsOf
    BY ElementOf DEF WindowInv, CountsSightings
  <2> QED BY <2>1 DEF WindowInv, CountsSightings, CountsAlerts, Windows, SynSightingsOf
<1>2. \A x, y \in Int : Cardinality(TargetsIn(s, x, y)) \in Nat
  BY <1>1, InFinite
<1>3. CASE S <= f
  <2>1. CASE ~w.alerted
    <3>1. Cardinality(TargetsIn(s, f, f + W)) <= Cardinality(TargetsIn(s, S, S + W))
      <4>1. \A i \in DOMAIN s : s[i].at \in f..(f + W) => s[i].at \in S..(S + W)
        BY <1>0, <1>1, <1>3
      <4>2. f \in Int /\ f + W \in Int /\ S \in Int /\ S + W \in Int
        BY <1>0, <1>1
      <4> QED BY <1>1, <4>1, <4>2, InMore
    <3>2. Cardinality(TargetsIn(s, S, S + W)) <= L - 1
      BY <2>1, UnalertedIsSmall DEF WindowInv
    <3>3. Cardinality(TargetsIn(s, f, f + W)) \in Nat /\ Cardinality(TargetsIn(s, S, S + W)) \in Nat
      <4>1. f \in Int /\ f + W \in Int /\ S \in Int /\ S + W \in Int
        BY <1>0, <1>1
      <4> QED BY <1>2, <4>1
    <3> QED BY <1>0, <3>1, <3>2, <3>3
  <2>2. CASE w.alerted
    <3>1. Len(a) \in DOMAIN a /\ a[Len(a)] \in S..(S + W)
      BY <2>2 DEF WindowInv, CountsAlerts
    <3>2. a[Len(a)] \notin (f - W)..(f + W)
      BY <3>1 DEF NoAlertIn
    <3>3. S + W < f
      BY <1>0, <1>1, <1>3, <3>1, <3>2
    <3>4. \A i \in DOMAIN s : s[i].at \notin f..(f + W)
      BY SMTT(30), <1>0, <1>1, <3>3
    <3>5. Cardinality(TargetsIn(s, f, f + W)) = 0
      BY SMTT(30), <1>0, <1>1, <3>4, InNothing
    <3> QED BY <1>0, <3>5
  <2> QED BY <1>1, <2>1, <2>2
<1>4. CASE f < S /\ S <= f + W
  <2> DEFINE A == TargetsIn(s, f, S - 1)
             B == TargetsIn(s, S, f + W)
  <2>1. NoAlertIn(a, S, f + W)
    <3>1. \A x \in S..(f + W) : x \in (f - W)..(f + W)
      BY <1>0, <1>1, <1>4
    <3> QED BY <3>1 DEF NoAlertIn
  <2>2. f + W \in Nat /\ f \in Nat
    BY <1>0
  <2>3. Cardinality(B) <= L - 1
    BY <1>4, <2>1, <2>2 DEF WindowInv, FewUnlessAlerted
  <2>4. Cardinality(A) <= L - 1
    BY <1>4 DEF WindowInv, FewUnlessAlerted
  <2>5. IsFiniteSet(A) /\ IsFiniteSet(B) /\ Cardinality(A) \in Nat /\ Cardinality(B) \in Nat
    BY <1>1, <2>2, InFinite
  <2>6. TargetsIn(s, f, f + W) \subseteq A \union B
    <3>1. \A i \in DOMAIN s : s[i].at \in f..(f + W) => s[i].at \in f..(S - 1) \/ s[i].at \in S..(f + W)
      BY <1>0, <1>1
    <3>2. PlacesIn(s, f, f + W) \subseteq PlacesIn(s, f, S - 1) \union PlacesIn(s, S, f + W)
      BY <3>1 DEF PlacesIn
    <3> QED BY <3>2 DEF TargetsIn
  <2> HIDE DEF A, B
  <2>7. IsFiniteSet(A \union B) /\ IsFiniteSet(A \intersect B)
        /\ Cardinality(A \union B) = Cardinality(A) + Cardinality(B) - Cardinality(A \intersect B)
    BY <2>5, FS_Union, FS_Intersection
  <2>8. Cardinality(A \intersect B) \in Nat /\ Cardinality(A \union B) \in Nat
    BY <2>7, FS_CardinalityType
  <2>9. Cardinality(TargetsIn(s, f, f + W)) <= Cardinality(A \union B)
    BY <2>6, <2>7, FS_Subset
  <2>10. Cardinality(TargetsIn(s, f, f + W)) \in Nat
    BY <1>2, <2>2
  <2> QED BY <1>0, <2>3, <2>4, <2>5, <2>7, <2>8, <2>9, <2>10
<1>5. CASE f + W < S
  BY <1>5 DEF WindowInv, FewUnlessAlerted
<1> QED BY <1>0, <1>1, <1>3, <1>4, <1>5

\* What the three parts of the invariant say of the types.
LEMMA WindowTypes ==
  ASSUME NEW w, NEW s, NEW a, NEW time \in Nat, WindowInv(w, s, a, time)
  PROVE  /\ w.start \in Nat /\ w.start <= time /\ w.syns \in Nat /\ w.alerted \in BOOLEAN
         /\ s \in Seq(SynSightingsOf) /\ a \in Seq(Nat) /\ Len(a) \in Nat
         /\ \A i \in DOMAIN s : s[i].at \in Nat /\ s[i].at <= time
                                /\ (s[i].at >= w.start => s[i].at <= w.start + Window)
         /\ \A i \in DOMAIN a : i \in Nat /\ a[i] \in Nat /\ a[i] <= time
<1>1. \A i \in DOMAIN s : s[i] \in SynSightingsOf
  BY ElementOf DEF WindowInv, CountsSightings
<1>2. \A i \in DOMAIN a : a[i] \in Nat
  BY ElementOf DEF WindowInv, CountsAlerts
<1> QED BY <1>1, <1>2 DEF WindowInv, CountsSightings, CountsAlerts, Windows, SynSightingsOf

\* A window that is over gives way to an empty one.
LEMMA RenewedWindow ==
  ASSUME NEW w, NEW s, NEW a, NEW time \in Nat, WindowInv(w, s, a, time),
         time - w.start > Window
  PROVE  WindowInv(FreshWindow(time), s, a, time)
<1> DEFINE S == w.start
           W == Window
           L == SynLimit
           F == FreshWindow(time)
<1>0. W \in Nat /\ L \in Nat /\ L >= 1 /\ UniqueLimit \in Nat
  BY SynLimitsHold DEF SynLimits
<1>1. /\ S \in Nat /\ S <= time /\ w.alerted \in BOOLEAN
      /\ s \in Seq(SynSightingsOf) /\ a \in Seq(Nat) /\ Len(a) \in Nat
      /\ \A i \in DOMAIN s : s[i].at \in Nat /\ s[i].at <= time /\ (s[i].at >= S => s[i].at <= S + W)
      /\ \A i \in DOMAIN a : i \in Nat /\ a[i] \in Nat /\ a[i] <= time
  BY WindowTypes
<1>2. F \in Windows /\ F.start = time /\ F.syns = 0 /\ F.keys = {} /\ F.alerted = FALSE
  BY DEF FreshWindow, Windows
<1>3. S + W < time
  BY <1>0, <1>1
<1>4. \A i \in DOMAIN s : s[i].at < time
  <2> SUFFICES ASSUME NEW i \in DOMAIN s PROVE s[i].at < time
    OBVIOUS
  <2>1. s[i].at \in Nat /\ s[i].at <= time /\ (s[i].at >= S => s[i].at <= S + W)
    BY <1>1
  <2> QED BY <1>0, <1>1, <1>3, <2>1
<1>5. /\ \A i \in DOMAIN a : i < Len(a) \/ ~w.alerted => a[i] < S
      /\ w.alerted => Len(a) \in DOMAIN a /\ a[Len(a)] \in S..(S + W)
  BY DEF WindowInv, CountsAlerts
<1> HIDE DEF F
<1>6. CountsSightings(F, s, time)
  <2>1. \A i \in DOMAIN s : s[i].at \notin time..(time + W)
    BY <1>0, <1>1, <1>4
  <2>2. /\ Cardinality(PlacesIn(s, time, time + W)) = 0 /\ TargetsIn(s, time, time + W) = {}
    BY <1>0, <1>1, <2>1, InNothing
  <2>3. \A i \in DOMAIN s : s[i].at <= time /\ (s[i].at >= time => s[i].at <= time + W)
    BY <1>0, <1>1, <1>4
  <2>4. 0 < L
    BY <1>0
  <2> QED BY <1>1, <1>2, <2>2, <2>3, <2>4 DEF CountsSightings
<1>7. CountsAlerts(F, s, a, time)
  <2>1. \A i \in DOMAIN a : a[i] < time
    <3>1. ASSUME NEW i \in DOMAIN a PROVE a[i] < time
      <4>1. i <= Len(a)
        BY <1>1
      <4> QED BY <1>0, <1>1, <1>3, <1>5, <4>1
    <3> QED BY <3>1
  <2>2. \A i \in DOMAIN a : i < Len(a) - 1 \/ i < Len(a) => a[i] + W < time
    BY <1>0, <1>1, <1>3, <1>5
  <2>3. /\ \A i, j \in DOMAIN a : j >= i + 2 => a[j] - a[i] > W
        /\ \A i \in DOMAIN a : /\ Cardinality(PlacesIn(s, a[i] - W, a[i])) >= L
                               /\ Cardinality(TargetsIn(s, a[i] - W, a[i])) >= UniqueLimit
    BY DEF WindowInv, CountsAlerts
  <2> QED BY <1>1, <1>2, <2>1, <2>2, <2>3 DEF CountsAlerts
<1>8. FewUnlessAlerted(F, s, a)
  <2>1. ASSUME NEW t \in Nat, t >= time
        PROVE  Cardinality(TargetsIn(s, time, t)) <= L - 1
    <3>1. \A i \in DOMAIN s : s[i].at \notin time..t
      BY <1>1, <1>4
    <3>2. Cardinality(TargetsIn(s, time, t)) = 0
      BY <1>1, <3>1, InNothing
    <3> QED BY <1>0, <3>2
  <2>2. ASSUME NEW f \in Nat, f < time, time <= f + W, NoAlertIn(a, f - W, f + W)
        PROVE  Cardinality(TargetsIn(s, f, time - 1)) <= L - 1
    <3>0. f \in Int /\ time - 1 \in Int /\ S \in Int /\ S + W \in Int
      BY <1>0, <1>1
    <3>1. S < f
      BY <1>0, <1>1, <1>3, <2>2
    <3>2. CASE ~w.alerted
      <4>1. \A i \in DOMAIN s : s[i].at \in f..(time - 1) => s[i].at \in S..(S + W)
        BY <1>0, <1>1, <3>1
      <4>2. Cardinality(TargetsIn(s, f, time - 1)) <= Cardinality(TargetsIn(s, S, S + W))
        BY <1>1, <3>0, <4>1, InMore
      <4>3. Cardinality(TargetsIn(s, S, S + W)) <= L - 1
        BY <3>2, UnalertedIsSmall DEF WindowInv
      <4>4. /\ Cardinality(TargetsIn(s, f, time - 1)) \in Nat
            /\ Cardinality(TargetsIn(s, S, S + W)) \in Nat
        BY <1>1, <3>0, InFinite
      <4> QED BY <1>0, <4>2, <4>3, <4>4
    <3>3. CASE w.alerted
      <4>1. a[Len(a)] \notin (f - W)..(f + W)
        BY <1>5, <2>2, <3>3 DEF NoAlertIn
      <4>2. S + W < f
        BY <1>0, <1>1, <1>3, <1>5, <2>2, <3>3, <4>1
      <4>3. \A i \in DOMAIN s : s[i].at \notin f..(time - 1)
        <5> SUFFICES ASSUME NEW i \in DOMAIN s PROVE s[i].at \notin f..(time - 1)
          OBVIOUS
        <5>1. s[i].at \in Nat /\ s[i].at <= time /\ (s[i].at >= S => s[i].at <= S + W)
          BY <1>1
        <5> QED BY <1>0, <1>1, <3>1, <4>2, <5>1
      <4>4. Cardinality(TargetsIn(s, f, time - 1)) = 0
        BY <1>1, <3>0, <4>3, InNothing
      <4> QED BY <1>0, <4>4
    <3> QED BY <1>1, <3>2, <3>3
  <2>3. ASSUME NEW f \in Nat, NoAlertIn(a, f - W, f + W)
        PROVE  Cardinality(TargetsIn(s, f, f + W)) <= 2 * L - 2
    BY <2>3, FewAnywhere
  <2> QED BY <1>2, <2>1, <2>2, <2>3 DEF FewUnlessAlerted
<1> QED BY <1>6, <1>7, <1>8 DEF WindowInv, F

\* The window n after a sighting of target t that al says is alerted on.
LEMMA CountedSighting ==
  ASSUME NEW w, NEW s, NEW a, NEW time \in Nat, WindowInv(w, s, a, time),
         time <= w.start + Window, NEW t \in Targets, NEW n \in Windows, NEW al \in BOOLEAN,
         n.start = w.start, n.syns = w.syns + 1,
         Cardinality(w.keys) < KeySlots => n.keys = w.keys \union {t},
         ~(Cardinality(w.keys) < KeySlots) => n.keys = w.keys,
         al <=> ~w.alerted /\ Cardinality(n.keys) >= UniqueLimit /\ n.syns >= SynLimit,
         n.alerted <=> w.alerted \/ al
  PROVE  CountsSightings(n, Append(s, [target |-> t, at |-> time]), time)
<1> DEFINE S == w.start
           W == Window
           r == [target |-> t, at |-> time]
           s2 == Append(s, r)
<1>0. W \in Nat /\ SynLimit \in Nat /\ UniqueLimit \in Nat /\ KeySlots \in Nat
  BY SynLimitsHold DEF SynLimits
<1>1. /\ S \in Nat /\ S <= time /\ w.syns \in Nat /\ w.alerted \in BOOLEAN
      /\ s \in Seq(SynSightingsOf)
      /\ \A i \in DOMAIN s : s[i].at \in Nat /\ s[i].at <= time /\ (s[i].at >= S => s[i].at <= S + W)
  BY WindowTypes
<1>2. /\ w.syns = Cardinality(PlacesIn(s, S, S + W))
      /\ w.keys \subseteq TargetsIn(s, S, S + W)
      /\ Cardinality(w.keys) < KeySlots => w.keys = TargetsIn(s, S, S + W)
  BY DEF WindowInv, CountsSightings
<1>3. r \in SynSightingsOf /\ r.at = time /\ r.target = t
  BY DEF SynSightingsOf
<1>4. S \in Int /\ S + W \in Int /\ time \in S..(S + W)
  BY <1>0, <1>1
<1> HIDE DEF r
<1>5. /\ s2 \in Seq(SynSightingsOf)
      /\ Cardinality(PlacesIn(s2, S, S + W)) = w.syns + 1
      /\ TargetsIn(s2, S, S + W) = TargetsIn(s, S, S + W) \union {t}
  BY <1>1, <1>2, <1>3, <1>4, InAppend
<1>6. \A i \in DOMAIN s2 : s2[i].at <= time /\ (s2[i].at >= S => s2[i].at <= S + W)
  <2>1. \A i \in DOMAIN s2 : (i \in DOMAIN s /\ s2[i] = s[i]) \/ s2[i] = r
    BY <1>1, <1>3, AppendProperties
  <2> QED BY SMTT(30), <1>0, <1>1, <1>3, <1>4, <2>1
<1> HIDE DEF s2
<1>7. n.keys \subseteq TargetsIn(s2, S, S + W) /\ w.keys \subseteq n.keys
  BY <1>2, <1>5
<1>8. /\ Cardinality(w.keys) \in Nat /\ Cardinality(n.keys) \in Nat
      /\ Cardinality(w.keys) <= Cardinality(n.keys)
  <2>1. IsFiniteSet(TargetsIn(s2, S, S + W))
    BY <1>4, <1>5, InFinite
  <2>2. IsFiniteSet(n.keys)
    BY <1>7, <2>1, FS_Subset
  <2> QED BY <1>7, <2>2, FS_Subset, FS_CardinalityType
<1>9. Cardinality(n.keys) < KeySlots => n.keys = TargetsIn(s2, S, S + W)
  BY <1>0, <1>2, <1>5, <1>8
<1>10. ~n.alerted => n.syns < SynLimit \/ Cardinality(n.keys) < UniqueLimit
  BY <1>0, <1>1, <1>8
<1>11. CountsSightings(n, s2, time)
  BY <1>1, <1>5, <1>6, <1>7, <1>9, <1>10 DEF CountsSightings
<1> QED BY <1>11 DEF s2, r

\* Every alert after it is for the sightings of its own window, and alerts keep their distance.
LEMMA CountedAlert ==
  ASSUME NEW w, NEW s, NEW a, NEW time \in Nat, WindowInv(w, s, a, time),
         time <= w.start + Window, NEW t \in Targets, NEW n \in Windows, NEW al \in BOOLEAN, NEW b,
         n.start = w.start,
         al <=> ~w.alerted /\ Cardinality(n.keys) >= UniqueLimit /\ n.syns >= SynLimit,
         n.alerted <=> w.alerted \/ al,
         al => b = Append(a, time), ~al => b = a,
         CountsSightings(n, Append(s, [target |-> t, at |-> time]), time)
  PROVE  CountsAlerts(n, Append(s, [target |-> t, at |-> time]), b, time)
<1> DEFINE S == w.start
           W == Window
           r == [target |-> t, at |-> time]
           s2 == Append(s, r)
           Enough(u, x) == /\ Cardinality(PlacesIn(u, x - W, x)) >= SynLimit
                           /\ Cardinality(TargetsIn(u, x - W, x)) >= UniqueLimit
<1>0. W \in Nat /\ SynLimit \in Nat /\ UniqueLimit \in Nat
  BY SynLimitsHold DEF SynLimits
<1>1. /\ S \in Nat /\ S <= time /\ w.alerted \in BOOLEAN
      /\ s \in Seq(SynSightingsOf) /\ a \in Seq(Nat) /\ Len(a) \in Nat
      /\ \A i \in DOMAIN a : i \in Nat /\ a[i] \in Nat /\ a[i] <= time
  BY WindowTypes
<1>2. /\ \A i \in DOMAIN a : i < Len(a) \/ ~w.alerted => a[i] < S
      /\ \A i \in DOMAIN a : i < Len(a) - 1 \/ (i < Len(a) /\ ~w.alerted) => a[i] + W < S
      /\ \A i, j \in DOMAIN a : j >= i + 2 => a[j] - a[i] > W
      /\ \A i \in DOMAIN a : Enough(s, a[i])
      /\ w.alerted => Len(a) > 0 /\ a[Len(a)] \in S..(S + W)
  BY DEF WindowInv, CountsAlerts
<1>3. r \in SynSightingsOf /\ s2 \in Seq(SynSightingsOf)
  BY <1>1, AppendProperties DEF SynSightingsOf
<1>4. \A i \in DOMAIN a : Enough(s2, a[i])
  <2> SUFFICES ASSUME NEW i \in DOMAIN a PROVE Enough(s2, a[i])
    OBVIOUS
  <2>1. a[i] \in Int /\ a[i] - W \in Int
    BY <1>0, <1>1
  <2> DEFINE lo == a[i] - W
             hi == a[i]
  <2>2. lo \in Int /\ hi \in Int
    BY <2>1
  <2>3. Cardinality(PlacesIn(s, lo, hi)) >= SynLimit /\ Cardinality(TargetsIn(s, lo, hi)) >= UniqueLimit
    BY <1>2
  <2> HIDE DEF lo, hi, r
  <2>4. /\ Cardinality(PlacesIn(s, lo, hi)) <= Cardinality(PlacesIn(s2, lo, hi))
        /\ Cardinality(TargetsIn(s, lo, hi)) <= Cardinality(TargetsIn(s2, lo, hi))
    BY <1>1, <1>3, <2>2, InAppend
  <2> HIDE DEF s2
  <2>5. /\ Cardinality(PlacesIn(s, lo, hi)) \in Nat /\ Cardinality(PlacesIn(s2, lo, hi)) \in Nat
        /\ Cardinality(TargetsIn(s, lo, hi)) \in Nat /\ Cardinality(TargetsIn(s2, lo, hi)) \in Nat
    BY <1>1, <1>3, <2>2, InFinite
  <2> QED BY <1>0, <2>3, <2>4, <2>5 DEF lo, hi
<1>5. CASE ~al
  <2>1. b = a /\ (n.alerted <=> w.alerted)
    BY <1>5
  <2> HIDE DEF Enough, r, s2
  <2>2. \A i \in DOMAIN a : Enough(s2, a[i])
    BY <1>4
  <2> QED BY <1>1, <1>2, <2>1, <2>2 DEF CountsAlerts, Enough, s2, r
<1>6. CASE al
  <2>1. ~w.alerted /\ n.alerted /\ Cardinality(n.keys) >= UniqueLimit /\ n.syns >= SynLimit
    BY SMTT(30), <1>6
  <2>2. /\ b \in Seq(Nat) /\ Len(b) = Len(a) + 1 /\ b[Len(b)] = time
        /\ DOMAIN b = 1..(Len(a) + 1) /\ DOMAIN a = 1..Len(a)
        /\ \A i \in 1..Len(a) : b[i] = a[i]
    <3>1. b = Append(a, time)
      BY <1>6
    <3>2. /\ Append(a, time) \in Seq(Nat) /\ Len(Append(a, time)) = Len(a) + 1
          /\ Append(a, time)[Len(a) + 1] = time
          /\ \A i \in 1..Len(a) : Append(a, time)[i] = a[i]
      BY <1>1, AppendProperties
    <3>3. DOMAIN a = 1..Len(a) /\ DOMAIN b = 1..Len(b)
      BY <1>1, <3>1, <3>2
    <3> QED BY <3>1, <3>2, <3>3
  <2>3. Enough(s2, time)
    <3> DEFINE lo == time - W
    <3>1. /\ n.syns = Cardinality(PlacesIn(s2, S, S + W))
          /\ n.keys \subseteq TargetsIn(s2, S, S + W)
          /\ \A i \in DOMAIN s2 : s2[i].at <= time
      BY DEF CountsSightings
    <3>2. S \in Int /\ S + W \in Int /\ lo \in Int /\ time \in Int /\ lo <= S
      BY <1>0, <1>1
    <3>3. \A i \in DOMAIN s2 : s2[i].at \in Nat
      <4>1. \A i \in DOMAIN s2 : s2[i] \in SynSightingsOf
        BY <1>3, ElementOf
      <4> QED BY <4>1 DEF SynSightingsOf
    <3> HIDE DEF s2, r, lo
    <3>4. \A i \in DOMAIN s2 : s2[i].at \in S..(S + W) => s2[i].at \in lo..time
      BY <1>1, <3>1, <3>2, <3>3
    <3>5. /\ Cardinality(PlacesIn(s2, S, S + W)) <= Cardinality(PlacesIn(s2, lo, time))
          /\ TargetsIn(s2, S, S + W) \subseteq TargetsIn(s2, lo, time)
      BY <1>3, <3>2, <3>4, InMore
    <3>6. IsFiniteSet(TargetsIn(s2, lo, time)) /\ Cardinality(TargetsIn(s2, lo, time)) \in Nat
          /\ Cardinality(PlacesIn(s2, S, S + W)) \in Nat /\ Cardinality(PlacesIn(s2, lo, time)) \in Nat
      BY <1>3, <3>2, InFinite
    <3>7. Cardinality(n.keys) <= Cardinality(TargetsIn(s2, lo, time)) /\ Cardinality(n.keys) \in Nat
      BY <3>1, <3>5, <3>6, FS_Subset, FS_CardinalityType
    <3> QED BY <1>0, <2>1, <3>1, <3>5, <3>6, <3>7 DEF lo
  <2>4. ASSUME NEW i \in DOMAIN a
        PROVE  a[i] < S /\ (i < Len(a) => a[i] + W < S) /\ a[i] + W < time + W
    <3>1. a[i] < S /\ (i < Len(a) => a[i] + W < S)
      BY <1>2, <2>1
    <3>2. a[i] \in Nat /\ S \in Nat /\ W \in Nat /\ S <= time
      BY <1>0, <1>1
    <3> HIDE DEF S, W
    <3> QED BY <3>1, <3>2
  <2> HIDE DEF Enough, r, s2
  <2>5. \A i \in DOMAIN b : b[i] <= time /\ Enough(s2, b[i])
    <3>1. \A i \in DOMAIN b : i \in 1..Len(a) \/ i = Len(b)
      BY <1>1, <2>2
    <3>2. time <= time
      OBVIOUS
    <3> QED BY <1>1, <1>4, <2>2, <2>3, <3>1, <3>2
  <2>6. /\ Len(b) > 0 /\ b[Len(b)] \in S..(S + W)
        /\ \A i \in DOMAIN b : i < Len(b) => b[i] < S
        /\ \A i \in DOMAIN b : i < Len(b) - 1 => b[i] + W < S
    <3>1. Len(b) \in DOMAIN b /\ Len(b) > 0
      BY <1>1, <2>2
    <3>2. time \in S..(S + W)
      BY <1>0, <1>1
    <3>3. \A i \in DOMAIN b : i < Len(b) => i \in DOMAIN a /\ i \in 1..Len(a)
      BY <1>1, <2>2
    <3>4. \A i \in DOMAIN b : i < Len(b) - 1 => i < Len(a) /\ i < Len(b)
      BY <1>1, <2>2
    <3> QED BY <2>2, <2>4, <3>1, <3>2, <3>3, <3>4
  <2>7. ASSUME NEW i \in DOMAIN b, NEW j \in DOMAIN b, j >= i + 2
        PROVE  b[j] - b[i] > W
    <3>0. i \in 1..Len(a) /\ i \in DOMAIN a /\ b[i] = a[i] /\ a[i] \in Nat
      BY SMTT(30), <1>1, <2>2, <2>7
    <3>1. CASE j = Len(b)
      <4>1. i < Len(a) /\ b[j] = time
        BY <1>1, <2>2, <2>7, <3>1
      <4>2. a[i] + W < S
        BY <2>4, <3>0, <4>1
      <4> QED BY <1>0, <1>1, <3>0, <4>1, <4>2
    <3>2. CASE j # Len(b)
      <4>1. j \in DOMAIN a /\ b[j] = a[j]
        BY <1>1, <2>2, <3>2
      <4> QED BY <1>2, <2>7, <3>0, <4>1
    <3> QED BY <3>1, <3>2
  <2> QED BY <2>1, <2>2, <2>5, <2>6, <2>7 DEF CountsAlerts, Enough, s2, r
<1> QED BY <1>5, <1>6

\* A sighting adds targets to the window it is in, and too many of them are alerted on.
LEMMA CountedFew ==
  ASSUME NEW w, NEW s, NEW a, NEW time \in Nat, WindowInv(w, s, a, time),
         NEW t \in Targets, NEW n \in Windows, NEW al \in BOOLEAN, NEW b,
         n.start = w.start,
         n.alerted <=> w.alerted \/ al,
         al => b = Append(a, time), ~al => b = a,
         CountsSightings(n, Append(s, [target |-> t, at |-> time]), time),
         CountsAlerts(n, Append(s, [target |-> t, at |-> time]), b, time)
  PROVE  FewUnlessAlerted(n, Append(s, [target |-> t, at |-> time]), b)
<1> DEFINE S == w.start
           W == Window
           L == SynLimit
           r == [target |-> t, at |-> time]
           s2 == Append(s, r)
<1>0. W \in Nat /\ L \in Nat /\ L >= 1
  BY SynLimitsHold DEF SynLimits
<1>1. /\ S \in Nat /\ S <= time /\ s \in Seq(SynSightingsOf) /\ a \in Seq(Nat) /\ Len(a) \in Nat
  BY WindowTypes
<1>2. \A lo, hi \in Int : NoAlertIn(b, lo, hi) => NoAlertIn(a, lo, hi)
  <2>1. DOMAIN a \subseteq DOMAIN b /\ \A i \in DOMAIN a : b[i] = a[i]
    <3>1. DOMAIN a = 1..Len(a) /\ DOMAIN Append(a, time) = 1..(Len(a) + 1)
          /\ \A i \in 1..Len(a) : Append(a, time)[i] = a[i]
      BY <1>1, AppendProperties
    <3>2. 1..Len(a) \subseteq 1..(Len(a) + 1)
      BY <1>1
    <3> QED BY <3>1, <3>2
  <2> QED BY <2>1 DEF NoAlertIn
<1>3. r \in SynSightingsOf /\ r.at = time /\ s2 \in Seq(SynSightingsOf)
  BY <1>1, AppendProperties DEF SynSightingsOf
<1>4. /\ \A i \in DOMAIN s2 : s2[i].at <= time /\ (s2[i].at >= S => s2[i].at <= S + W)
      /\ \A i \in DOMAIN b : b[i] <= time
      /\ n.alerted => Len(b) \in DOMAIN b /\ b[Len(b)] \in S..(S + W)
  <2>1. n.alerted => Len(b) \in DOMAIN b
    BY DEF CountsAlerts
  <2> QED BY <2>1 DEF CountsSightings, CountsAlerts
<1>5. \A i \in DOMAIN s2 : s2[i].at \in Nat
  <2>1. \A i \in DOMAIN s2 : s2[i] \in SynSightingsOf
    BY <1>3, ElementOf
  <2> QED BY <2>1 DEF SynSightingsOf
<1> HIDE DEF r
<1>6. \A lo, hi \in Int : time \notin lo..hi => TargetsIn(s2, lo, hi) = TargetsIn(s, lo, hi)
  BY <1>1, <1>3, InAppend
<1>7. ASSUME NEW u \in Nat, u >= S, NoAlertIn(b, S, u)
      PROVE  Cardinality(TargetsIn(s2, S, u)) <= L - 1
  <2>0. S \in Int /\ u \in Int /\ S + W \in Int
    BY <1>0, <1>1
  <2>1. CASE u < time
    <3>1. time \notin S..u
      BY <1>1, <2>1
    <3>2. TargetsIn(s2, S, u) = TargetsIn(s, S, u)
      BY <1>6, <2>0, <3>1
    <3>3. NoAlertIn(a, S, u)
      BY <1>2, <1>7, <2>0
    <3>4. Cardinality(TargetsIn(s, S, u)) <= L - 1
      BY <1>7, <3>3 DEF WindowInv, FewUnlessAlerted
    <3> QED BY <3>2, <3>4
  <2>2. CASE u >= time
    <3>1. ~n.alerted
      <4> SUFFICES ASSUME n.alerted PROVE FALSE
        OBVIOUS
      <4>1. Len(b) \in DOMAIN b /\ b[Len(b)] \in S..(S + W) /\ b[Len(b)] <= time
        BY <1>4
      <4>2. b[Len(b)] \in S..u
        BY <1>0, <1>1, <2>2, <4>1
      <4> QED BY <1>7, <4>1, <4>2 DEF NoAlertIn
    <3>2. Cardinality(TargetsIn(s2, S, S + W)) <= L - 1
      BY <3>1, UnalertedIsSmall DEF s2, r
    <3> HIDE DEF s2
    <3>3. \A i \in DOMAIN s2 : s2[i].at \in S..u => s2[i].at \in S..(S + W)
      BY <1>0, <1>1, <1>4, <1>5
    <3>4. Cardinality(TargetsIn(s2, S, u)) <= Cardinality(TargetsIn(s2, S, S + W))
      BY <1>3, <2>0, <3>3, InMore
    <3>5. Cardinality(TargetsIn(s2, S, u)) \in Nat /\ Cardinality(TargetsIn(s2, S, S + W)) \in Nat
      BY <1>3, <2>0, InFinite
    <3> QED BY <1>0, <3>2, <3>4, <3>5
  <2> QED BY <2>1, <2>2
<1>8. ASSUME NEW f \in Nat, f < S, S <= f + W, NoAlertIn(b, f - W, f + W)
      PROVE  Cardinality(TargetsIn(s2, f, S - 1)) <= L - 1
  <2>1. f \in Int /\ S - 1 \in Int /\ f - W \in Int /\ f + W \in Int /\ time \notin f..(S - 1)
    BY <1>0, <1>1
  <2>2. TargetsIn(s2, f, S - 1) = TargetsIn(s, f, S - 1)
    BY <1>6, <2>1
  <2>3. NoAlertIn(a, f - W, f + W)
    BY <1>2, <1>8, <2>1
  <2>4. Cardinality(TargetsIn(s, f, S - 1)) <= L - 1
    BY <1>8, <2>3 DEF WindowInv, FewUnlessAlerted
  <2> QED BY <2>2, <2>4
<1>9. ASSUME NEW f \in Nat, f + W < S, NoAlertIn(b, f - W, f + W)
      PROVE  Cardinality(TargetsIn(s2, f, f + W)) <= 2 * L - 2
  <2>1. f \in Int /\ f - W \in Int /\ f + W \in Int /\ time \notin f..(f + W)
    BY <1>0, <1>1, <1>9
  <2>2. TargetsIn(s2, f, f + W) = TargetsIn(s, f, f + W)
    BY <1>6, <2>1
  <2>3. NoAlertIn(a, f - W, f + W)
    BY <1>2, <1>9, <2>1
  <2>4. Cardinality(TargetsIn(s, f, f + W)) <= 2 * L - 2
    BY <1>9, <2>3 DEF WindowInv, FewUnlessAlerted
  <2> QED BY <2>2, <2>4
<1>10. FewUnlessAlerted(n, s2, b)
  BY <1>7, <1>8, <1>9 DEF FewUnlessAlerted
<1> QED BY <1>10 DEF s2, r

LEMMA EmptyWindow ==
  ASSUME NEW time \in Nat
  PROVE  WindowInv(FreshWindow(time), <<>>, <<>>, time)
<1> DEFINE F == FreshWindow(time)
<1>0. Window \in Nat /\ SynLimit \in Nat /\ SynLimit >= 1 /\ 0 < SynLimit
  BY SynLimitsHold DEF SynLimits
<1>1. F \in Windows /\ F.start = time /\ F.syns = 0 /\ F.keys = {} /\ F.alerted = FALSE
  BY DEF FreshWindow, Windows
<1>2. /\ <<>> \in Seq(SynSightingsOf) /\ <<>> \in Seq(Nat) /\ DOMAIN <<>> = {} /\ Len(<<>>) = 0
  OBVIOUS
<1>3. \A lo, hi \in Int : /\ Cardinality(PlacesIn(<<>>, lo, hi)) = 0
                          /\ TargetsIn(<<>>, lo, hi) = {} /\ Cardinality(TargetsIn(<<>>, lo, hi)) = 0
  BY <1>2, InNothing
<1>4. time \in Int /\ time + Window \in Int /\ time <= time
  BY <1>0
<1> HIDE DEF F
<1>5. CountsSightings(F, <<>>, time)
  <2>1. /\ F.syns = Cardinality(PlacesIn(<<>>, time, time + Window))
        /\ F.keys = TargetsIn(<<>>, time, time + Window)
    BY <1>1, <1>3, <1>4
  <2> QED BY <1>0, <1>1, <1>2, <1>4, <2>1 DEF CountsSightings
<1>6. CountsAlerts(F, <<>>, <<>>, time)
  BY <1>1, <1>2 DEF CountsAlerts
<1>7. FewUnlessAlerted(F, <<>>, <<>>)
  <2>1. ASSUME NEW t \in Nat PROVE Cardinality(TargetsIn(<<>>, time, t)) <= SynLimit - 1
    BY <1>0, <1>3
  <2>2. ASSUME NEW f \in Nat
        PROVE  /\ Cardinality(TargetsIn(<<>>, f, time - 1)) <= SynLimit - 1
               /\ Cardinality(TargetsIn(<<>>, f, f + Window)) <= 2 * SynLimit - 2
    <3>1. f \in Int /\ time - 1 \in Int /\ f + Window \in Int
      BY <1>0
    <3>2. /\ Cardinality(TargetsIn(<<>>, f, time - 1)) = 0
          /\ Cardinality(TargetsIn(<<>>, f, f + Window)) = 0
      BY <1>3, <3>1
    <3> QED BY <1>0, <3>2
  <2> QED BY <1>1, <2>1, <2>2 DEF FewUnlessAlerted
<1> QED BY <1>5, <1>6, <1>7 DEF WindowInv, F

\* The clock alone disturbs nothing.
LEMMA LaterWindow ==
  ASSUME NEW w, NEW s, NEW a, NEW time \in Nat, WindowInv(w, s, a, time)
  PROVE  WindowInv(w, s, a, time + 1)
<1>1. /\ w.start \in Nat /\ w.start <= time
      /\ \A i \in DOMAIN s : s[i].at \in Nat /\ s[i].at <= time
      /\ \A i \in DOMAIN a : a[i] \in Nat /\ a[i] <= time
  BY WindowTypes
<1>2. /\ w.start <= time + 1
      /\ \A i \in DOMAIN s : s[i].at <= time + 1
      /\ \A i \in DOMAIN a : a[i] <= time + 1
  BY <1>1
<1>3. CountsSightings(w, s, time + 1)
  BY <1>2 DEF WindowInv, CountsSightings
<1>4. CountsAlerts(w, s, a, time + 1)
  BY <1>2 DEF WindowInv, CountsAlerts
<1> QED BY <1>3, <1>4 DEF WindowInv

\* One sighting, whether the window goes on, is over or is the first one.
LEMMA SightedWindow ==
  ASSUME NEW w, NEW s, NEW a, NEW time \in Nat, WindowInv(w, s, a, time),
         time <= w.start + Window, NEW t \in Targets, NEW n \in Windows, NEW al \in BOOLEAN, NEW b,
         n.start = w.start, n.syns = w.syns + 1,
         Cardinality(w.keys) < KeySlots => n.keys = w.keys \union {t},
         ~(Cardinality(w.keys) < KeySlots) => n.keys = w.keys,
         al <=> ~w.alerted /\ Cardinality(n.keys) >= UniqueLimit /\ n.syns >= SynLimit,
         n.alerted <=> w.alerted \/ al,
         al => b = Append(a, time), ~al => b = a
  PROVE  WindowInv(n, Append(s, [target |-> t, at |-> time]), b, time)
<1>1. CountsSightings(n, Append(s, [target |-> t, at |-> time]), time)
  BY CountedSighting
<1>2. CountsAlerts(n, Append(s, [target |-> t, at |-> time]), b, time)
  BY <1>1, CountedAlert
<1>3. FewUnlessAlerted(n, Append(s, [target |-> t, at |-> time]), b)
  BY <1>1, <1>2, CountedFew
<1> QED BY <1>1, <1>2, <1>3 DEF WindowInv

-----------------------------------------------------------------------------
(***************************************************************************)
(* All windows                                                             *)
(***************************************************************************)
SynInv ==
  /\ stime \in Nat
  /\ stracked \subseteq Pids
  /\ swindow \in [Pids -> Windows]
  /\ ssightings \in [Pids -> Seq(SynSightingsOf)]
  /\ salerts \in [Pids -> Seq(Nat)]
  /\ \A p \in Pids : WindowInv(swindow[p], ssightings[p], salerts[p], stime)
  /\ \A p \in Pids \ stracked : ssightings[p] = <<>> /\ salerts[p] = <<>>

LEMMA SynInit == Syns!Init => SynInv
<1> SUFFICES ASSUME Syns!Init PROVE SynInv
  OBVIOUS
<1>1. /\ stime = 0 /\ stracked = {}
      /\ swindow = [p \in Pids |-> FreshWindow(0)]
      /\ ssightings = [p \in Pids |-> <<>>] /\ salerts = [p \in Pids |-> <<>>]
  BY DEF Syns!Init, Syns!Fresh, FreshWindow
<1>2. WindowInv(FreshWindow(0), <<>>, <<>>, 0)
  BY EmptyWindow
<1>3. FreshWindow(0) \in Windows
  BY DEF FreshWindow, Windows
<1> QED BY <1>1, <1>2, <1>3 DEF SynInv

\* SynScan takes Cardinality from FiniteSets through its instance.
LEMMA SameCardinality == \A S : Syns!Cardinality(S) = Cardinality(S)
BY DEF Syns!Cardinality, Cardinality

LEMMA SynSentInv ==
  ASSUME SynInv, NEW p \in Pids, NEW t \in Targets, Syns!SynSent(p, t)
  PROVE  SynInv'
<1> DEFINE old == IF p \in stracked THEN swindow[p] ELSE Syns!Fresh
           w == Syns!Current(old)
           c == Syns!Counted(w, t)
           al == Syns!Alerts(c)
           n == [c EXCEPT !.alerted = @ \/ al]
           r == [target |-> t, at |-> stime]
           b == IF al THEN Append(salerts[p], stime) ELSE salerts[p]
<1>1. /\ stime' = stime
      /\ stracked' = stracked \union {p}
      /\ swindow' = [swindow EXCEPT ![p] = n]
      /\ salerts' = IF al THEN [salerts EXCEPT ![p] = Append(@, stime)] ELSE salerts
      /\ ssightings' = [ssightings EXCEPT ![p] = Append(@, r)]
  BY DEF Syns!SynSent
<1>2. /\ stime \in Nat /\ stracked \subseteq Pids
      /\ swindow \in [Pids -> Windows]
      /\ ssightings \in [Pids -> Seq(SynSightingsOf)] /\ salerts \in [Pids -> Seq(Nat)]
      /\ \A q \in Pids : WindowInv(swindow[q], ssightings[q], salerts[q], stime)
      /\ \A q \in Pids \ stracked : ssightings[q] = <<>> /\ salerts[q] = <<>>
  BY DEF SynInv
<1>3. Window \in Nat
  BY SynLimitsHold DEF SynLimits
<1>4. Syns!Fresh = FreshWindow(stime) /\ FreshWindow(stime).start = stime
  BY DEF Syns!Fresh, FreshWindow
<1>5. WindowInv(w, ssightings[p], salerts[p], stime) /\ stime <= w.start + Window
  <2>1. CASE p \notin stracked
    <3>1. w = FreshWindow(stime)
      BY <1>4, <2>1 DEF Syns!Current
    <3>2. ssightings[p] = <<>> /\ salerts[p] = <<>>
      BY <1>2, <2>1
    <3> HIDE DEF w
    <3> QED BY <1>2, <1>3, <1>4, <3>1, <3>2, EmptyWindow
  <2>2. CASE p \in stracked /\ stime - swindow[p].start > Window
    <3>1. w = FreshWindow(stime)
      BY <1>4, <2>2 DEF Syns!Current
    <3> HIDE DEF w
    <3>2. WindowInv(FreshWindow(stime), ssightings[p], salerts[p], stime)
      BY <1>2, <2>2, RenewedWindow
    <3> QED BY <1>2, <1>3, <1>4, <3>1, <3>2
  <2>3. CASE p \in stracked /\ ~(stime - swindow[p].start > Window)
    <3>1. w = swindow[p]
      BY <2>3 DEF Syns!Current
    <3> HIDE DEF w
    <3>2. swindow[p].start \in Nat
      BY <1>2 DEF Windows
    <3> QED BY <1>2, <1>3, <2>3, <3>1, <3>2
  <2> QED BY <2>1, <2>2, <2>3
<1>6. w \in Windows
  BY <1>5 DEF WindowInv, CountsSightings
<1> HIDE DEF old, w
<1>7. /\ c \in Windows /\ c.start = w.start /\ c.syns = w.syns + 1 /\ (c.alerted <=> w.alerted)
      /\ Cardinality(w.keys) < KeySlots => c.keys = w.keys \union {t}
      /\ ~(Cardinality(w.keys) < KeySlots) => c.keys = w.keys
  <2> DEFINE K == IF Cardinality(w.keys) < KeySlots THEN w.keys \union {t} ELSE w.keys
  <2>1. c = [w EXCEPT !.syns = w.syns + 1, !.keys = K]
    BY SameCardinality DEF Syns!Counted
  <2>2. K \in SUBSET Targets
    BY <1>6 DEF Windows
  <2>3. /\ Cardinality(w.keys) < KeySlots => K = w.keys \union {t}
        /\ ~(Cardinality(w.keys) < KeySlots) => K = w.keys
    OBVIOUS
  <2> HIDE DEF K, c
  <2>4. /\ c \in Windows /\ c.start = w.start /\ c.syns = w.syns + 1 /\ (c.alerted <=> w.alerted)
        /\ c.keys = K
    <3>1. /\ w = [start |-> w.start, syns |-> w.syns, keys |-> w.keys, alerted |-> w.alerted]
          /\ w.start \in Nat /\ w.syns \in Nat /\ w.alerted \in BOOLEAN
      BY <1>6 DEF Windows
    <3>2. c = [start |-> w.start, syns |-> w.syns + 1, keys |-> K, alerted |-> w.alerted]
      BY <2>1, <3>1
    <3>3. w.syns + 1 \in Nat
      BY <3>1
    <3>4. c \in Windows
      BY <2>2, <3>1, <3>2, <3>3 DEF Windows
    <3> QED BY <3>2, <3>4
  <2> QED BY <2>3, <2>4
<1>8. al \in BOOLEAN /\ (al <=> ~c.alerted /\ Cardinality(c.keys) >= UniqueLimit /\ c.syns >= SynLimit)
  BY SameCardinality DEF Syns!Alerts
<1> HIDE DEF c, al
<1>9. n \in Windows /\ n.start = c.start /\ n.syns = c.syns /\ n.keys = c.keys
      /\ (n.alerted <=> c.alerted \/ al)
  BY <1>7, <1>8 DEF Windows
<1>10. (al => b = Append(salerts[p], stime)) /\ (~al => b = salerts[p])
  OBVIOUS
<1> HIDE DEF n, b
<1>11. WindowInv(n, Append(ssightings[p], r), b, stime)
  BY ZenonT(60), <1>2, <1>5, <1>7, <1>8, <1>9, <1>10, SightedWindow
<1>12. salerts' = [salerts EXCEPT ![p] = b]
  BY <1>1, <1>2, <1>10
<1>13. Append(ssightings[p], r) \in Seq(SynSightingsOf) /\ b \in Seq(Nat)
  BY <1>11 DEF WindowInv, CountsSightings, CountsAlerts
<1> HIDE DEF r
<1>14. \A q \in Pids : WindowInv(swindow'[q], ssightings'[q], salerts'[q], stime')
  <2> SUFFICES ASSUME NEW q \in Pids
               PROVE  WindowInv(swindow'[q], ssightings'[q], salerts'[q], stime')
    OBVIOUS
  <2>1. CASE q = p
    <3>1. swindow'[q] = n /\ ssightings'[q] = Append(ssightings[p], r) /\ salerts'[q] = b
      BY <1>1, <1>2, <1>12, <2>1
    <3> QED BY <1>1, <1>11, <3>1
  <2>2. CASE q # p
    <3>1. swindow'[q] = swindow[q] /\ ssightings'[q] = ssightings[q] /\ salerts'[q] = salerts[q]
      BY <1>1, <1>2, <1>12, <2>2
    <3> QED BY <1>1, <1>2, <3>1
  <2> QED BY <2>1, <2>2
<1>15. \A q \in Pids \ stracked' : ssightings'[q] = <<>> /\ salerts'[q] = <<>>
  BY <1>1, <1>2, <1>12
<1> QED BY <1>1, <1>2, <1>9, <1>12, <1>13, <1>14, <1>15 DEF SynInv

LEMMA SynNext == SynInv /\ [Syns!Next]_(Syns!vars) => SynInv'
<1> SUFFICES ASSUME SynInv, [Syns!Next]_(Syns!vars) PROVE SynInv'
  OBVIOUS
<1>1. CASE Syns!Tick
  <2>1. /\ stime' = stime + 1 /\ stracked' = stracked /\ swindow' = swindow
        /\ ssightings' = ssightings /\ salerts' = salerts
    BY <1>1 DEF Syns!Tick
  <2>2. \A p \in Pids : WindowInv(swindow[p], ssightings[p], salerts[p], stime + 1)
    BY LaterWindow DEF SynInv
  <2> QED BY <2>1, <2>2 DEF SynInv
<1>2. CASE \E p \in Pids, t \in Targets : Syns!SynSent(p, t)
  BY <1>2, SynSentInv
<1>3. CASE UNCHANGED Syns!vars
  BY <1>3 DEF Syns!vars, SynInv
<1> QED BY <1>1, <1>2, <1>3 DEF Syns!Next

LEMMA SynAlways == NetworkSpec => []SynInv
<1>1. Syns!Spec => []SynInv
  BY SynInit, SynNext, PTL DEF Syns!Spec
<1> QED BY <1>1, NetworkIsSyns, PTL

-----------------------------------------------------------------------------
(***************************************************************************)
(* What the windows promise                                                *)
(***************************************************************************)
LEMMA SynStretches ==
  \A p, lo, hi : /\ Syns!Between(p, lo, hi) = PlacesIn(ssightings[p], lo, hi)
                 /\ Syns!TargetsOf(p, Syns!Between(p, lo, hi)) = TargetsIn(ssightings[p], lo, hi)
BY DEF Syns!Between, Syns!TargetsOf, PlacesIn, TargetsIn

\* An alert is for sightings of one window, and of three alerts the last is a window after the first.
THEOREM SynAlertsAreForOneWindow == NetworkSpec => []AlertIsForOneWindow
<1>1. SynInv => AlertIsForOneWindow
  <2> SUFFICES ASSUME SynInv, NEW p \in Pids, NEW i \in DOMAIN salerts[p]
               PROVE  LET recent == Syns!Between(p, salerts[p][i] - Window, salerts[p][i])
                      IN  /\ Syns!Cardinality(recent) >= SynLimit
                          /\ Syns!Cardinality(Syns!TargetsOf(p, recent)) >= UniqueLimit
                          /\ \A j \in DOMAIN salerts[p] :
                               j >= i + 2 => salerts[p][j] - salerts[p][i] > Window
    BY DEF AlertIsForOneWindow, Syns!AlertIsForOneWindow
  <2>1. CountsAlerts(swindow[p], ssightings[p], salerts[p], stime)
    BY DEF SynInv, WindowInv
  <2> QED BY <2>1, SynStretches, SameCardinality DEF CountsAlerts
<1> QED BY <1>1, SynAlways, PTL

\* A process that is seen with 2 * SynLimit - 1 targets within a window's time, wherever the seams
\* of its windows lie, is alerted on within a window of it.
THEOREM LargeScansAlert == NetworkSpec => []LargeScanAlerts
<1>1. SynInv => LargeScanAlerts
  <2> SUFFICES ASSUME SynInv, NEW p \in stracked, NEW from \in 0..stime,
                      Cardinality(TargetsIn(ssightings[p], from, from + Window)) >= 2 * SynLimit - 1
               PROVE  \E i \in DOMAIN salerts[p] :
                        salerts[p][i] \in (from - Window)..(from + Window)
    BY SynStretches, SameCardinality DEF LargeScanAlerts, Syns!LargeScanAlerts
  <2>1. p \in Pids /\ from \in Nat /\ stime \in Nat
    BY DEF SynInv
  <2>2. Window \in Nat /\ SynLimit \in Nat
    BY SynLimitsHold DEF SynLimits
  <2>3. SUFFICES ASSUME NoAlertIn(salerts[p], from - Window, from + Window) PROVE FALSE
    BY DEF NoAlertIn
  <2>4. WindowInv(swindow[p], ssightings[p], salerts[p], stime)
    BY <2>1 DEF SynInv
  <2>5. Cardinality(TargetsIn(ssightings[p], from, from + Window)) <= 2 * SynLimit - 2
    BY <2>1, <2>3, <2>4, FewAnywhere
  <2>6. Cardinality(TargetsIn(ssightings[p], from, from + Window)) \in Nat
    <3>1. ssightings[p] \in Seq(SynSightingsOf) /\ from \in Int /\ from + Window \in Int
      BY <2>1, <2>2 DEF SynInv
    <3> QED BY <3>1, InFinite
  <2> QED BY <2>2, <2>5, <2>6
<1> QED BY <1>1, SynAlways, PTL
=============================================================================
