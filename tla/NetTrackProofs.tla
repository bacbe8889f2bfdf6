---------------------------- MODULE NetTrackProofs ----------------------------
(***************************************************************************)
(* What the connection tracks of NetTrack do for all destinations,         *)
(* executables, thresholds, table and array sizes, and whatever the clock  *)
(* does.  The first part is about sums, of which averages and jitter are   *)
(* made.                                                                   *)
(***************************************************************************)
EXTENDS NetTrack, FiniteSetTheorems, SequenceTheorems, TLAPS

-----------------------------------------------------------------------------
(***************************************************************************)
(* Induction over the numbers, for sets, and sums of sequences             *)
(***************************************************************************)
\* Induction, with a set in the place of a predicate: a least number missing from S would make
\* the successor an injection of a finite set into itself that is not onto.
LEMMA NatInductionSet ==
  ASSUME NEW S, 0 \in S, \A n \in Nat : n \in S => n + 1 \in S
  PROVE  Nat \subseteq S
<1> SUFFICES ASSUME NEW m \in Nat, m \notin S PROVE FALSE
  OBVIOUS
<1> DEFINE T == {n \in 0..m : n \in S}
           f == [n \in T |-> n + 1]
<1>1. IsFiniteSet(T)
  <2>1. IsFiniteSet(0..m)
    BY FS_Interval
  <2> QED BY <2>1, FS_Subset
<1>2. \A n \in T : n + 1 \in T
  OBVIOUS
<1>3. f \in Injection(T, T)
  BY <1>2 DEF Injection, IsInjective
<1>4. f \in Surjection(T, T)
  BY <1>1, <1>3, FS_Injection
<1>5. 0 \in T
  OBVIOUS
<1>6. PICK n \in T : f[n] = 0
  BY <1>4, <1>5 DEF Surjection
<1> QED BY <1>6

\* The function that a fold over s computes: on each set of indices, the sum of its places.
IsSum(g, s) == g = [t \in SUBSET DOMAIN s |-> IF t = {} THEN 0 ELSE g[t \ {Max(t)}] + s[Max(t)]]
Sums(s) == CHOOSE g : IsSum(g, s)

\* Total, a fold from the left, is such a sum.
LEMMA TotalIsSum ==
  ASSUME NEW s
  PROVE  Total(s) = Sums(s)[DOMAIN s]
BY DEF Total, FoldLeft, MapThenFoldSet, Sums, IsSum

\* What the greatest index of a set is, and that there is one.
LEMMA MaxOf ==
  ASSUME NEW t, NEW m \in t, t \subseteq Int, \A y \in t : m >= y
  PROVE  Max(t) = m
<1>1. \A x \in t : (\A y \in t : x >= y) => x = m
  OBVIOUS
<1> QED BY <1>1 DEF Max

LEMMA MaxIn ==
  ASSUME NEW n \in Nat, NEW t \in SUBSET (1..n), t # {}
  PROVE  Max(t) \in t
<1> DEFINE S == {k \in Nat : \A u \in SUBSET (1..k) : u # {} => Max(u) \in u}
<1>1. 0 \in S
  <2>1. 1..0 = {}
    OBVIOUS
  <2> QED BY <2>1
<1>2. ASSUME NEW k \in Nat, k \in S
      PROVE  k + 1 \in S
  <2> SUFFICES ASSUME NEW u \in SUBSET (1..(k + 1)), u # {} PROVE Max(u) \in u
    OBVIOUS
  <2>1. CASE k + 1 \in u
    <3>1. u \subseteq Int /\ \A y \in u : k + 1 >= y
      OBVIOUS
    <3> QED BY <2>1, <3>1, MaxOf
  <2>2. CASE k + 1 \notin u
    <3>1. u \in SUBSET (1..k)
      BY <2>2
    <3> QED BY <1>2, <3>1
  <2> QED BY <2>1, <2>2
<1>3. Nat \subseteq S
  <2> HIDE DEF S
  <2> QED BY <1>1, <1>2, NatInductionSet
<1> QED BY <1>3

\* The fold is defined: a function for n indices is extended to one for n + 1.
LEMMA SumsExist ==
  ASSUME NEW S, NEW s \in Seq(S)
  PROVE  IsSum(Sums(s), s)
<1> DEFINE Body(g, n) == [t \in SUBSET (1..n) |-> IF t = {} THEN 0 ELSE g[t \ {Max(t)}] + s[Max(t)]]
           N == {n \in Nat : \E g : g = Body(g, n)}
<1>1. 0 \in N
  <2>1. SUBSET (1..0) = {{}}
    OBVIOUS
  <2> DEFINE g == [t \in {{}} |-> 0]
  <2>2. g = Body(g, 0)
    BY <2>1
  <2> QED BY <2>2
<1>2. ASSUME NEW n \in Nat, n \in N
      PROVE  n + 1 \in N
  <2>1. PICK g : g = Body(g, n)
    BY <1>2
  <2> DEFINE h == [t \in SUBSET (1..(n + 1)) |->
                     IF n + 1 \in t THEN g[t \ {n + 1}] + s[n + 1] ELSE g[t]]
  <2>2. ASSUME NEW t \in SUBSET (1..(n + 1))
        PROVE  h[t] = IF t = {} THEN 0 ELSE h[t \ {Max(t)}] + s[Max(t)]
    <3>1. CASE n + 1 \in t
      <4>1. Max(t) = n + 1
        <5>1. t \subseteq Int /\ \A y \in t : n + 1 >= y
          OBVIOUS
        <5> QED BY <3>1, <5>1, MaxOf
      <4>2. t \ {n + 1} \in SUBSET (1..(n + 1)) /\ n + 1 \notin t \ {n + 1}
        OBVIOUS
      <4>3. h[t \ {n + 1}] = g[t \ {n + 1}]
        BY <4>2
      <4> QED BY <3>1, <4>1, <4>3
    <3>2. CASE n + 1 \notin t
      <4>1. t \in SUBSET (1..n)
        BY <3>2
      <4>2. h[t] = g[t] /\ g[t] = IF t = {} THEN 0 ELSE g[t \ {Max(t)}] + s[Max(t)]
        BY <2>1, <3>2, <4>1
      <4>3. h[t \ {Max(t)}] = g[t \ {Max(t)}]
        BY <3>2
      <4> QED BY <4>2, <4>3
    <3> QED BY <3>1, <3>2
  <2>3. h = Body(h, n + 1)
    <3> HIDE DEF h
    <3>1. h = [t \in SUBSET (1..(n + 1)) |-> h[t]]
      BY DEF h
    <3> QED BY <2>2, <3>1
  <2>4. n + 1 \in Nat
    OBVIOUS
  <2> HIDE DEF h, Body
  <2> QED BY <2>3, <2>4
<1>3. Nat \subseteq N
  <2> HIDE DEF N
  <2> QED BY <1>1, <1>2, NatInductionSet
<1>4. DOMAIN s = 1..Len(s) /\ Len(s) \in Nat
  OBVIOUS
<1>5. \E g : IsSum(g, s)
  BY <1>3, <1>4 DEF IsSum
<1> QED BY <1>5 DEF Sums

\* The sums of its beginnings.
LEMMA SumsStep ==
  ASSUME NEW S, NEW s \in Seq(S)
  PROVE  /\ Sums(s)[{}] = 0
         /\ \A k \in 1..Len(s) : Sums(s)[1..k] = Sums(s)[1..(k - 1)] + s[k]
<1>1. DOMAIN s = 1..Len(s) /\ Len(s) \in Nat
  OBVIOUS
<1>2. \A t \in SUBSET (1..Len(s)) :
        Sums(s)[t] = IF t = {} THEN 0 ELSE Sums(s)[t \ {Max(t)}] + s[Max(t)]
  BY <1>1, SumsExist DEF IsSum
<1>3. ASSUME NEW k \in 1..Len(s)
      PROVE  Sums(s)[1..k] = Sums(s)[1..(k - 1)] + s[k]
  <2>1. k \in 1..k /\ 1..k \subseteq Int /\ \A y \in 1..k : k >= y
    BY <1>1
  <2>2. Max(1..k) = k
    BY <2>1, MaxOf
  <2>3. (1..k) \ {k} = 1..(k - 1)
    BY <1>1
  <2>4. 1..k # {}
    BY <2>1
  <2>5. 1..k \in SUBSET (1..Len(s))
    <3>1. k \in Int /\ k <= Len(s) /\ Len(s) \in Nat
      BY <1>1
    <3>2. \A y \in 1..k : y \in 1..Len(s)
      BY <3>1
    <3> QED BY <3>2
  <2> QED BY <1>2, <2>2, <2>3, <2>4, <2>5
<1> QED BY <1>2, <1>3

\* A sequence of equal numbers.
LEMMA ConstantTotal ==
  ASSUME NEW s \in Seq(Int), NEW g \in Int, \A i \in 1..Len(s) : s[i] = g
  PROVE  Total(s) = Len(s) * g
<1> DEFINE N == {k \in Nat : k <= Len(s) => Sums(s)[1..k] = k * g}
<1>1. 0 \in N
  <2>1. 1..0 = {}
    OBVIOUS
  <2> QED BY <2>1, SumsStep
<1>2. ASSUME NEW k \in Nat, k \in N
      PROVE  k + 1 \in N
  <2> SUFFICES ASSUME k + 1 <= Len(s) PROVE Sums(s)[1..(k + 1)] = (k + 1) * g
    OBVIOUS
  <2>1. k + 1 \in 1..Len(s) /\ (k + 1) - 1 = k /\ Len(s) \in Nat
    OBVIOUS
  <2>2. Sums(s)[1..(k + 1)] = Sums(s)[1..k] + s[k + 1]
    BY <2>1, SumsStep
  <2>3. Sums(s)[1..k] = k * g
    BY <1>2, <2>1
  <2>4. (k + 1) * g = k * g + g
    OBVIOUS
  <2> QED BY <2>1, <2>2, <2>3, <2>4
<1>3. Nat \subseteq N
  <2> HIDE DEF N
  <2> QED BY <1>1, <1>2, NatInductionSet
<1>4. DOMAIN s = 1..Len(s) /\ Len(s) \in Nat
  OBVIOUS
<1> QED BY <1>3, <1>4, TotalIsSum

-----------------------------------------------------------------------------
(***************************************************************************)
(* The end of a sequence, and an array that keeps it                       *)
(***************************************************************************)
LastN(s, m) == SubSeq(s, IF Len(s) > m THEN Len(s) - m + 1 ELSE 1, Len(s))

LEMMA LastNFacts ==
  ASSUME NEW S, NEW s \in Seq(S), NEW m \in Nat
  PROVE  /\ LastN(s, m) \in Seq(S)
         /\ Len(LastN(s, m)) = IF Len(s) > m THEN m ELSE Len(s)
         /\ \A i \in 1..Len(LastN(s, m)) :
              LastN(s, m)[i] = s[Len(s) - Len(LastN(s, m)) + i]
<1> DEFINE f == IF Len(s) > m THEN Len(s) - m + 1 ELSE 1
<1>1. Len(s) \in Nat /\ f \in Int /\ \A i \in f..Len(s) : s[i] \in S
  OBVIOUS
<1>2. /\ SubSeq(s, f, Len(s)) \in Seq(S)
      /\ Len(SubSeq(s, f, Len(s))) = IF f <= Len(s) THEN Len(s) - f + 1 ELSE 0
      /\ \A i \in 1..(Len(s) - f + 1) : SubSeq(s, f, Len(s))[i] = s[f + i - 1]
  <2> HIDE DEF f
  <2> QED BY <1>1, SubSeqProperties
<1>3. LastN(s, m) = SubSeq(s, f, Len(s))
  BY DEF LastN
<1> DEFINE e == SubSeq(s, f, Len(s))
<1> HIDE DEF e
<1>4. /\ e \in Seq(S) /\ Len(e) = (IF f <= Len(s) THEN Len(s) - f + 1 ELSE 0)
      /\ \A i \in 1..(Len(s) - f + 1) : e[i] = s[f + i - 1]
  <2> HIDE DEF f
  <2> QED BY <1>2 DEF e
<1>5. Len(e) = Len(s) - f + 1 /\ Len(e) = IF Len(s) > m THEN m ELSE Len(s)
  <2> HIDE DEF e
  <2>1. CASE Len(s) > m
    <3>1. f = Len(s) - m + 1
      BY <2>1
    <3> HIDE DEF f
    <3> QED BY <1>1, <1>4, <2>1, <3>1
  <2>2. CASE ~(Len(s) > m)
    <3>1. f = 1
      BY <2>2
    <3> QED BY <1>1, <1>4, <2>2, <3>1
  <2> QED BY <2>1, <2>2
<1>6. ASSUME NEW i \in 1..Len(e) PROVE e[i] = s[Len(s) - Len(e) + i]
  <2>1. f + i - 1 = Len(s) - Len(e) + i
    BY <1>1, <1>5
  <2> QED BY <1>4, <1>5, <2>1
<1> QED BY <1>3, <1>4, <1>5, <1>6 DEF e

\* Who keeps only the end of a sequence knows the end of the longer one.
LEMMA LastNTwice ==
  ASSUME NEW S, NEW s \in Seq(S), NEW x \in S, NEW m \in Nat \ {0}
  PROVE  LastN(Append(LastN(s, m), x), m) = LastN(Append(s, x), m)
<1> DEFINE e == LastN(s, m)
           l == LastN(Append(e, x), m)
           r == LastN(Append(s, x), m)
<1>1. /\ e \in Seq(S) /\ Len(e) = (IF Len(s) > m THEN m ELSE Len(s)) /\ Len(s) \in Nat
      /\ \A i \in 1..Len(e) : e[i] = s[Len(s) - Len(e) + i]
  BY LastNFacts
<1> HIDE DEF e
<1> DEFINE ex == Append(e, x)
           sx == Append(s, x)
<1>2. /\ ex \in Seq(S) /\ Len(ex) = Len(e) + 1 /\ ex[Len(e) + 1] = x
      /\ \A i \in 1..Len(e) : ex[i] = e[i]
  BY <1>1, AppendProperties
<1>3. /\ sx \in Seq(S) /\ Len(sx) = Len(s) + 1 /\ sx[Len(s) + 1] = x
      /\ \A i \in 1..Len(s) : sx[i] = s[i]
  BY AppendProperties
<1> HIDE DEF ex, sx
<1>4. /\ LastN(ex, m) \in Seq(S) /\ Len(LastN(ex, m)) = IF Len(ex) > m THEN m ELSE Len(ex)
      /\ \A i \in 1..Len(LastN(ex, m)) : LastN(ex, m)[i] = ex[Len(ex) - Len(LastN(ex, m)) + i]
  BY <1>2, LastNFacts
<1>5. /\ LastN(sx, m) \in Seq(S) /\ Len(LastN(sx, m)) = IF Len(sx) > m THEN m ELSE Len(sx)
      /\ \A i \in 1..Len(LastN(sx, m)) : LastN(sx, m)[i] = sx[Len(sx) - Len(LastN(sx, m)) + i]
  BY <1>3, LastNFacts
<1> DEFINE n == Len(LastN(ex, m))
<1>6. n = Len(LastN(sx, m)) /\ n \in Nat /\ n <= Len(e) + 1 /\ n <= Len(s) + 1 /\ Len(e) <= Len(s)
      /\ Len(e) \in Nat
  BY <1>1, <1>2, <1>3, <1>4, <1>5
<1>7. ASSUME NEW i \in 1..n
      PROVE  LastN(ex, m)[i] = LastN(sx, m)[i]
  <2>1. LastN(ex, m)[i] = ex[Len(e) + 1 - n + i]
    <3>1. Len(ex) - n + i = Len(e) + 1 - n + i
      BY <1>2
    <3> QED BY <1>4, <3>1
  <2>0. LastN(sx, m)[i] = sx[Len(s) + 1 - n + i]
    <3>1. i \in 1..Len(LastN(sx, m)) /\ Len(sx) - Len(LastN(sx, m)) + i = Len(s) + 1 - n + i
      BY <1>3, <1>6
    <3> QED BY <1>5, <3>1
  <2> HIDE DEF n
  <2>2. CASE i = n
    <3>1. Len(e) + 1 - n + i = Len(e) + 1 /\ Len(s) + 1 - n + i = Len(s) + 1
      BY <1>1, <1>6, <2>2
    <3> QED BY <1>2, <1>3, <2>0, <2>1, <3>1
  <2>3. CASE i # n
    <3> DEFINE j == Len(e) + 1 - n + i
    <3>1. j \in 1..Len(e) /\ Len(s) + 1 - n + i = Len(s) - Len(e) + j
      <4>1. n \in Nat /\ i \in 1..n /\ i # n /\ Len(e) \in Nat /\ Len(s) \in Nat /\ n <= Len(e) + 1
        BY <1>1, <1>6, <2>3 DEF n
      <4> QED BY <4>1
    <3>2. Len(s) - Len(e) + j \in 1..Len(s)
      BY <1>1, <1>6, <3>1
    <3> HIDE DEF j
    <3>3. ex[j] = s[Len(s) - Len(e) + j] /\ sx[Len(s) - Len(e) + j] = s[Len(s) - Len(e) + j]
      BY <1>1, <1>2, <1>3, <3>1, <3>2
    <3> QED BY <2>0, <2>1, <3>1, <3>3 DEF j
  <2> QED BY <2>2, <2>3
<1>8. LastN(ex, m) = LastN(sx, m)
  BY <1>4, <1>5, <1>6, <1>7, SeqEqual
<1> QED BY <1>8 DEF e, ex, sx

\* An array with a count, to which a number is added behind the others or, when it is full, after
\* all others have moved by one place.
ArrayGaps(a, c) == [i \in 1..c |-> a[i - 1]]

LEMMA NatAppend ==
  ASSUME NEW s \in Seq(Nat), NEW x \in Nat
  PROVE  /\ Append(s, x) \in Seq(Nat) /\ Len(Append(s, x)) = Len(s) + 1
         /\ Append(s, x)[Len(s) + 1] = x
         /\ \A i \in 1..Len(s) : Append(s, x)[i] = s[i]
OBVIOUS

LEMMA ArrayKeepsLast ==
  ASSUME NEW m \in Nat \ {0}, NEW c \in 0..m, NEW x \in Nat,
         NEW a \in [0..(m - 1) -> Nat], NEW b \in [0..(m - 1) -> Nat],
         c < m => b[c] = x /\ \A i \in 0..(c - 1) : b[i] = a[i],
         c = m => \A i \in 0..(m - 1) : b[i] = IF i < m - 1 THEN a[i + 1] ELSE x
  PROVE  /\ ArrayGaps(a, c) \in Seq(Nat)
         /\ ArrayGaps(b, IF c < m THEN c + 1 ELSE m) = LastN(Append(ArrayGaps(a, c), x), m)
<1> DEFINE g == ArrayGaps(a, c)
           d == IF c < m THEN c + 1 ELSE m
           h == ArrayGaps(b, d)
<1>1. g \in Seq(Nat) /\ Len(g) = c /\ \A i \in 1..c : g[i] = a[i - 1]
  BY DEF ArrayGaps
<1>2. h \in Seq(Nat) /\ Len(h) = d /\ \A i \in 1..d : h[i] = b[i - 1]
  BY DEF ArrayGaps
<1> HIDE DEF g, h
<1> DEFINE gx == Append(g, x)
<1>3. /\ gx \in Seq(Nat) /\ Len(gx) = c + 1 /\ gx[c + 1] = x
      /\ \A i \in 1..c : gx[i] = a[i - 1]
  <2>1. /\ gx \in Seq(Nat) /\ Len(gx) = Len(g) + 1 /\ gx[Len(g) + 1] = x
        /\ \A i \in 1..Len(g) : gx[i] = g[i]
    BY <1>1, NatAppend
  <2> HIDE DEF gx
  <2> QED BY <1>1, <2>1
<1> HIDE DEF gx
<1>4. /\ LastN(gx, m) \in Seq(Nat) /\ Len(LastN(gx, m)) = IF Len(gx) > m THEN m ELSE Len(gx)
      /\ \A i \in 1..Len(LastN(gx, m)) : LastN(gx, m)[i] = gx[Len(gx) - Len(LastN(gx, m)) + i]
  BY <1>3, LastNFacts
<1>5. Len(LastN(gx, m)) = d
  BY <1>3, <1>4
<1>6. ASSUME NEW i \in 1..d PROVE h[i] = LastN(gx, m)[i]
  <2>1. h[i] = b[i - 1] /\ LastN(gx, m)[i] = gx[c + 1 - d + i]
    <3> HIDE DEF d
    <3>1. Len(gx) - Len(LastN(gx, m)) + i = c + 1 - d + i
      BY <1>3, <1>5
    <3>2. i \in 1..Len(LastN(gx, m)) /\ h[i] = b[i - 1]
      BY <1>2, <1>5
    <3> QED BY <1>4, <3>1, <3>2
  <2>2. CASE c < m
    <3>1. d = c + 1 /\ c + 1 - d + i = i
      BY <2>2
    <3>2. CASE i = c + 1
      BY <1>3, <2>1, <2>2, <3>1, <3>2
    <3>3. CASE i # c + 1
      <4>1. i \in 1..c /\ i - 1 \in 0..(c - 1)
        BY <2>2, <3>3
      <4> QED BY <1>3, <2>1, <2>2, <3>1, <4>1
    <3> QED BY <3>2, <3>3
  <2>3. CASE c = m
    <3>1. d = m /\ c + 1 - d + i = i + 1 /\ i - 1 \in 0..(m - 1)
      BY <2>3
    <3>2. CASE i = m
      BY <1>3, <2>1, <2>3, <3>1, <3>2
    <3>3. CASE i # m
      <4>1. i + 1 \in 1..c /\ i - 1 < m - 1 /\ (i + 1) - 1 = (i - 1) + 1
        BY <2>3, <3>3
      <4> QED BY <1>3, <2>1, <2>3, <3>1, <4>1
    <3> QED BY <3>2, <3>3
  <2> QED BY <2>2, <2>3
<1>7. h = LastN(gx, m)
  <2> HIDE DEF d
  <2> QED BY <1>2, <1>4, <1>5, <1>6, SeqEqual
<1> QED BY <1>1, <1>7 DEF g, h, gx

-----------------------------------------------------------------------------
(***************************************************************************)
(* The table of tracks                                                     *)
(***************************************************************************)
\* Only finite sets have a cardinality to speak of.
TypeInv == TypeOK /\ IsFiniteSet(tracked)

LEMMA PlacesFacts == MaxIntervals - 1 \in Places /\ Places \subseteq Nat
BY NetTrackAssumption DEF Places

\* memmove and the write to the last place keep to the array.
LEMMA ShiftedType ==
  ASSUME NEW a \in [Places -> Nat], NEW x \in Nat
  PROVE  Shifted(a, x) \in [Places -> Nat]
<1>1. \A i \in Places : i < MaxIntervals - 1 => i + 1 \in Places
  BY NetTrackAssumption DEF Places
<1> QED BY <1>1 DEF Shifted

\* What recording a sighting leaves of a slot that was seen more often than it has gaps, or that
\* is new.
LEMMA WithIntervalType ==
  ASSUME NEW t \in Tracks, now \in Nat, t.seen > t.count \/ (t.seen = t.count /\ now = t.last)
  PROVE  WithInterval(t) \in Tracks /\ WithInterval(t).seen + 1 > WithInterval(t).count
<1>0. MaxIntervals \in Nat \ {0}
  BY NetTrackAssumption
<1>1. /\ t.last \in Nat /\ t.intervals \in [Places -> Nat] /\ t.count \in 0..MaxIntervals
      /\ t.seen \in Nat /\ t.alerted \in BOOLEAN
  BY DEF Tracks
<1>2. CASE now <= t.last
  BY <1>0, <1>1, <1>2 DEF WithInterval
<1>3. CASE now > t.last /\ t.count < MaxIntervals
  <2>1. now - t.last \in Nat /\ t.seen > t.count
    BY <1>1, <1>3
  <2>2. WithInterval(t) = [t EXCEPT !.last = now, !.count = @ + 1, !.intervals[t.count] = now - t.last]
    BY <1>1, <1>3 DEF WithInterval
  <2>3. [t.intervals EXCEPT ![t.count] = now - t.last] \in [Places -> Nat]
    BY <1>1, <2>1
  <2>4. WithInterval(t) = [last |-> now, count |-> t.count + 1, seen |-> t.seen,
                           intervals |-> [t.intervals EXCEPT ![t.count] = now - t.last],
                           alerted |-> t.alerted]
    BY <2>2 DEF Tracks
  <2> HIDE DEF Places
  <2>5. t.count + 1 \in 0..MaxIntervals /\ t.seen + 1 > t.count + 1
    BY <1>0, <1>1, <1>3, <2>1
  <2> QED BY <1>1, <2>3, <2>4, <2>5 DEF Tracks
<1>4. CASE now > t.last /\ ~(t.count < MaxIntervals)
  <2>1. now - t.last \in Nat /\ t.seen > t.count
    BY <1>1, <1>4
  <2>2. WithInterval(t) = [t EXCEPT !.last = now, !.intervals = Shifted(@, now - t.last)]
    BY <1>1, <1>4 DEF WithInterval
  <2>3. Shifted(t.intervals, now - t.last) \in [Places -> Nat]
    BY <1>1, <2>1, ShiftedType
  <2>4. WithInterval(t) = [last |-> now, count |-> t.count, seen |-> t.seen,
                           intervals |-> Shifted(t.intervals, now - t.last), alerted |-> t.alerted]
    BY <2>2 DEF Tracks
  <2> QED BY <1>1, <2>1, <2>3, <2>4 DEF Tracks
<1> QED BY <1>1, <1>2, <1>3, <1>4

\* A slot after memset and when it is first used.
LEMMA NewTypes ==
  ASSUME now \in Nat
  PROVE  Zeroed \in Tracks /\ NewTrack \in Tracks /\ NewTrack.seen = NewTrack.count
         /\ NewTrack.last = now
<1>1. 0 \in 0..MaxIntervals
  BY NetTrackAssumption
<1>2. [i \in Places |-> 0] \in [Places -> Nat]
  OBVIOUS
<1> QED BY <1>1, <1>2 DEF Zeroed, NewTrack, Tracks

LEMMA TypeInvInit == Init => TypeInv
<1> SUFFICES ASSUME Init PROVE TypeInv
  OBVIOUS
<1>1. Zeroed \in Tracks
  BY NewTypes DEF Init
<1>2. IsFiniteSet(tracked) /\ Cardinality(tracked) = 0
  BY FS_EmptySet DEF Init
<1> QED BY <1>1, <1>2, NetTrackAssumption DEF Init, TypeInv, TypeOK

\* A sighting changes the slot of its destination only.
LEMMA SightKeepsTypeInv ==
  ASSUME TypeInv, NEW k \in Keys, Sight(k)
  PROVE  TypeInv'
<1> DEFINE old == IF k \in tracked THEN track[k] ELSE NewTrack
           new == [WithInterval(old) EXCEPT !.seen = @ + 1]
           final == [new EXCEPT !.alerted = @ \/ Alerts(k, new)]
<1>1. now \in Nat /\ MaxTracks \in Nat /\ now' = now /\ open' = open /\ made' = made
  BY NetTrackAssumption DEF TypeInv, TypeOK, Sight
<1>2. old \in Tracks /\ (old.seen > old.count \/ (old.seen = old.count /\ now = old.last))
  BY <1>1, NewTypes DEF TypeInv, TypeOK
<1>3. WithInterval(old) \in Tracks /\ WithInterval(old).seen + 1 > WithInterval(old).count
  <2> HIDE DEF old
  <2> QED BY <1>1, <1>2, WithIntervalType
<1>4. final \in Tracks /\ final.seen > final.count
  <2> DEFINE w == WithInterval(old)
  <2> HIDE DEF w
  <2>1. /\ w \in Tracks /\ w.seen + 1 > w.count
        /\ final = [[w EXCEPT !.seen = @ + 1] EXCEPT !.alerted = @ \/ Alerts(k, new)]
    BY <1>3 DEF w
  <2> DEFINE b == w.alerted \/ Alerts(k, new)
  <2>2. b \in BOOLEAN
    BY DEF Alerts
  <2> HIDE DEF final, new
  <2>3. final = [last |-> w.last, intervals |-> w.intervals, count |-> w.count, seen |-> w.seen + 1,
                 alerted |-> b]
    BY <2>1 DEF Tracks
  <2> HIDE DEF b
  <2>4. /\ w.last \in Nat /\ w.intervals \in [Places -> Nat] /\ w.count \in 0..MaxIntervals
        /\ w.seen + 1 \in Nat
    BY <2>1 DEF Tracks
  <2> QED BY <2>1, <2>2, <2>3, <2>4 DEF Tracks
<1>5. track' = [track EXCEPT ![k] = final] /\ tracked' = tracked \union {k}
  BY DEF Sight
<1>6. track' \in [Keys -> Tracks] /\ \A l \in tracked' : track'[l].seen > track'[l].count
  <2> HIDE DEF final
  <2> QED BY <1>4, <1>5 DEF TypeInv, TypeOK
<1>7. \A l \in Keys \ tracked' : track'[l] = Zeroed
  <2> HIDE DEF final
  <2> QED BY <1>5 DEF TypeInv, TypeOK
<1>8. tracked' \subseteq Keys /\ IsFiniteSet(tracked') /\ Cardinality(tracked') <= MaxTracks
  <2>1. CASE k \in tracked
    BY <1>5, <2>1 DEF TypeInv, TypeOK
  <2>2. CASE k \notin tracked
    <3>1. Cardinality(tracked) < MaxTracks /\ Cardinality(tracked) \in Nat
      BY <2>2, FS_CardinalityType DEF Sight, TypeInv
    <3>2. IsFiniteSet(tracked') /\ Cardinality(tracked') = Cardinality(tracked) + 1
      BY <1>5, <2>2, FS_AddElement DEF TypeInv
    <3> QED BY <1>1, <1>5, <3>1, <3>2 DEF TypeInv, TypeOK
  <2> QED BY <2>1, <2>2
<1> QED BY <1>1, <1>6, <1>7, <1>8 DEF TypeInv, TypeOK, Zeroed

LEMMA TypeInvNext == TypeInv /\ [Next]_vars => TypeInv'
<1> SUFFICES ASSUME TypeInv, [Next]_vars PROVE TypeInv'
  OBVIOUS
<1>1. ASSUME NEW k \in Keys, Connect(k) \/ Close(k) PROVE TypeInv'
  <2>1. /\ now' = now /\ tracked' = tracked /\ track' = track
        /\ open' = [open EXCEPT ![k] = @ + 1] \/ (open[k] > 0 /\ open' = [open EXCEPT ![k] = @ - 1])
        /\ made' = made \/ made' = [made EXCEPT ![k] = @ + 1]
    BY <1>1 DEF Connect, Close
  <2>2. open' \in [Keys -> Nat] /\ made' \in [Keys -> Nat]
    BY <2>1 DEF TypeInv, TypeOK
  <2> QED BY <2>1, <2>2 DEF TypeInv, TypeOK, Zeroed
<1>2. ASSUME NEW k \in Keys, Sight(k) PROVE TypeInv'
  BY <1>2, SightKeepsTypeInv
<1>3. CASE Tick
  BY <1>3 DEF Tick, TypeInv, TypeOK, Zeroed
<1>4. CASE UNCHANGED vars
  BY <1>4 DEF vars, TypeInv, TypeOK, Zeroed
<1> QED BY <1>1, <1>2, <1>3, <1>4 DEF Next

LEMMA TypeInvAlways == Spec => []TypeInv
<1>1. TypeInv /\ [Next]_vars => TypeInv'
  BY TypeInvNext
<1> QED BY <1>1, TypeInvInit, PTL DEF Spec

\* Every slot is one that the code can leave, however the clock is set.
THEOREM TrackTypeCorrect == Spec => []TypeOK
<1>1. TypeInv => TypeOK
  BY DEF TypeInv
<1> QED BY <1>1, TypeInvAlways, PTL

-----------------------------------------------------------------------------
(***************************************************************************)
(* What one sighting does                                                  *)
(***************************************************************************)
Old(k)     == IF k \in tracked THEN track[k] ELSE NewTrack
Counted(k) == [WithInterval(Old(k)) EXCEPT !.seen = @ + 1]

\* A slot with an interval recorded holds the last gaps.
LEMMA WithIntervalGaps ==
  ASSUME NEW t \in Tracks, now \in Nat
  PROVE  /\ WithInterval(t).alerted = t.alerted /\ WithInterval(t).seen = t.seen
         /\ now <= t.last => WithInterval(t) = t
         /\ now > t.last => /\ WithInterval(t).last = now
                            /\ Gaps(WithInterval(t)) = LastN(Append(Gaps(t), now - t.last), MaxIntervals)
         /\ Gaps(t) \in Seq(Nat)
<1>0. MaxIntervals \in Nat \ {0}
  BY NetTrackAssumption
<1>1. /\ t.last \in Nat /\ t.intervals \in [0..(MaxIntervals - 1) -> Nat]
      /\ t.count \in 0..MaxIntervals /\ t.seen \in Nat /\ t.alerted \in BOOLEAN
  BY DEF Tracks, Places
<1>2. Gaps(t) = ArrayGaps(t.intervals, t.count) /\ Gaps(t) \in Seq(Nat)
  <2>1. \A i \in 1..t.count : t.intervals[i - 1] \in Nat
    BY <1>0, <1>1
  <2> QED BY <1>1, <2>1 DEF Gaps, ArrayGaps
<1>3. CASE now <= t.last
  BY <1>1, <1>2, <1>3 DEF WithInterval
<1>4. CASE now > t.last
  <2> DEFINE x == now - t.last
             m == MaxIntervals
             c == t.count
             b == IF c < m THEN [t.intervals EXCEPT ![c] = x] ELSE Shifted(t.intervals, x)
             d == IF c < m THEN c + 1 ELSE m
  <2>1. x \in Nat
    BY <1>1, <1>4
  <2>2. WithInterval(t) = [last |-> now, intervals |-> b, count |-> d, seen |-> t.seen,
                           alerted |-> t.alerted]
    <3>1. CASE c < m
      <4>1. WithInterval(t) = [t EXCEPT !.last = now, !.count = @ + 1, !.intervals[t.count] = x]
        BY <1>1, <1>4, <3>1 DEF WithInterval
      <4> HIDE DEF x
      <4> QED BY <3>1, <4>1 DEF Tracks
    <3>2. CASE ~(c < m)
      <4>1. WithInterval(t) = [t EXCEPT !.last = now, !.intervals = Shifted(@, x)]
        BY <1>1, <1>4, <3>2 DEF WithInterval
      <4>2. c = m
        BY <1>0, <1>1, <3>2
      <4> HIDE DEF x
      <4> QED BY <3>2, <4>1, <4>2 DEF Tracks
    <3> QED BY <3>1, <3>2
  <2>3. /\ b \in [0..(m - 1) -> Nat]
        /\ c < m => b[c] = x /\ \A i \in 0..(c - 1) : b[i] = t.intervals[i]
        /\ c = m => \A i \in 0..(m - 1) : b[i] = IF i < m - 1 THEN t.intervals[i + 1] ELSE x
    <3>1. CASE c < m
      <4> HIDE DEF x
      <4> QED BY <1>0, <1>1, <2>1, <3>1
    <3>2. CASE c = m
      <4>1. b = Shifted(t.intervals, x)
        BY <1>0, <3>2
      <4> HIDE DEF x
      <4> QED BY <1>0, <1>1, <2>1, <3>2, <4>1, ShiftedType DEF Shifted, Places
    <3> QED BY <1>0, <1>1, <3>1, <3>2
  <2>4. ArrayGaps(b, d) = LastN(Append(ArrayGaps(t.intervals, c), x), m)
    <3> HIDE DEF b, x
    <3> QED BY ZenonT(60), <1>0, <1>1, <2>1, <2>3, ArrayKeepsLast
  <2>5. Gaps(WithInterval(t)) = ArrayGaps(b, d)
    <3> HIDE DEF b, d
    <3> QED BY <2>2 DEF Gaps, ArrayGaps
  <2> HIDE DEF b, d
  <2> QED BY <1>1, <1>2, <1>4, <2>2, <2>4, <2>5
<1> QED BY <1>1, <1>3, <1>4

LEMMA SightEffect ==
  ASSUME TypeInv, NEW k \in Keys, Sight(k)
  PROVE  /\ now \in Nat /\ Old(k) \in Tracks /\ Counted(k) \in Tracks
         /\ Counted(k).alerted = Old(k).alerted /\ Counted(k).seen = Old(k).seen + 1
         /\ Counted(k).last = WithInterval(Old(k)).last
         /\ Gaps(Counted(k)) = Gaps(WithInterval(Old(k)))
         /\ \A l \in Keys \ {k} : track'[l] = track[l]
         /\ track'[k].last = Counted(k).last /\ track'[k].seen = Counted(k).seen
         /\ track'[k].alerted = (Old(k).alerted \/ Alerts(k, Counted(k)))
         /\ Gaps(track'[k]) = Gaps(Counted(k))
         /\ Score(k, track'[k]) = Score(k, Counted(k))
<1> DEFINE w == WithInterval(Old(k))
           new == Counted(k)
           b == Old(k).alerted \/ Alerts(k, new)
<1>1. now \in Nat
  BY NetTrackAssumption DEF TypeInv, TypeOK
<1>2. Old(k) \in Tracks /\ (Old(k).seen > Old(k).count \/ (Old(k).seen = Old(k).count /\ now = Old(k).last))
  BY <1>1, NewTypes DEF TypeInv, TypeOK, Old
<1>3. w \in Tracks /\ w.alerted = Old(k).alerted /\ w.seen = Old(k).seen
  BY <1>1, <1>2, WithIntervalType, WithIntervalGaps
<1>4. track' = [track EXCEPT ![k] = [new EXCEPT !.alerted = @ \/ Alerts(k, new)]]
  BY DEF Sight, Old, Counted
<1>5. track \in [Keys -> Tracks]
  BY DEF TypeInv, TypeOK
<1>6. Old(k).alerted \in BOOLEAN /\ Old(k).seen \in Nat
  BY <1>2 DEF Tracks
<1>7. new = [last |-> w.last, intervals |-> w.intervals, count |-> w.count, seen |-> w.seen + 1,
             alerted |-> w.alerted]
  <2> HIDE DEF w
  <2> QED BY <1>3 DEF Tracks, Counted, w
<1> HIDE DEF w
<1>8. new \in Tracks
  <2>1. /\ w.last \in Nat /\ w.intervals \in [Places -> Nat] /\ w.count \in 0..MaxIntervals
        /\ w.seen + 1 \in Nat /\ w.alerted \in BOOLEAN
    BY <1>3 DEF Tracks
  <2> HIDE DEF new
  <2> QED BY <1>7, <2>1 DEF Tracks
<1>9. [new EXCEPT !.alerted = @ \/ Alerts(k, new)] =
        [last |-> w.last, intervals |-> w.intervals, count |-> w.count, seen |-> w.seen + 1,
         alerted |-> b]
  <2>1. new.alerted = Old(k).alerted
    BY <1>3, <1>7
  <2> HIDE DEF new
  <2> QED BY <1>7, <1>8, <2>1 DEF Tracks
<1> HIDE DEF new, b
<1>10. track'[k] = [last |-> w.last, intervals |-> w.intervals, count |-> w.count, seen |-> w.seen + 1,
                    alerted |-> b] /\ \A l \in Keys \ {k} : track'[l] = track[l]
  BY <1>4, <1>5, <1>9
<1>11. /\ new.alerted = Old(k).alerted /\ new.seen = Old(k).seen + 1 /\ new.last = w.last
       /\ new.count = w.count /\ new.intervals = w.intervals
       /\ track'[k].last = new.last /\ track'[k].seen = new.seen /\ track'[k].alerted = b
       /\ track'[k].count = new.count /\ track'[k].intervals = new.intervals
  BY <1>3, <1>7, <1>10
<1>12. Gaps(new) = Gaps(w) /\ Gaps(track'[k]) = Gaps(new)
  BY <1>11 DEF Gaps
<1>13. Score(k, track'[k]) = Score(k, new)
  BY <1>11, <1>12 DEF Score
<1> QED BY <1>1, <1>2, <1>8, <1>10, <1>11, <1>12, <1>13 DEF w, new, b

\* A type-correct state and a step of one of the kinds.
LEMMA StepCases ==
  ASSUME TypeInv, [Next]_vars
  PROVE  \/ \E k \in Keys : Sight(k)
         \/ UNCHANGED <<tracked, track, seenAt, alerts>>
BY DEF Next, vars, Connect, Close, Tick

-----------------------------------------------------------------------------
(***************************************************************************)
(* The tracks implement Sightings                                          *)
(***************************************************************************)
\* No gaps are kept of a slot that is all zero, or new.
LEMMA NoGaps == Gaps(Zeroed) = <<>> /\ Gaps(NewTrack) = <<>>
<1>1. Zeroed.count = 0 /\ NewTrack.count = 0
  BY DEF Zeroed, NewTrack
<1>2. \A t : t.count = 0 => Gaps(t) = <<>>
  BY DEF Gaps
<1> QED BY <1>1, <1>2

\* A sighting is the first one, a later one, or leaves no trace.
LEMMA SightIsSee ==
  ASSUME TypeInv, NEW k \in Keys, Sight(k)
  PROVE  \/ Kept!Follow(k, now)
         \/ Kept!SeeLater(k, now)
         \/ UNCHANGED <<tracked, [l \in Keys |-> track[l].last], [l \in Keys |-> Gaps(track[l])]>>
<1> DEFINE lasts == [l \in Keys |-> track[l].last]
           kept  == [l \in Keys |-> Gaps(track[l])]
<1>1. /\ now \in Nat /\ Old(k) \in Tracks
      /\ track'[k].last = WithInterval(Old(k)).last
      /\ Gaps(track'[k]) = Gaps(WithInterval(Old(k)))
      /\ \A l \in Keys \ {k} : track'[l] = track[l]
  BY SightEffect
<1>2. tracked' = tracked \union {k}
  BY DEF Sight
<1>3. lasts' = [lasts EXCEPT ![k] = WithInterval(Old(k)).last]
  BY <1>1
<1>4. kept' = [kept EXCEPT ![k] = Gaps(WithInterval(Old(k)))]
  BY <1>1
<1>5. CASE k \notin tracked
  <2>1. Old(k) = NewTrack /\ Old(k).last = now
    BY <1>1, <1>5, NewTypes DEF Old
  <2>2. WithInterval(Old(k)) = Old(k)
    BY <1>1, <2>1, WithIntervalGaps
  <2>3. Gaps(WithInterval(Old(k))) = kept[k]
    BY <1>5, <2>1, <2>2, NoGaps DEF TypeInv, TypeOK
  <2>4. kept' = kept
    BY <1>4, <2>3
  <2>5. lasts' = [lasts EXCEPT ![k] = now]
    BY <1>3, <2>1, <2>2
  <2> QED BY <1>2, <1>5, <2>4, <2>5 DEF Kept!Follow
<1>6. CASE k \in tracked
  <2>1. Old(k) = track[k] /\ tracked' = tracked
    BY <1>2, <1>6 DEF Old
  <2>2. CASE now > track[k].last
    <3>1. /\ WithInterval(Old(k)).last = now
          /\ Gaps(WithInterval(Old(k))) = LastN(Append(Gaps(track[k]), now - track[k].last), MaxIntervals)
      BY <1>1, <2>1, <2>2, WithIntervalGaps
    <3>2. LastN(Append(Gaps(track[k]), now - track[k].last), MaxIntervals)
            = Kept!LastOnes(Append(kept[k], now - lasts[k]))
      BY DEF LastN, Kept!LastOnes
    <3>3. kept' = [kept EXCEPT ![k] = Kept!LastOnes(Append(kept[k], now - lasts[k]))]
      BY <1>4, <3>1, <3>2
    <3>4. lasts' = [lasts EXCEPT ![k] = now] /\ now > lasts[k]
      BY <1>3, <2>2, <3>1
    <3> QED BY <1>6, <2>1, <3>3, <3>4 DEF Kept!SeeLater
  <2>3. CASE ~(now > track[k].last)
    <3>1. now <= Old(k).last
      BY <1>1, <2>1, <2>3 DEF Tracks
    <3>2. WithInterval(Old(k)) = track[k]
      BY <1>1, <2>1, <3>1, WithIntervalGaps
    <3>3. kept' = kept /\ lasts' = lasts
      BY <1>3, <1>4, <3>2
    <3> QED BY <2>1, <3>3
  <2> QED BY <2>2, <2>3
<1> QED BY <1>5, <1>6

\* The array of a track, with its count and its memmove, holds the last gaps between sightings,
\* and a clock that is set back adds none.
THEOREM TracksImplementSightings == Spec => ImplementsSightings
<1>1. Init => Kept!Empty
  BY NoGaps DEF Init, Kept!Empty
<1>2. TypeInv /\ [Next]_vars => [Kept!See]_(Kept!sightingVars)
  <2> SUFFICES ASSUME TypeInv, [Next]_vars PROVE [Kept!See]_(Kept!sightingVars)
    OBVIOUS
  <2>1. ASSUME NEW l \in Keys, Sight(l) PROVE [Kept!See]_(Kept!sightingVars)
    <3>1. now \in 0..MaxTime
      BY DEF TypeInv, TypeOK
    <3>2. Kept!Follow(l, now) \/ Kept!SeeLater(l, now) => Kept!See
      BY <3>1 DEF Kept!See, Kept!Follow, Kept!SeeLater
    <3>3. Kept!Follow(l, now) \/ Kept!SeeLater(l, now) \/ UNCHANGED Kept!sightingVars
      BY <2>1, SightIsSee DEF Kept!sightingVars
    <3> QED BY <3>2, <3>3
  <2> QED BY <2>1, StepCases DEF Kept!sightingVars
<1> QED BY <1>1, <1>2, TypeInvAlways, PTL DEF Spec, ImplementsSightings, Kept!SightingsSpec

-----------------------------------------------------------------------------
(***************************************************************************)
(* Alerts                                                                  *)
(***************************************************************************)
Alerted(k) == \E i \in DOMAIN alerts : alerts[i].key = k

\* Who has been alerted on is marked, and the other way round; hence nobody is alerted on twice.
AlertInv ==
  /\ alerts \in Seq([key : Keys, gaps : Seq(Nat)])
  /\ \A k \in Keys : track[k].alerted <=> Alerted(k)
  /\ AlertHasTiming

LEMMA AlertInvInit == Init => AlertInv
BY DEF Init, AlertInv, Alerted, AlertHasTiming, Zeroed

\* Without regular gaps no process gets 60 points, unless its path is suspicious.
LEMMA TimingIsNeeded ==
  ASSUME NEW k \in Keys, NEW t, Exe[k] = {}, Score(k, t) >= 60
  PROVE  Beaconing(Gaps(t), 2)
<1> DEFINE B == Beaconing(Gaps(t), 2)
<1>1. SUFFICES ASSUME ~B PROVE FALSE
  OBVIOUS
<1>2. If(B, 60) = 0
  BY <1>1 DEF If
<1>3. Score(k, t) = LET score == If(t.seen >= 4, 25) + If(k \in WebPorts, 5)
                    IN  If(score > 100, 100) + If(score <= 100, score)
  <2> HIDE DEF B
  <2>1. "browser" \notin Exe[k] /\ "suspicious" \notin Exe[k]
    OBVIOUS
  <2>2. If(FALSE, 30) = 0
    BY DEF If
  <2>3. Score(k, t) = LET score == If(t.seen >= 4, 25) + If(B, 60) + If(k \in WebPorts, 5)
                                     + If(FALSE, 30)
                      IN  If(score > 100, 100) + If(score <= 100, score)
    BY <2>1 DEF Score, ProcTcpScore, B, If
  <2>4. If(t.seen >= 4, 25) \in Nat /\ If(k \in WebPorts, 5) \in Nat
    BY DEF If
  <2>5. If(t.seen >= 4, 25) + If(B, 60) + If(k \in WebPorts, 5) + If(FALSE, 30)
          = If(t.seen >= 4, 25) + If(k \in WebPorts, 5)
    <3> DEFINE s == If(t.seen >= 4, 25)
               w == If(k \in WebPorts, 5)
               b == If(B, 60)
               f == If(FALSE, 30)
    <3>1. s \in Nat /\ w \in Nat /\ b = 0 /\ f = 0
      BY <1>2, <2>2, <2>4
    <3> HIDE DEF s, w, b, f
    <3>2. s + b + w + f = s + w
      BY <3>1
    <3> QED BY <3>2 DEF s, w, b, f
  <2> QED BY <2>3, <2>5
<1> QED BY <1>3 DEF If

LEMMA AlertInvNext == TypeInv /\ AlertInv /\ [Next]_vars => AlertInv'
<1> SUFFICES ASSUME TypeInv, AlertInv, [Next]_vars PROVE AlertInv'
  OBVIOUS
<1>1. ASSUME NEW k \in Keys, Sight(k) PROVE AlertInv'
  <2> DEFINE new == Counted(k)
             record == [key |-> k, gaps |-> Gaps(new)]
  <2>1. /\ new \in Tracks /\ new.alerted = Old(k).alerted /\ now \in Nat
        /\ \A l \in Keys \ {k} : track'[l] = track[l]
        /\ track'[k].alerted = (Old(k).alerted \/ Alerts(k, new))
    BY <1>1, SightEffect
  <2>2. alerts' = IF Alerts(k, new) THEN Append(alerts, record) ELSE alerts
    BY <1>1 DEF Sight, Old, Counted
  <2>3. Old(k).alerted = track[k].alerted
    BY DEF Old, NewTrack, Zeroed, TypeInv, TypeOK
  <2>4. Gaps(new) \in Seq(Nat)
    BY <2>1, WithIntervalGaps
  <2> HIDE DEF new
  <2>5. CASE Alerts(k, new)
    <3>1. ~Alerted(k) /\ Score(k, new) >= AlertThreshold
      BY <2>1, <2>3, <2>5 DEF Alerts, AlertInv
    <3>2. record \in [key : Keys, gaps : Seq(Nat)]
      BY <2>4
    <3>3. record.key = k /\ record.gaps = Gaps(new)
      OBVIOUS
    <3> HIDE DEF record
    <3>4. /\ alerts' \in Seq([key : Keys, gaps : Seq(Nat)]) /\ Len(alerts') = Len(alerts) + 1
          /\ alerts'[Len(alerts) + 1] = record /\ \A i \in 1..Len(alerts) : alerts'[i] = alerts[i]
      BY <2>2, <2>5, <3>2, AppendProperties DEF AlertInv
    <3>5. DOMAIN alerts = 1..Len(alerts) /\ Len(alerts) \in Nat
      BY DEF AlertInv
    <3>6. DOMAIN alerts' = 1..(Len(alerts) + 1)
      BY <3>4
    <3>7. \A l \in Keys : track'[l].alerted <=> Alerted(l)'
      <4>1. ASSUME NEW l \in Keys PROVE Alerted(l)' <=> (Alerted(l) \/ l = k)
        <5>1. ASSUME NEW i \in DOMAIN alerts', alerts'[i].key = l PROVE Alerted(l) \/ l = k
          <6>1. CASE i = Len(alerts) + 1
            BY <3>3, <3>4, <5>1, <6>1
          <6>2. CASE i # Len(alerts) + 1
            <7>1. i \in 1..Len(alerts)
              BY <3>5, <3>6, <6>2
            <7> QED BY <3>4, <3>5, <5>1, <7>1 DEF Alerted
          <6> QED BY <6>1, <6>2
        <5>2. ASSUME Alerted(l) PROVE Alerted(l)'
          <6>1. PICK i \in 1..Len(alerts) : alerts[i].key = l
            BY <3>5, <5>2 DEF Alerted
          <6>2. i \in DOMAIN alerts' /\ alerts'[i].key = l
            BY <3>4, <3>5, <3>6, <6>1
          <6> QED BY <6>2 DEF Alerted
        <5>3. ASSUME l = k PROVE Alerted(l)'
          <6>1. Len(alerts) + 1 \in DOMAIN alerts' /\ alerts'[Len(alerts) + 1].key = l
            BY <3>3, <3>4, <3>5, <3>6, <5>3
          <6> QED BY <6>1 DEF Alerted
        <5> QED BY <5>1, <5>2, <5>3 DEF Alerted
      <4> QED BY <2>1, <2>5, <4>1 DEF AlertInv
    <3>8. ASSUME AlertThreshold >= 60, Exe[k] = {}
          PROVE  Len(record.gaps) >= 3 /\ LowJitter(record.gaps)
      <4>1. Score(k, new) >= 60
        <5>1. AlertThreshold \in Int /\ Score(k, new) \in Int
          BY NetTrackAssumption DEF AlertThreshold, Score, ProcTcpScore, If
        <5> QED BY <3>1, <3>8, <5>1
      <4> QED BY <3>3, <3>8, <4>1, TimingIsNeeded DEF Beaconing
    <3>9. AlertHasTiming'
      <4> SUFFICES ASSUME NEW i \in DOMAIN alerts'
                   PROVE  LET r == alerts'[i] IN
                            /\ \A j \in DOMAIN alerts' : alerts'[j].key = r.key => i = j
                            /\ AlertThreshold >= 60 /\ Exe[r.key] = {}
                                 => Len(r.gaps) >= 3 /\ LowJitter(r.gaps)
        BY DEF AlertHasTiming, AlertThreshold
      <4>1. CASE i \in DOMAIN alerts
        <5>1. alerts'[i] = alerts[i] /\ alerts[i].key # k
          BY <3>1, <3>4, <3>5, <4>1 DEF Alerted
        <5>2. ASSUME NEW j \in DOMAIN alerts', alerts'[j].key = alerts[i].key PROVE i = j
          <6>1. j # Len(alerts) + 1
            BY <3>3, <3>4, <5>1, <5>2
          <6>2. j \in DOMAIN alerts /\ alerts'[j] = alerts[j]
            BY <3>4, <3>5, <3>6, <6>1
          <6> QED BY <4>1, <5>2, <6>2 DEF AlertInv, AlertHasTiming
        <5>3. AlertThreshold >= 60 /\ Exe[alerts[i].key] = {}
                => Len(alerts[i].gaps) >= 3 /\ LowJitter(alerts[i].gaps)
          BY <4>1 DEF AlertInv, AlertHasTiming
        <5> QED BY <5>1, <5>2, <5>3
      <4>2. CASE i = Len(alerts) + 1
        <5>1. alerts'[i] = record /\ \A j \in DOMAIN alerts : alerts[j].key # k
          BY <3>1, <3>4, <4>2 DEF Alerted
        <5>2. \A j \in DOMAIN alerts' : alerts'[j].key = k => i = j
          BY <3>4, <3>5, <3>6, <4>2, <5>1
        <5> QED BY <3>3, <3>8, <5>1, <5>2
      <4> QED BY <3>5, <3>6, <4>1, <4>2
    <3> QED BY <3>4, <3>7, <3>9 DEF AlertInv
  <2>6. CASE ~Alerts(k, new)
    <3>1. alerts' = alerts /\ \A l \in Keys : track'[l].alerted <=> track[l].alerted
      BY <2>1, <2>2, <2>3, <2>6
    <3> QED BY <3>1 DEF AlertInv, Alerted, AlertHasTiming, AlertThreshold
  <2> QED BY <2>5, <2>6
<1>2. CASE UNCHANGED <<tracked, track, seenAt, alerts>>
  BY <1>2 DEF AlertInv, Alerted, AlertHasTiming, AlertThreshold
<1> QED BY <1>1, <1>2, StepCases

LEMMA AlertInvAlways == Spec => []AlertInv
BY TypeInvAlways, AlertInvInit, AlertInvNext, PTL DEF Spec

\* Nobody is alerted on twice, and, at a threshold of 60 or more, nobody without a suspicious path
\* whose sightings do not lie at regular distances.
THEOREM AlertsHaveTiming == Spec => []AlertHasTiming
<1>1. AlertInv => AlertHasTiming
  BY DEF AlertInv
<1> QED BY <1>1, AlertInvAlways, PTL

-----------------------------------------------------------------------------
(***************************************************************************)
(* Steady beacons                                                          *)
(***************************************************************************)
Diffs(s) == [i \in 1..(Len(s) - 1) |-> s[i + 1] - s[i]]

\* A slot holds the last gaps of the history, and a score that is high enough has been acted on.
HistoryInv ==
  /\ seenAt \in [Keys -> Seq(Nat)]
  /\ \A k \in tracked :
       /\ seenAt[k] # <<>>
       /\ track[k].last = Last(seenAt[k])
       /\ Gaps(track[k]) = LastN(Diffs(seenAt[k]), MaxIntervals)
       /\ track[k].seen >= Len(seenAt[k])
       /\ Score(k, track[k]) >= AlertThreshold => track[k].alerted
  /\ \A k \in Keys \ tracked : seenAt[k] = <<>>

LEMMA HistoryInvInit == Init => HistoryInv
BY DEF Init, HistoryInv

LEMMA DiffsAppend ==
  ASSUME NEW s \in Seq(Nat), s # <<>>, NEW x \in Nat
  PROVE  Diffs(s) \in Seq(Int) /\ Diffs(Append(s, x)) = Append(Diffs(s), x - Last(s))
<1> DEFINE n == Len(s)
           d == Diffs(s)
           y == x - Last(s)
<1>1. n \in Nat \ {0} /\ Last(s) = s[n] /\ Last(s) \in Nat
  BY EmptySeq DEF Last
<1>2. d \in Seq(Int) /\ Len(d) = n - 1 /\ \A i \in 1..(n - 1) : d[i] = s[i + 1] - s[i]
  <2>1. \A i \in 1..(n - 1) : s[i + 1] - s[i] \in Int
    BY <1>1
  <2> QED BY <1>1, <2>1 DEF Diffs
<1> HIDE DEF d
<1> DEFINE a == Append(s, x)
<1>3. Len(a) = n + 1 /\ a[n + 1] = x /\ \A i \in 1..n : a[i] = s[i]
  BY AppendProperties
<1> HIDE DEF a
<1>4. /\ Append(d, y) \in Seq(Int) /\ Len(Append(d, y)) = n /\ Append(d, y)[n] = y
      /\ \A i \in 1..(n - 1) : Append(d, y)[i] = d[i]
  <2>1. y \in Int
    BY <1>1
  <2> HIDE DEF y
  <2> QED BY <1>1, <1>2, <2>1, AppendProperties
<1>5. ASSUME NEW i \in 1..n PROVE a[i + 1] - a[i] = Append(d, y)[i] /\ a[i + 1] - a[i] \in Int
  <2>1. CASE i = n
    BY <1>1, <1>3, <1>4, <2>1
  <2>2. CASE i # n
    <3>1. i \in 1..(n - 1) /\ i + 1 \in 1..n
      BY <1>1, <2>2
    <3> QED BY SMTT(30), <1>2, <1>3, <1>4, <3>1
  <2> QED BY <2>1, <2>2
<1>6. Diffs(a) = [i \in 1..n |-> a[i + 1] - a[i]]
  <2>1. Len(a) - 1 = n
    BY <1>1, <1>3
  <2> QED BY <2>1 DEF Diffs
<1>7. Diffs(a) \in Seq(Int) /\ Len(Diffs(a)) = n /\ \A i \in 1..n : Diffs(a)[i] = Append(d, y)[i]
  <2>1. \A i \in 1..n : a[i + 1] - a[i] \in Int
    BY <1>5
  <2>2. Diffs(a) \in [1..n -> Int]
    BY <1>6, <2>1
  <2>3. Diffs(a) \in Seq(Int) /\ Len(Diffs(a)) = n
    <3> HIDE DEF n
    <3> QED BY <1>1, <2>2
  <2>4. \A i \in 1..n : Diffs(a)[i] = a[i + 1] - a[i]
    BY <1>6
  <2> QED BY <1>5, <2>3, <2>4
<1>8. Diffs(a) = Append(d, y)
  BY <1>4, <1>7, SeqEqual
<1> QED BY <1>2, <1>8 DEF a, d

LEMMA OneSighting == \A x : Diffs(<<x>>) = <<>> /\ LastN(<<>>, MaxIntervals) = <<>>
<1>1. \A x : Diffs(<<x>>) = <<>>
  BY DEF Diffs
<1>2. LastN(<<>>, MaxIntervals) = <<>>
  <2>1. LastN(<<>>, MaxIntervals) = SubSeq(<<>>, 1, 0)
    BY NetTrackAssumption DEF LastN
  <2> QED BY <2>1, SubSeqEmpty
<1> QED BY <1>1, <1>2

LEMMA HistoryInvNext == TypeInv /\ HistoryInv /\ [Next]_vars => HistoryInv'
<1> SUFFICES ASSUME TypeInv, HistoryInv, [Next]_vars PROVE HistoryInv'
  OBVIOUS
<1>1. ASSUME NEW k \in Keys, Sight(k) PROVE HistoryInv'
  <2> DEFINE new == Counted(k)
  <2>1. /\ now \in Nat /\ Old(k) \in Tracks /\ new \in Tracks
        /\ new.alerted = Old(k).alerted /\ new.seen = Old(k).seen + 1
        /\ new.last = WithInterval(Old(k)).last
        /\ Gaps(new) = Gaps(WithInterval(Old(k)))
        /\ \A l \in Keys \ {k} : track'[l] = track[l]
        /\ track'[k].last = new.last /\ track'[k].seen = new.seen
        /\ track'[k].alerted = (Old(k).alerted \/ Alerts(k, new))
        /\ Gaps(track'[k]) = Gaps(new)
        /\ Score(k, track'[k]) = Score(k, new)
    BY <1>1, SightEffect
  <2> HIDE DEF new
  <2>2. tracked' = tracked \union {k}
    BY <1>1 DEF Sight
  <2>3. seenAt' = IF k \notin tracked \/ now > Last(seenAt[k])
                    THEN [seenAt EXCEPT ![k] = Append(seenAt[k], now)] ELSE seenAt
    BY <1>1 DEF Sight
  <2>4. Score(k, track'[k]) >= AlertThreshold => track'[k].alerted
    BY <2>1 DEF Alerts
  <2>5. /\ seenAt'[k] \in Seq(Nat) /\ seenAt'[k] # <<>>
        /\ track'[k].last = Last(seenAt'[k])
        /\ Gaps(track'[k]) = LastN(Diffs(seenAt'[k]), MaxIntervals)
        /\ track'[k].seen >= Len(seenAt'[k])
    <3>1. CASE k \notin tracked
      <4>1. Old(k) = NewTrack /\ Old(k).last = now /\ Old(k).seen = 0 /\ seenAt'[k] = <<now>>
        <5>1. Old(k) = NewTrack /\ NewTrack.last = now /\ NewTrack.seen = 0
          BY <3>1 DEF Old, NewTrack, Zeroed
        <5>2. seenAt[k] = <<>> /\ seenAt'[k] = Append(seenAt[k], now)
          BY <2>3, <3>1 DEF HistoryInv
        <5> QED BY <5>1, <5>2
      <4>2. WithInterval(Old(k)) = Old(k)
        BY <2>1, <4>1, WithIntervalGaps
      <4>3. Gaps(track'[k]) = <<>>
        BY <2>1, <4>1, <4>2, NoGaps
      <4>4. Last(<<now>>) = now /\ <<now>> \in Seq(Nat) /\ Len(<<now>>) = 1
        BY <2>1 DEF Last
      <4> QED BY <2>1, <4>1, <4>2, <4>3, <4>4, OneSighting
    <3>2. CASE k \in tracked /\ now > Last(seenAt[k])
      <4> DEFINE s == seenAt[k]
      <4>1. /\ Old(k) = track[k] /\ s \in Seq(Nat) /\ s # <<>> /\ track[k].last = Last(s)
            /\ Gaps(track[k]) = LastN(Diffs(s), MaxIntervals) /\ track[k].seen >= Len(s)
            /\ seenAt'[k] = Append(s, now)
        BY <2>3, <3>2 DEF Old, HistoryInv
      <4>2. /\ new.last = now
            /\ Gaps(track'[k]) = LastN(Append(LastN(Diffs(s), MaxIntervals), now - Last(s)), MaxIntervals)
        BY <2>1, <3>2, <4>1, WithIntervalGaps
      <4> HIDE DEF s
      <4>3. Last(s) \in Nat /\ Len(s) \in Nat
        BY <4>1, EmptySeq DEF Last
      <4>4. LastN(Append(LastN(Diffs(s), MaxIntervals), now - Last(s)), MaxIntervals)
              = LastN(Diffs(Append(s, now)), MaxIntervals)
        <5>1. Diffs(s) \in Seq(Int) /\ Diffs(Append(s, now)) = Append(Diffs(s), now - Last(s))
          BY <2>1, <4>1, DiffsAppend
        <5>2. now - Last(s) \in Int /\ MaxIntervals \in Nat \ {0}
          BY <2>1, <4>3, NetTrackAssumption
        <5> QED BY <5>1, <5>2, LastNTwice
      <4>5. /\ Append(s, now) \in Seq(Nat) /\ Append(s, now) # <<>> /\ Last(Append(s, now)) = now
            /\ Len(Append(s, now)) = Len(s) + 1
        BY <2>1, <4>1, AppendProperties DEF Last
      <4>6. track'[k].seen = track[k].seen + 1 /\ track[k].seen \in Nat
        BY <2>1, <4>1 DEF Tracks
      <4> QED BY <2>1, <4>1, <4>2, <4>3, <4>4, <4>5, <4>6
    <3>3. CASE k \in tracked /\ ~(now > Last(seenAt[k]))
      <4>1. /\ Old(k) = track[k] /\ seenAt'[k] = seenAt[k] /\ seenAt[k] \in Seq(Nat)
            /\ seenAt[k] # <<>> /\ track[k].last = Last(seenAt[k])
        BY <2>3, <3>3 DEF Old, HistoryInv
      <4>2. now <= Old(k).last /\ Old(k).seen \in Nat
        BY <2>1, <3>3, <4>1 DEF Tracks
      <4>3. WithInterval(Old(k)) = track[k]
        BY <2>1, <4>1, <4>2, WithIntervalGaps
      <4> QED BY <2>1, <3>3, <4>1, <4>2, <4>3 DEF HistoryInv
    <3> QED BY <3>1, <3>2, <3>3
  <2>6. \A l \in Keys \ {k} : seenAt'[l] = seenAt[l]
    BY <2>3 DEF HistoryInv
  <2>7. seenAt' \in [Keys -> Seq(Nat)]
    BY <2>3, <2>5 DEF HistoryInv
  <2>8. AlertThreshold' = AlertThreshold
    BY DEF AlertThreshold
  <2>9. ASSUME NEW l \in tracked'
        PROVE  /\ seenAt'[l] # <<>> /\ track'[l].last = Last(seenAt'[l])
               /\ Gaps(track'[l]) = LastN(Diffs(seenAt'[l]), MaxIntervals)
               /\ track'[l].seen >= Len(seenAt'[l])
               /\ Score(l, track'[l]) >= AlertThreshold => track'[l].alerted
    <3>1. CASE l = k
      BY <2>4, <2>5, <3>1
    <3>2. CASE l # k
      <4>1. l \in tracked /\ l \in Keys \ {k}
        BY <2>2, <3>2 DEF TypeInv, TypeOK
      <4> QED BY <2>1, <2>6, <4>1 DEF HistoryInv
    <3> QED BY <3>1, <3>2
  <2>10. \A l \in Keys \ tracked' : seenAt'[l] = <<>>
    BY <2>2, <2>6 DEF HistoryInv
  <2> QED BY <2>7, <2>8, <2>9, <2>10 DEF HistoryInv
<1>2. CASE UNCHANGED <<tracked, track, seenAt, alerts>>
  BY <1>2 DEF HistoryInv
<1> QED BY <1>1, <1>2, StepCases

\* Equal gaps have no jitter, so they look like a beacon.
LEMMA SteadyGapsBeacon ==
  ASSUME NEW g \in Seq(Int), Len(g) >= 3, NEW gap \in 2..600, \A i \in 1..Len(g) : g[i] = gap
  PROVE  Beaconing(g, 2)
<1> DEFINE n == Len(g)
           T == Total(g)
           d == [i \in DOMAIN g |-> Distance(n * g[i], T)]
<1>1. n \in Nat /\ DOMAIN g = 1..n /\ gap \in Int
  OBVIOUS
<1>2. T = n * gap
  BY <1>1, ConstantTotal
<1>3. \A i \in 1..n : Distance(n * g[i], T) = 0
  <2>1. \A i \in 1..n : n * g[i] = T
    BY <1>2
  <2>2. T \in Int
    BY <1>1, <1>2
  <2> HIDE DEF T, n
  <2> QED BY <2>1, <2>2 DEF Distance
<1>4. d = [i \in 1..n |-> 0]
  BY <1>1, <1>3
<1>5. d \in Seq(Int) /\ Len(d) = n /\ \A i \in 1..Len(d) : d[i] = 0
  BY <1>1, <1>4
<1>6. Total(d) = 0
  <2> HIDE DEF d
  <2>1. Total(d) = Len(d) * 0
    BY <1>5, ConstantTotal
  <2> QED BY <1>1, <1>5, <2>1
<1>7. 2 * n <= T /\ T <= 600 * n /\ 3 * n * T >= 0
  <2>1. 2 * n <= n * gap /\ n * gap <= 600 * n
    BY SMTT(30), <1>1
  <2>2. T \in Nat /\ 3 * n \in Nat
    BY <1>1, <1>2
  <2>3. \A x, y \in Nat : x * y >= 0
    OBVIOUS
  <2> QED BY <1>2, <2>1, <2>2, <2>3
<1>8. LowJitter(g)
  <2>1. 10 * Total(d) <= 3 * n * T
    BY <1>1, <1>6, <1>7
  <2> QED BY <2>1 DEF LowJitter
<1> QED BY <1>7, <1>8 DEF Beaconing, AverageWithin

LEMMA SteadyScore ==
  ASSUME NEW k \in Keys, NEW t, Beaconing(Gaps(t), 2), t.seen >= 4, "browser" \notin Exe[k]
  PROVE  Score(k, t) >= 85
<1> DEFINE w == If(k \in WebPorts, 5)
           s == If("suspicious" \in Exe[k], 30)
           score == 25 + 60 + w + s
<1>1. Score(k, t) = IF FALSE THEN 0 ELSE If(score > 100, 100) + If(score <= 100, score)
  BY DEF Score, ProcTcpScore, If
<1>2. w \in Nat /\ s \in Nat
  BY DEF If
<1> HIDE DEF w, s
<1> QED BY <1>1, <1>2 DEF If

LEMMA SteadyBeaconFound == AlertInv /\ HistoryInv /\ TypeInv => SteadyBeaconIsFound
<1> SUFFICES ASSUME AlertInv, HistoryInv, TypeInv,
                    NEW k \in tracked,
                    Len(seenAt[k]) >= 4,
                    seenAt[k][Len(seenAt[k])] - seenAt[k][Len(seenAt[k]) - 1] \in 2..600,
                    \A i \in (IF Len(seenAt[k]) > MaxIntervals + 1 THEN Len(seenAt[k]) - MaxIntervals
                              ELSE 1)..(Len(seenAt[k]) - 1) :
                      seenAt[k][i + 1] - seenAt[k][i]
                        = seenAt[k][Len(seenAt[k])] - seenAt[k][Len(seenAt[k]) - 1],
                    "browser" \notin Exe[k],
                    AlertThreshold <= 85
             PROVE  Alerted(k)
  BY DEF SteadyBeaconIsFound, Alerted
<1> DEFINE s == seenAt[k]
           n == Len(s)
           d == Diffs(s)
           g == Gaps(track[k])
           gap == s[n] - s[n - 1]
           m == MaxIntervals
<1>1. k \in Keys /\ s \in Seq(Nat) /\ n \in Nat /\ m \in Nat /\ m >= 3
  BY NetTrackAssumption DEF TypeInv, TypeOK, HistoryInv
<1>2. d \in Seq(Int) /\ Len(d) = n - 1 /\ \A i \in 1..(n - 1) : d[i] = s[i + 1] - s[i]
  <2>1. \A i \in 1..(n - 1) : s[i + 1] - s[i] \in Int
    BY <1>1
  <2> QED BY <1>1, <2>1 DEF Diffs
<1>3. /\ g \in Seq(Int) /\ Len(g) = (IF n - 1 > m THEN m ELSE n - 1)
      /\ \A i \in 1..Len(g) : g[i] = d[n - 1 - Len(g) + i]
  <2>1. g = LastN(d, m)
    BY DEF HistoryInv
  <2> HIDE DEF d, g
  <2>2. /\ g \in Seq(Int) /\ Len(g) = (IF Len(d) > m THEN m ELSE Len(d))
        /\ \A i \in 1..Len(g) : g[i] = d[Len(d) - Len(g) + i]
    <3>1. d \in Seq(Int) /\ m \in Nat
      BY <1>1, <1>2
    <3> HIDE DEF m
    <3>2. /\ LastN(d, m) \in Seq(Int)
          /\ Len(LastN(d, m)) = (IF Len(d) > m THEN m ELSE Len(d))
          /\ \A i \in 1..Len(LastN(d, m)) : LastN(d, m)[i] = d[Len(d) - Len(LastN(d, m)) + i]
      BY <3>1, LastNFacts
    <3> QED BY <2>1, <3>2
  <2> QED BY <1>2, <2>2
<1>4. ASSUME NEW i \in 1..Len(g) PROVE g[i] = gap
  <2> DEFINE j == n - 1 - Len(g) + i
  <2>1. j \in 1..(n - 1) /\ j \in (IF n > m + 1 THEN n - m ELSE 1)..(n - 1)
    <3> HIDE DEF g, n, m
    <3> QED BY <1>1, <1>3
  <2>2. g[i] = s[j + 1] - s[j]
    BY <1>2, <1>3, <2>1
  <2> HIDE DEF j
  <2> QED BY <2>1, <2>2
<1>5. Beaconing(g, 2)
  <2>1. Len(g) >= 3
    BY SMTT(30), <1>1, <1>3
  <2> HIDE DEF g, gap
  <2>2. gap \in 2..600
    BY DEF gap
  <2> QED BY <1>3, <1>4, <2>1, <2>2, SteadyGapsBeacon
<1>6. track[k].seen >= 4
  <2>1. track[k].seen >= n /\ track[k].seen \in Nat
    BY <1>1 DEF HistoryInv, TypeInv, TypeOK, Tracks
  <2> QED BY SMTT(30), <1>1, <2>1
<1>7. Score(k, track[k]) >= 85
  BY <1>1, <1>5, <1>6, SteadyScore
<1>8. Score(k, track[k]) >= AlertThreshold
  <2>1. AlertThreshold \in Int /\ Score(k, track[k]) \in Int
    BY NetTrackAssumption DEF AlertThreshold, Score, ProcTcpScore, If
  <2> QED BY <1>7, <2>1
<1>9. track[k].alerted
  BY <1>8 DEF HistoryInv
<1> QED BY SMTT(30), <1>1, <1>9 DEF AlertInv

\* A destination that was seen at equal distances often enough has been alerted on.
THEOREM SteadyBeaconsAreFound == Spec => []SteadyBeaconIsFound
BY TypeInvAlways, AlertInvAlways, HistoryInvInit, HistoryInvNext, SteadyBeaconFound, PTL DEF Spec
=============================================================================
