----------------------------- MODULE ContentProofs -----------------------------
(***************************************************************************)
(* What the services do to contents, for files, regions, buffers, blocks   *)
(* and archives of every size: the rotated log, the scan of a region, the  *)
(* copy of an executable and its hash.  Their models are built on folds    *)
(* over sequences, so the first part is about folds.                       *)
(***************************************************************************)
EXTENDS Services, FiniteSetTheorems, SequenceTheorems, TLAPS

-----------------------------------------------------------------------------
(***************************************************************************)
(* Induction over the numbers, for sets, and folds                         *)
(***************************************************************************)
\* Induction, with a set in the place of a predicate: a least number missing from S would make
\* the successor an injection of a finite set into itself that is not onto.
LEMMA NatInductionSet ==
  ASSUME NEW S, 0 \in S, \A n \in Nat : n \in S => n + 1 \in S
  PROVE  Nat \subseteq S
<1> SUFFICES ASSUME NEW m \in Nat, m \notin S PROVE FALSE
  OBVIOUS
<1> DEFINE T == {n \in 0..m : n \in S}
           f == [n \in T |-> n + 1]
<1>1. IsFiniteSet(T)
  <2>1. IsFiniteSet(0..m)
    BY FS_Interval
  <2> QED BY <2>1, FS_Subset
<1>2. \A n \in T : n + 1 \in T
  OBVIOUS
<1>3. f \in Injection(T, T)
  BY <1>2 DEF Injection, IsInjective
<1>4. f \in Surjection(T, T)
  BY <1>1, <1>3, FS_Injection
<1>5. 0 \in T
  OBVIOUS
<1>6. PICK n \in T : f[n] = 0
  BY <1>4, <1>5 DEF Surjection
<1> QED BY <1>6

\* The greatest member of a set, as a fold over a sequence chooses its indices.
Greatest(t) == CHOOSE x \in t : \A y \in t : x >= y

LEMMA GreatestIs ==
  ASSUME NEW t, NEW m \in t, t \subseteq Int, \A y \in t : m >= y
  PROVE  Greatest(t) = m
<1>1. \A x \in t : (\A y \in t : x >= y) => x = m
  OBVIOUS
<1> QED BY <1>1 DEF Greatest

LEMMA GreatestIn ==
  ASSUME NEW n \in Nat, NEW t \in SUBSET (1..n), t # {}
  PROVE  Greatest(t) \in t
<1> DEFINE S == {k \in Nat : \A u \in SUBSET (1..k) : u # {} => Greatest(u) \in u}
<1>1. 0 \in S
  <2>1. 1..0 = {}
    OBVIOUS
  <2> QED BY <2>1
<1>2. ASSUME NEW k \in Nat, k \in S
      PROVE  k + 1 \in S
  <2> SUFFICES ASSUME NEW u \in SUBSET (1..(k + 1)), u # {} PROVE Greatest(u) \in u
    OBVIOUS
  <2>1. CASE k + 1 \in u
    <3>1. u \subseteq Int /\ \A y \in u : k + 1 >= y
      OBVIOUS
    <3> QED BY <2>1, <3>1, GreatestIs
  <2>2. CASE k + 1 \notin u
    <3>1. u \in SUBSET (1..k)
      BY <2>2
    <3> QED BY <1>2, <3>1
  <2> QED BY <2>1, <2>2
<1>3. Nat \subseteq S
  <2> HIDE DEF S
  <2> QED BY <1>1, <1>2, NatInductionSet
<1> QED BY <1>3

\* The function that a fold over n indices computes: on each set of them, the fold of its places,
\* where F[i, v] is the value after place i when v is the value before.
IsFold(g, n, base, F) ==
  g = [t \in SUBSET (1..n) |->
         IF t = {} THEN base ELSE F[<<Greatest(t), g[t \ {Greatest(t)}]>>]]

\* There is one: a function for k indices is extended to one for k + 1.
LEMMA FoldExists ==
  ASSUME NEW n \in Nat, NEW V, NEW base \in V, NEW F \in [(1..n) \X V -> V]
  PROVE  \E g \in [SUBSET (1..n) -> V] : IsFold(g, n, base, F)
<1> DEFINE P(k) == \E g \in [SUBSET (1..k) -> V] : IsFold(g, k, base, F)
           N == {k \in Nat : k <= n => P(k)}
<1>1. 0 \in N
  <2>1. SUBSET (1..0) = {{}}
    OBVIOUS
  <2> DEFINE g == [t \in {{}} |-> base]
  <2>2. g \in [SUBSET (1..0) -> V] /\ IsFold(g, 0, base, F)
    BY <2>1 DEF IsFold
  <2> QED BY <2>2
<1>2. ASSUME NEW k \in Nat, k \in N
      PROVE  k + 1 \in N
  <2> SUFFICES ASSUME k + 1 <= n PROVE P(k + 1)
    <3> HIDE DEF P
    <3> QED OBVIOUS
  <2>0. P(k)
    <3> HIDE DEF P
    <3> QED BY <1>2
  <2>1. PICK g \in [SUBSET (1..k) -> V] : IsFold(g, k, base, F)
    BY <2>0
  <2>2. k + 1 \in 1..n
    OBVIOUS
  <2> DEFINE h == [t \in SUBSET (1..(k + 1)) |->
                     IF k + 1 \in t THEN F[<<k + 1, g[t \ {k + 1}]>>] ELSE g[t]]
  <2>3. ASSUME NEW t \in SUBSET (1..(k + 1)), k + 1 \in t
        PROVE  t \ {k + 1} \in SUBSET (1..k) /\ h[t] \in V
    <3>1. t \ {k + 1} \in SUBSET (1..k)
      OBVIOUS
    <3>2. h[t] = F[<<k + 1, g[t \ {k + 1}]>>] /\ g[t \ {k + 1}] \in V
      BY <2>3, <3>1
    <3> QED BY <2>2, <3>1, <3>2
  <2>4. ASSUME NEW t \in SUBSET (1..(k + 1)), k + 1 \notin t
        PROVE  t \in SUBSET (1..k) /\ h[t] = g[t] /\ h[t] \in V
    <3>1. t \in SUBSET (1..k)
      BY <2>4
    <3> QED BY <2>4, <3>1
  <2>5. ASSUME NEW t \in SUBSET (1..(k + 1))
        PROVE  h[t] = IF t = {} THEN base ELSE F[<<Greatest(t), h[t \ {Greatest(t)}]>>]
    <3>1. CASE k + 1 \in t
      <4>1. Greatest(t) = k + 1
        <5>1. t \subseteq Int /\ \A y \in t : k + 1 >= y
          OBVIOUS
        <5> QED BY <3>1, <5>1, GreatestIs
      <4>2. t \ {k + 1} \in SUBSET (1..(k + 1)) /\ k + 1 \notin t \ {k + 1}
        OBVIOUS
      <4>3. h[t \ {k + 1}] = g[t \ {k + 1}]
        BY <4>2
      <4> QED BY <3>1, <4>1, <4>3
    <3>2. CASE k + 1 \notin t
      <4>1. t \in SUBSET (1..k) /\ h[t] = g[t]
        BY <2>4, <3>2
      <4>2. g[t] = IF t = {} THEN base ELSE F[<<Greatest(t), g[t \ {Greatest(t)}]>>]
        BY <2>1, <4>1 DEF IsFold
      <4>3. h[t \ {Greatest(t)}] = g[t \ {Greatest(t)}]
        BY <3>2
      <4> QED BY <4>1, <4>2, <4>3
    <3> QED BY <3>1, <3>2
  <2>6. h \in [SUBSET (1..(k + 1)) -> V]
    <3>1. \A t \in SUBSET (1..(k + 1)) : h[t] \in V
      BY <2>3, <2>4
    <3> HIDE DEF h
    <3>2. h = [t \in SUBSET (1..(k + 1)) |-> h[t]]
      BY DEF h
    <3> QED BY <3>1, <3>2
  <2>7. IsFold(h, k + 1, base, F)
    <3> HIDE DEF h
    <3>1. h = [t \in SUBSET (1..(k + 1)) |-> h[t]]
      BY DEF h
    <3> QED BY <2>5, <3>1 DEF IsFold
  <2> HIDE DEF h
  <2> QED BY <2>6, <2>7
<1>3. Nat \subseteq N
  <2> HIDE DEF N
  <2> QED BY <1>1, <1>2, NatInductionSet
<1> QED BY <1>3

\* A fold goes through the beginnings of its indices.
LEMMA BeginningStep ==
  ASSUME NEW n \in Nat, NEW k \in 1..n
  PROVE  /\ 1..k # {} /\ 1..k \in SUBSET (1..n)
         /\ Greatest(1..k) = k /\ (1..k) \ {k} = 1..(k - 1)
<1>1. k \in 1..k /\ 1..k \subseteq Int /\ \A y \in 1..k : k >= y
  OBVIOUS
<1>2. Greatest(1..k) = k
  BY <1>1, GreatestIs
<1>3. (1..k) \ {k} = 1..(k - 1)
  OBVIOUS
<1>4. 1..k # {} /\ 1..k \in SUBSET (1..n)
  BY <1>1
<1> QED BY <1>2, <1>3, <1>4

-----------------------------------------------------------------------------
(***************************************************************************)
(* The size of a file                                                      *)
(***************************************************************************)
\* A behaviour of the services is one of the rotation.
LEMMA ServicesAreRotate == ServicesSpec => Rotate!Spec
<1>1. ServicesInit => Rotate!Init
  BY DEF ServicesInit
<1>2. [ServicesNext]_allVars => [Rotate!Next]_(Rotate!vars)
  <2>1. UNCHANGED rotateVars => UNCHANGED Rotate!vars
    BY DEF rotateVars, Rotate!vars
  <2> QED BY <2>1 DEF ServicesNext, allVars
<1> QED BY <1>1, <1>2, PTL DEF ServicesSpec, Rotate!Spec

LineNumbers == 1..Len(LineSize)

\* The sizes of the beginnings of a file.
IsSizes(g, f) ==
  g = [t \in SUBSET DOMAIN f |->
         IF t = {} THEN 0 ELSE g[t \ {Greatest(t)}] + LineSize[f[Greatest(t)]]]
Sizes(f) == CHOOSE g : IsSizes(g, f)

LEMMA SizeIs ==
  ASSUME NEW f
  PROVE  Rotate!Size(f) = Sizes(f)[DOMAIN f]
BY DEF Rotate!Size, Rotate!FoldLeft, Rotate!MapThenFoldSet, Rotate!Max, Sizes, IsSizes, Greatest

LEMMA SizesExist ==
  ASSUME NEW f \in Seq(LineNumbers)
  PROVE  IsSizes(Sizes(f), f)
<1>0. LineSize \in Seq(Nat \ {0}) /\ DOMAIN f = 1..Len(f) /\ Len(f) \in Nat
  BY ServicesAssumption
<1> DEFINE F == [x \in (1..Len(f)) \X Nat |-> x[2] + LineSize[f[x[1]]]]
<1>1. \A k \in 1..Len(f) : LineSize[f[k]] \in Nat
  BY <1>0 DEF LineNumbers
<1>2. F \in [(1..Len(f)) \X Nat -> Nat]
  BY <1>1
<1>3. \A k \in 1..Len(f), v \in Nat : F[<<k, v>>] = v + LineSize[f[k]]
  OBVIOUS
<1> HIDE DEF F
<1>4. PICK g \in [SUBSET (1..Len(f)) -> Nat] : IsFold(g, Len(f), 0, F)
  BY <1>0, <1>2, FoldExists
<1>5. ASSUME NEW t \in SUBSET (1..Len(f)), t # {}
      PROVE  Greatest(t) \in 1..Len(f)
  BY <1>0, <1>5, GreatestIn
<1>6. ASSUME NEW t \in SUBSET (1..Len(f))
      PROVE  g[t] = IF t = {} THEN 0 ELSE g[t \ {Greatest(t)}] + LineSize[f[Greatest(t)]]
  <2>1. g[t] = IF t = {} THEN 0 ELSE F[<<Greatest(t), g[t \ {Greatest(t)}]>>]
    BY <1>4 DEF IsFold
  <2>2. t \ {Greatest(t)} \in SUBSET (1..Len(f))
    OBVIOUS
  <2>3. g[t \ {Greatest(t)}] \in Nat
    BY <1>4, <2>2
  <2> QED BY <1>3, <1>5, <2>1, <2>3
<1>7. IsSizes(g, f)
  <2>1. g = [t \in SUBSET DOMAIN f |-> g[t]]
    BY <1>0, <1>4
  <2> QED BY <1>0, <1>6, <2>1 DEF IsSizes
<1> QED BY <1>7 DEF Sizes

LEMMA SizesSteps ==
  ASSUME NEW f \in Seq(LineNumbers)
  PROVE  /\ Sizes(f)[{}] = 0
         /\ \A k \in 1..Len(f) : Sizes(f)[1..k] = Sizes(f)[1..(k - 1)] + LineSize[f[k]]
<1>0. DOMAIN f = 1..Len(f) /\ Len(f) \in Nat
  OBVIOUS
<1>1. \A t \in SUBSET (1..Len(f)) :
        Sizes(f)[t] = IF t = {} THEN 0 ELSE Sizes(f)[t \ {Greatest(t)}] + LineSize[f[Greatest(t)]]
  BY <1>0, SizesExist DEF IsSizes
<1>2. ASSUME NEW k \in 1..Len(f)
      PROVE  Sizes(f)[1..k] = Sizes(f)[1..(k - 1)] + LineSize[f[k]]
  BY <1>0, <1>1, BeginningStep, ZenonT(60)
<1> QED BY <1>1, <1>2

LEMMA SizeOfEmpty == Rotate!Size(<<>>) = 0
<1>1. <<>> \in Seq(LineNumbers) /\ DOMAIN <<>> = {}
  OBVIOUS
<1> QED BY <1>1, SizesSteps, SizeIs

\* A file with one line more.
LEMMA SizeOfAppended ==
  ASSUME NEW f \in Seq(LineNumbers), NEW l \in LineNumbers
  PROVE  Rotate!Size(Append(f, l)) = Rotate!Size(f) + LineSize[l]
<1> DEFINE h == Append(f, l)
           n == Len(f)
           N == {k \in Nat : k <= n => Sizes(h)[1..k] = Sizes(f)[1..k]}
<1>1. /\ h \in Seq(LineNumbers) /\ n \in Nat /\ Len(h) = n + 1
      /\ DOMAIN f = 1..n /\ DOMAIN h = 1..(n + 1)
      /\ h[n + 1] = l /\ \A k \in 1..n : h[k] = f[k]
  OBVIOUS
<1> HIDE DEF h
<1>2. 0 \in N
  <2>1. 1..0 = {}
    OBVIOUS
  <2> QED BY <1>1, <2>1, SizesSteps
<1>3. ASSUME NEW k \in Nat, k \in N
      PROVE  k + 1 \in N
  <2> SUFFICES ASSUME k + 1 <= n PROVE Sizes(h)[1..(k + 1)] = Sizes(f)[1..(k + 1)]
    OBVIOUS
  <2>1. k + 1 \in 1..n /\ k + 1 \in 1..Len(h) /\ (k + 1) - 1 = k
    BY <1>1
  <2>2. /\ Sizes(h)[1..(k + 1)] = Sizes(h)[1..k] + LineSize[h[k + 1]]
        /\ Sizes(f)[1..(k + 1)] = Sizes(f)[1..k] + LineSize[f[k + 1]]
    BY <1>1, <2>1, SizesSteps
  <2>3. Sizes(h)[1..k] = Sizes(f)[1..k]
    BY <1>1, <1>3, <2>1
  <2> QED BY <1>1, <2>1, <2>2, <2>3
<1>4. Nat \subseteq N
  <2> HIDE DEF N
  <2> QED BY <1>2, <1>3, NatInductionSet
<1>5. Sizes(h)[1..n] = Sizes(f)[1..n]
  BY <1>1, <1>4
<1>6. n + 1 \in 1..Len(h) /\ (n + 1) - 1 = n
  BY <1>1
<1>7. Sizes(h)[1..(n + 1)] = Sizes(h)[1..n] + LineSize[l]
  BY <1>1, <1>6, SizesSteps
<1> HIDE DEF n
<1> QED BY <1>1, <1>5, <1>7, SizeIs DEF h

LEMMA SizeIsNat ==
  ASSUME NEW f \in Seq(LineNumbers)
  PROVE  Rotate!Size(f) \in Nat
<1>0. LineSize \in Seq(Nat \ {0}) /\ DOMAIN f = 1..Len(f) /\ Len(f) \in Nat
  BY ServicesAssumption
<1> DEFINE N == {k \in Nat : k <= Len(f) => Sizes(f)[1..k] \in Nat}
<1>1. 0 \in N
  <2>1. 1..0 = {}
    OBVIOUS
  <2> QED BY <2>1, SizesSteps
<1>2. ASSUME NEW k \in Nat, k \in N
      PROVE  k + 1 \in N
  <2> SUFFICES ASSUME k + 1 <= Len(f) PROVE Sizes(f)[1..(k + 1)] \in Nat
    OBVIOUS
  <2>1. k + 1 \in 1..Len(f) /\ (k + 1) - 1 = k
    BY <1>0
  <2>2. LineSize[f[k + 1]] \in Nat
    BY <1>0, <2>1 DEF LineNumbers
  <2>3. Sizes(f)[1..(k + 1)] = Sizes(f)[1..k] + LineSize[f[k + 1]]
    BY <2>1, SizesSteps
  <2> QED BY <1>2, <2>1, <2>2, <2>3
<1>3. Nat \subseteq N
  <2> HIDE DEF N
  <2> QED BY <1>1, <1>2, NatInductionSet
<1> QED BY <1>0, <1>3, SizeIs

-----------------------------------------------------------------------------
(***************************************************************************)
(* The files of the log                                                    *)
(***************************************************************************)
LEMMA LineFacts ==
  /\ LineSize \in Seq(Nat \ {0}) /\ Len(LineSize) \in Nat
  /\ ArchiveCounts \subseteq Nat /\ MaxBytes \in Nat \ {0}
  /\ \A l \in LineNumbers : LineSize[l] \in Nat \ {0}
BY ServicesAssumption DEF LineNumbers

Rotating == rpc \in {"truncate", "unlink"} \/ (rpc = "rename" /\ moving >= 0)

\* The size that is measured before a line, without the last line of the file.
SizeBefore(f) == Rotate!Size(f) - LineSize[f[Len(f)]]

\* The files there are, the oldest below archives; the one that is renamed next has a free name to
\* go to, as the others before it went.  Whatever was renamed was full, as the log is while it is
\* rotated, and no file had its size before its last line.
FilesInv ==
  /\ archives \in Nat /\ written \in 0..Len(LineSize) /\ crashes \in Nat
  /\ rpc \in {"down", "idle", "truncate", "unlink", "rename"}
  /\ DOMAIN disk \subseteq 0..archives
  /\ disk \in [DOMAIN disk -> Seq(LineNumbers)]
  /\ fp => rpc = "idle" /\ 0 \in DOMAIN disk
  /\ rpc \in {"truncate", "unlink", "rename"} => written < Len(LineSize)
  /\ rpc = "truncate" => archives = 0
  /\ rpc = "unlink" => archives >= 1
  /\ rpc = "rename" => moving \in -1..(archives - 1) /\ moving + 1 \notin DOMAIN disk
  /\ Rotating => 0 \in DOMAIN disk /\ Rotate!Size(disk[0]) >= MaxBytes
  /\ \A i \in DOMAIN disk \ {0} : Rotate!Size(disk[i]) >= MaxBytes
  /\ \A i \in DOMAIN disk : disk[i] # <<>> => SizeBefore(disk[i]) < MaxBytes

\* A line into a file that is below its size.
LEMMA LineFits ==
  ASSUME NEW f \in Seq(LineNumbers), NEW l \in LineNumbers, Rotate!Size(f) < MaxBytes
  PROVE  Append(f, l) \in Seq(LineNumbers) /\ SizeBefore(Append(f, l)) < MaxBytes
<1>1. /\ Append(f, l) \in Seq(LineNumbers)
      /\ Append(f, l)[Len(Append(f, l))] = l
  OBVIOUS
<1>2. /\ Rotate!Size(Append(f, l)) = Rotate!Size(f) + LineSize[l]
      /\ Rotate!Size(f) \in Nat /\ LineSize[l] \in Nat
  BY SizeOfAppended, SizeIsNat, LineFacts
<1>3. SizeBefore(Append(f, l)) = Rotate!Size(f)
  BY <1>1, <1>2 DEF SizeBefore
<1> QED BY <1>1, <1>3

LEMMA EmptyFits == <<>> \in Seq(LineNumbers) /\ Rotate!Size(<<>>) < MaxBytes
BY SizeOfEmpty, LineFacts

\* The log gets a line and is open; the archives stay.
LEMMA LogExtended ==
  ASSUME FilesInv, NEW f \in Seq(LineNumbers), Rotate!Size(f) < MaxBytes,
         written < Len(LineSize), written' = written + 1, archives' = archives, crashes' = crashes,
         rpc' = "idle",
         DOMAIN disk' = DOMAIN disk \union {0}, disk'[0] = Append(f, written + 1),
         \A i \in DOMAIN disk \ {0} : disk'[i] = disk[i],
         disk' = [i \in DOMAIN disk' |-> disk'[i]]
  PROVE  FilesInv'
<1>1. written + 1 \in LineNumbers /\ written + 1 \in 0..Len(LineSize)
  BY LineFacts DEF FilesInv, LineNumbers
<1>2. disk'[0] \in Seq(LineNumbers) /\ SizeBefore(disk'[0]) < MaxBytes
  BY <1>1, LineFits
<1>3. 0 \in 0..archives
  BY DEF FilesInv
<1>4. \A i \in DOMAIN disk' : disk'[i] \in Seq(LineNumbers)
  BY <1>2 DEF FilesInv
<1>5. disk' \in [DOMAIN disk' -> Seq(LineNumbers)]
  BY <1>4
<1>6. \A i \in DOMAIN disk' \ {0} : i \in DOMAIN disk \ {0} /\ disk'[i] = disk[i]
  OBVIOUS
<1>7. /\ \A i \in DOMAIN disk' \ {0} : Rotate!Size(disk'[i]) >= MaxBytes
      /\ \A i \in DOMAIN disk' : disk'[i] # <<>> => SizeBefore(disk'[i]) < MaxBytes
  BY <1>2, <1>6 DEF FilesInv
<1>8. ~Rotating' /\ rpc' = "idle" /\ 0 \in DOMAIN disk'
  BY DEF Rotating
<1> QED BY <1>1, <1>3, <1>5, <1>7, <1>8 DEF FilesInv, SizeBefore

LEMMA FilesInit == Rotate!Init => FilesInv
<1> SUFFICES ASSUME Rotate!Init PROVE FilesInv
  OBVIOUS
<1>1. DOMAIN disk = {} /\ disk = [i \in {} |-> <<>>]
  BY DEF Rotate!Init
<1>2. disk \in [DOMAIN disk -> Seq(LineNumbers)]
  BY <1>1
<1> QED BY <1>1, <1>2, LineFacts DEF Rotate!Init, FilesInv, Rotating

\* rename of archive moving: the archives are the same under other names.
LEMMA RenamedFacts ==
  ASSUME FilesInv, Rotate!Rename
  PROVE  /\ moving \in 0..(archives - 1) /\ moving' = moving - 1 /\ rpc = "rename"
         /\ moving \notin DOMAIN disk => disk' = disk /\ moving # 0
         /\ moving \in DOMAIN disk =>
              /\ DOMAIN disk' = (DOMAIN disk \ {moving}) \union {moving + 1}
              /\ disk'[moving + 1] = disk[moving]
              /\ \A i \in DOMAIN disk \ {moving} : i # moving + 1 /\ disk'[i] = disk[i]
              /\ disk' = [i \in DOMAIN disk' |-> disk'[i]]
<1>1. /\ rpc = "rename" /\ moving >= 0 /\ moving' = moving - 1
      /\ disk' = Rotate!Renamed(moving, moving + 1)
  BY DEF Rotate!Rename
<1>2. moving \in 0..(archives - 1) /\ moving + 1 \notin DOMAIN disk
  BY <1>1 DEF FilesInv
<1>3. 0 \in DOMAIN disk
  BY <1>1 DEF FilesInv, Rotating
<1>4. CASE moving \notin DOMAIN disk
  BY <1>1, <1>2, <1>3, <1>4 DEF Rotate!Renamed, Rotate!Files
<1>5. CASE moving \in DOMAIN disk
  <2>1. disk' = [f \in (DOMAIN disk \ {moving}) \union {moving + 1} |->
                   IF f = moving + 1 THEN disk[moving] ELSE disk[f]]
    BY <1>1, <1>5 DEF Rotate!Renamed, Rotate!Files
  <2> QED BY <1>1, <1>2, <1>5, <2>1
<1> QED BY <1>4, <1>5

LEMMA RenameKeepsFiles ==
  ASSUME FilesInv, Rotate!Rename
  PROVE  FilesInv'
<1>0. /\ archives' = archives /\ written' = written /\ crashes' = crashes /\ fp' = fp
      /\ rpc' = "rename" /\ ~fp /\ written < Len(LineSize)
  BY DEF Rotate!Rename, FilesInv
<1>1. moving \in 0..(archives - 1) /\ moving' = moving - 1 /\ rpc = "rename"
  BY RenamedFacts
<1>2. moving' \in -1..(archives' - 1) /\ moving' + 1 = moving /\ archives \in Nat
  BY <1>0, <1>1 DEF FilesInv
<1>3. CASE moving \notin DOMAIN disk
  <2>1. disk' = disk /\ Rotating
    BY <1>1, <1>3, RenamedFacts DEF Rotating
  <2> QED BY <1>0, <1>2, <1>3, <2>1 DEF FilesInv, Rotating, SizeBefore
<1>4. CASE moving \in DOMAIN disk
  <2>1. /\ DOMAIN disk' = (DOMAIN disk \ {moving}) \union {moving + 1}
        /\ disk'[moving + 1] = disk[moving]
        /\ \A i \in DOMAIN disk \ {moving} : disk'[i] = disk[i]
        /\ disk' = [i \in DOMAIN disk' |-> disk'[i]]
    BY <1>4, RenamedFacts
  <2>2. ASSUME NEW i \in DOMAIN disk'
        PROVE  \E j \in DOMAIN disk : disk'[i] = disk[j] /\ (i # 0 /\ j = 0 => moving = 0)
    <3>1. CASE i = moving + 1
      BY <1>1, <1>4, <2>1, <3>1
    <3>2. CASE i # moving + 1
      BY <2>1, <3>2
    <3> QED BY <3>1, <3>2
  <2>3. Rotating
    BY <1>1 DEF Rotating
  <2>4. disk' \in [DOMAIN disk' -> Seq(LineNumbers)]
    <3>1. \A i \in DOMAIN disk' : disk'[i] \in Seq(LineNumbers)
      BY <2>2 DEF FilesInv
    <3> QED BY <2>1, <3>1
  <2>5. \A i \in DOMAIN disk' \ {0} : Rotate!Size(disk'[i]) >= MaxBytes
    BY <2>2, <2>3 DEF FilesInv
  <2>6. \A i \in DOMAIN disk' : disk'[i] # <<>> => SizeBefore(disk'[i]) < MaxBytes
    BY <2>2 DEF FilesInv
  <2>7. DOMAIN disk' \subseteq 0..archives' /\ moving' + 1 \notin DOMAIN disk'
    <3>1. moving + 1 \in 0..archives /\ moving # moving + 1
      BY <1>1, <1>2
    <3> QED BY <1>0, <1>2, <2>1, <3>1 DEF FilesInv
  <2>8. Rotating' => 0 \in DOMAIN disk' /\ Rotate!Size(disk'[0]) >= MaxBytes
    <3> SUFFICES ASSUME Rotating' PROVE 0 \in DOMAIN disk' /\ Rotate!Size(disk'[0]) >= MaxBytes
      OBVIOUS
    <3>1. moving # 0
      BY <1>0, <1>1 DEF Rotating
    <3> QED BY <2>1, <2>3, <3>1 DEF FilesInv
  <2> QED BY <1>0, <1>2, <2>4, <2>5, <2>6, <2>7, <2>8 DEF FilesInv, SizeBefore
<1> QED BY <1>3, <1>4

LEMMA FilesNext == FilesInv /\ [Rotate!Next]_(Rotate!vars) => FilesInv'
<1> SUFFICES ASSUME FilesInv, [Rotate!Next]_(Rotate!vars) PROVE FilesInv'
  OBVIOUS
<1>0. /\ archives \in Nat /\ written \in Nat /\ Len(LineSize) \in Nat
      /\ disk \in [DOMAIN disk -> Seq(LineNumbers)]
  BY LineFacts DEF FilesInv
<1>1. CASE Rotate!Start
  <2>1. /\ archives' = archives /\ written' = written /\ crashes' = crashes
        /\ rpc = "down" /\ rpc' = "idle" /\ ~fp
    BY <1>1 DEF Rotate!Start, FilesInv
  <2>2. CASE disk' = Rotate!Opened
    <3>1. /\ DOMAIN disk' = DOMAIN disk \union {0}
          /\ \A i \in DOMAIN disk' : disk'[i] = IF i \in DOMAIN disk THEN disk[i] ELSE <<>>
          /\ disk' = [i \in DOMAIN disk' |-> disk'[i]]
      BY <2>2 DEF Rotate!Opened, Rotate!Files
    <3>2. \A i \in DOMAIN disk' : disk'[i] \in Seq(LineNumbers)
      BY <1>0, <3>1, EmptyFits
    <3>3. disk' \in [DOMAIN disk' -> Seq(LineNumbers)]
      BY <3>1, <3>2
    <3>4. 0 \in 0..archives /\ ~Rotating'
      BY <1>0, <2>1 DEF Rotating
    <3> QED BY <2>1, <3>1, <3>3, <3>4 DEF FilesInv, SizeBefore
  <2>3. CASE disk' = disk /\ fp' = fp
    BY <2>1, <2>3 DEF FilesInv, Rotating, SizeBefore
  <2> QED BY <1>1, <2>2, <2>3 DEF Rotate!Start
<1>2. CASE Rotate!WriteLine
  <2>1. /\ archives' = archives /\ written' = written + 1 /\ crashes' = crashes
        /\ rpc' = "idle" /\ rpc = "idle" /\ fp /\ written < Len(LineSize)
        /\ ~(Rotate!Size(disk[0]) >= MaxBytes)
        /\ disk' = [disk EXCEPT ![0] = Append(@, written + 1)]
    BY <1>2 DEF Rotate!WriteLine, Rotate!Extended, Rotate!NeedsRotation, Rotate!MaxLines
  <2>2. 0 \in DOMAIN disk /\ disk[0] \in Seq(LineNumbers)
    BY <1>0, <2>1 DEF FilesInv
  <2>3. Rotate!Size(disk[0]) < MaxBytes
    BY <2>1, <2>2, SizeIsNat, LineFacts
  <2>4. /\ DOMAIN disk' = DOMAIN disk \union {0} /\ disk'[0] = Append(disk[0], written + 1)
        /\ \A i \in DOMAIN disk \ {0} : disk'[i] = disk[i]
        /\ disk' = [i \in DOMAIN disk' |-> disk'[i]]
    BY <2>1, <2>2
  <2> QED BY <2>1, <2>2, <2>3, <2>4, LogExtended
<1>3. CASE Rotate!BeginRotation
  <2>1. /\ UNCHANGED <<archives, disk, moving, written, crashes>>
        /\ rpc = "idle" /\ fp /\ fp' = FALSE /\ written < Len(LineSize)
        /\ rpc' = IF archives < 1 THEN "truncate" ELSE "unlink"
        /\ Rotate!Size(disk[0]) >= MaxBytes
    BY <1>3 DEF Rotate!BeginRotation, Rotate!NeedsRotation, Rotate!MaxLines
  <2>2. (rpc' = "truncate" => archives = 0) /\ (rpc' = "unlink" => archives >= 1)
    BY <1>0, <2>1
  <2> QED BY <2>1, <2>2 DEF FilesInv, Rotating, SizeBefore
<1>4. CASE Rotate!Truncate
  <2>1. /\ archives' = archives /\ crashes' = crashes /\ rpc = "truncate" /\ rpc' = "idle" /\ ~fp
        /\ 0 \in DOMAIN disk /\ written < Len(LineSize)
    BY <1>4 DEF Rotate!Truncate, FilesInv, Rotating
  <2>2. CASE disk' = Rotate!Extended([disk EXCEPT ![0] = <<>>]) /\ written' = written + 1
    <3>1. /\ DOMAIN disk' = DOMAIN disk \union {0} /\ disk'[0] = Append(<<>>, written + 1)
          /\ \A i \in DOMAIN disk \ {0} : disk'[i] = disk[i]
          /\ disk' = [i \in DOMAIN disk' |-> disk'[i]]
      BY <2>1, <2>2 DEF Rotate!Extended
    <3> QED BY <2>1, <2>2, <3>1, LogExtended, EmptyFits
  <2>3. CASE UNCHANGED <<fp, disk, written>>
    BY <2>1, <2>3 DEF FilesInv, Rotating, SizeBefore
  <2> QED BY <1>4, <2>2, <2>3 DEF Rotate!Truncate
<1>5. CASE Rotate!UnlinkOldest
  <2>1. /\ UNCHANGED <<archives, fp, written, crashes>> /\ rpc = "unlink" /\ rpc' = "rename" /\ ~fp
        /\ moving' = archives - 1 /\ archives >= 1 /\ written < Len(LineSize)
        /\ disk' = [f \in DOMAIN disk \ {archives} |-> disk[f]]
    BY <1>5 DEF Rotate!UnlinkOldest, Rotate!Without, Rotate!Files, FilesInv
  <2>2. /\ DOMAIN disk' = DOMAIN disk \ {archives}
        /\ \A i \in DOMAIN disk' : disk'[i] = disk[i]
        /\ disk' \in [DOMAIN disk' -> Seq(LineNumbers)]
    BY <1>0, <2>1
  <2>3. moving' \in -1..(archives' - 1) /\ moving' + 1 = archives /\ archives # 0
    BY <1>0, <2>1
  <2>4. Rotating
    BY <2>1 DEF Rotating
  <2> QED BY <2>1, <2>2, <2>3, <2>4 DEF FilesInv, SizeBefore
<1>6. CASE Rotate!Rename
  BY <1>6, RenameKeepsFiles
<1>7. CASE Rotate!Reopen
  <2>1. /\ archives' = archives /\ crashes' = crashes /\ rpc = "rename" /\ rpc' = "idle" /\ ~fp
        /\ moving < 0 /\ moving \in -1..(archives - 1) /\ moving + 1 \notin DOMAIN disk
        /\ written < Len(LineSize)
    BY <1>7 DEF Rotate!Reopen, FilesInv
  <2>2. 0 \notin DOMAIN disk
    BY <1>0, <2>1
  <2>3. CASE disk' = Rotate!Extended(Rotate!Opened) /\ written' = written + 1
    <3>1. /\ DOMAIN disk' = DOMAIN disk \union {0} /\ disk'[0] = Append(<<>>, written + 1)
          /\ \A i \in DOMAIN disk \ {0} : disk'[i] = disk[i]
          /\ disk' = [i \in DOMAIN disk' |-> disk'[i]]
      BY <2>2, <2>3 DEF Rotate!Extended, Rotate!Opened, Rotate!Files
    <3> QED BY <2>1, <2>3, <3>1, LogExtended, EmptyFits
  <2>4. CASE UNCHANGED <<fp, disk, written>>
    BY <2>1, <2>4 DEF FilesInv, Rotating, SizeBefore
  <2> QED BY <1>7, <2>3, <2>4 DEF Rotate!Reopen
<1>8. CASE Rotate!Crash
  <2>1. /\ UNCHANGED <<archives, disk, moving, written>> /\ crashes' = crashes + 1
        /\ rpc' = "down" /\ fp' = FALSE
    BY <1>8 DEF Rotate!Crash
  <2>2. crashes' \in Nat
    BY <2>1 DEF FilesInv
  <2> QED BY <2>1, <2>2 DEF FilesInv, Rotating, SizeBefore
<1>9. CASE UNCHANGED Rotate!vars
  BY <1>9 DEF Rotate!vars, FilesInv, Rotating, SizeBefore
<1> QED BY <1>1, <1>2, <1>3, <1>4, <1>5, <1>6, <1>7, <1>8, <1>9 DEF Rotate!Next

LEMMA FilesAlways == ServicesSpec => []FilesInv
<1> QED BY ServicesAreRotate, FilesInit, FilesNext, PTL DEF Rotate!Spec

\* No log file outgrows its size by more than the line that reached it, and none is older than the
\* oldest archive, for every number of archives, every length of lines and wherever the daemon
\* crashes or fails to open a file (write_line, rotate_if_needed).
THEOREM DiskStaysBounded == ServicesSpec => []DiskIsBounded
<1>1. FilesInv => DiskIsBounded
  BY DEF FilesInv, SizeBefore, DiskIsBounded, Rotate!DiskIsBounded, Rotate!Files
<1> QED BY <1>1, FilesAlways, PTL

-----------------------------------------------------------------------------
(***************************************************************************)
(* Files that hold consecutive lines                                       *)
(***************************************************************************)
\* The lines after the first lo, up to hi.
Interval(lo, hi) == [k \in 1..(hi - lo) |-> lo + k]

LEMMA IntervalFacts ==
  ASSUME NEW lo \in Nat, NEW hi \in Nat, lo <= hi, hi <= Len(LineSize)
  PROVE  Interval(lo, hi) \in Seq(LineNumbers) /\ Len(Interval(lo, hi)) = hi - lo
<1>1. hi - lo \in Nat /\ \A k \in 1..(hi - lo) : lo + k \in LineNumbers
  BY LineFacts DEF LineNumbers
<1> QED BY <1>1 DEF Interval

LEMMA NothingIsInterval ==
  ASSUME NEW lo \in Nat
  PROVE  Interval(lo, lo) = <<>>
<1>1. 1..(lo - lo) = {}
  OBVIOUS
<1> QED BY <1>1 DEF Interval

LEMMA IntervalExtended ==
  ASSUME NEW lo \in Nat, NEW hi \in Nat, lo <= hi
  PROVE  Append(Interval(lo, hi), hi + 1) = Interval(lo, hi + 1)
<1> DEFINE n == hi - lo
           s == Append(Interval(lo, hi), hi + 1)
<1>1. n \in Nat /\ (hi + 1) - lo = n + 1 /\ lo + (n + 1) = hi + 1
  OBVIOUS
<1>2. /\ Interval(lo, hi) \in Seq(Nat) /\ Len(Interval(lo, hi)) = n
      /\ \A k \in 1..n : Interval(lo, hi)[k] = lo + k
  BY <1>1 DEF Interval
<1>3. /\ DOMAIN s = 1..(n + 1) /\ s[n + 1] = hi + 1 /\ \A k \in 1..n : s[k] = Interval(lo, hi)[k]
      /\ s = [k \in DOMAIN s |-> s[k]]
  BY <1>2
<1> HIDE DEF n, s
<1>4. \A k \in 1..(n + 1) : s[k] = lo + k
  BY <1>1, <1>2, <1>3, SMTT(30)
<1>5. s = [k \in 1..(n + 1) |-> lo + k]
  BY <1>3, <1>4
<1>6. Interval(lo, hi + 1) = [k \in 1..(n + 1) |-> lo + k]
  BY <1>1 DEF Interval
<1> QED BY <1>5, <1>6 DEF s

LEMMA JoinedFacts ==
  ASSUME NEW S, NEW s \in Seq(S), NEW t \in Seq(S)
  PROVE  /\ s \o t \in Seq(S) /\ Len(s \o t) = Len(s) + Len(t)
         /\ DOMAIN (s \o t) = 1..(Len(s) + Len(t))
         /\ \A k \in 1..(Len(s) + Len(t)) : (s \o t)[k] = IF k <= Len(s) THEN s[k] ELSE t[k - Len(s)]
<1> DEFINE u == s \o t
<1>1. /\ u \in Seq(S) /\ Len(u) = Len(s) + Len(t)
      /\ \A k \in 1..(Len(s) + Len(t)) : u[k] = IF k <= Len(s) THEN s[k] ELSE t[k - Len(s)]
  BY ConcatProperties
<1> HIDE DEF u
<1>2. DOMAIN u = 1..Len(u)
  BY <1>1
<1> QED BY <1>1, <1>2 DEF u

LEMMA IntervalsJoin ==
  ASSUME NEW a1 \in Nat, NEW a2 \in Nat, NEW a3 \in Nat, a1 <= a2, a2 <= a3
  PROVE  Interval(a1, a2) \o Interval(a2, a3) = Interval(a1, a3)
<1> DEFINE m == a2 - a1
           n == a3 - a2
           s == Interval(a1, a2) \o Interval(a2, a3)
<1>1. m \in Nat /\ n \in Nat /\ a3 - a1 = m + n /\ a1 + m = a2
  OBVIOUS
<1>2. /\ Interval(a1, a2) \in Seq(Nat) /\ Len(Interval(a1, a2)) = m
      /\ Interval(a2, a3) \in Seq(Nat) /\ Len(Interval(a2, a3)) = n
      /\ \A k \in 1..m : Interval(a1, a2)[k] = a1 + k
      /\ \A k \in 1..n : Interval(a2, a3)[k] = a2 + k
  BY <1>1 DEF Interval
<1>3. /\ DOMAIN s = 1..(m + n) /\ s \in Seq(Nat)
      /\ \A k \in 1..(m + n) :
           s[k] = IF k <= m THEN Interval(a1, a2)[k] ELSE Interval(a2, a3)[k - m]
  <2> HIDE DEF m, n
  <2> QED BY <1>2, JoinedFacts, ZenonT(60)
<1> HIDE DEF m, n, s
<1>4. ASSUME NEW k \in 1..(m + n) PROVE s[k] = a1 + k
  <2>1. CASE k <= m
    BY <1>1, <1>2, <1>3, <2>1
  <2>2. CASE k > m
    <3>1. k - m \in 1..n /\ a2 + (k - m) = a1 + k
      BY <1>1, <2>2
    <3>2. Interval(a2, a3)[k - m] = a2 + (k - m)
      BY <1>2, <3>1
    <3>3. s[k] = Interval(a2, a3)[k - m]
      BY <1>1, <1>3, <2>2
    <3> QED BY <3>1, <3>2, <3>3
  <2> QED BY <1>1, <2>1, <2>2
<1>5. s = [k \in 1..(m + n) |-> a1 + k]
  BY <1>3, <1>4
<1>6. Interval(a1, a3) = [k \in 1..(m + n) |-> a1 + k]
  BY <1>1 DEF Interval
<1> QED BY <1>5, <1>6 DEF s

\* What two of them hold together.
LEMMA SizesAddUp ==
  ASSUME NEW a1 \in Nat, NEW a2 \in Nat, NEW a3 \in Nat,
         a1 <= a2, a2 <= a3, a3 <= Len(LineSize)
  PROVE  Rotate!Size(Interval(a1, a3)) = Rotate!Size(Interval(a1, a2)) + Rotate!Size(Interval(a2, a3))
<1> DEFINE T(k) == Rotate!Size(Interval(a1, a2 + k))
                     = Rotate!Size(Interval(a1, a2)) + Rotate!Size(Interval(a2, a2 + k))
           N == {k \in Nat : k <= a3 - a2 => T(k)}
<1>0. Len(LineSize) \in Nat /\ a2 <= Len(LineSize)
  BY LineFacts
<1>1. Interval(a1, a2) \in Seq(LineNumbers) /\ Rotate!Size(Interval(a1, a2)) \in Nat
  BY <1>0, IntervalFacts, SizeIsNat
<1>2. 0 \in N
  <2>1. a2 + 0 = a2
    OBVIOUS
  <2>2. T(0)
    BY <1>1, <2>1, NothingIsInterval, SizeOfEmpty
  <2> HIDE DEF T
  <2> QED BY <2>2
<1>3. ASSUME NEW k \in Nat, k \in N
      PROVE  k + 1 \in N
  <2> HIDE DEF T
  <2> SUFFICES ASSUME k + 1 <= a3 - a2 PROVE T(k + 1)
    OBVIOUS
  <2>1. T(k)
    BY <1>3
  <2> DEFINE b == a2 + k
  <2>2. /\ b \in Nat /\ a1 <= b /\ a2 <= b /\ b <= Len(LineSize) /\ b + 1 \in LineNumbers
        /\ a2 + (k + 1) = b + 1
    BY <1>0 DEF LineNumbers
  <2> HIDE DEF b
  <2>3. /\ Rotate!Size(Interval(a1, b + 1)) = Rotate!Size(Interval(a1, b)) + LineSize[b + 1]
        /\ Rotate!Size(Interval(a2, b + 1)) = Rotate!Size(Interval(a2, b)) + LineSize[b + 1]
    BY <2>2, IntervalFacts, IntervalExtended, SizeOfAppended
  <2>4. /\ Rotate!Size(Interval(a1, b)) \in Nat /\ Rotate!Size(Interval(a2, b)) \in Nat
        /\ LineSize[b + 1] \in Nat
    BY <2>2, IntervalFacts, SizeIsNat, LineFacts
  <2>5. Rotate!Size(Interval(a1, b)) = Rotate!Size(Interval(a1, a2)) + Rotate!Size(Interval(a2, b))
    BY <2>1 DEF T, b
  <2>6. Rotate!Size(Interval(a1, b + 1))
          = Rotate!Size(Interval(a1, a2)) + Rotate!Size(Interval(a2, b + 1))
    BY <1>1, <2>3, <2>4, <2>5
  <2> QED BY <2>2, <2>6 DEF T
<1>4. Nat \subseteq N
  <2> HIDE DEF N
  <2> QED BY <1>2, <1>3, NatInductionSet
<1>5. a3 - a2 \in Nat /\ a2 + (a3 - a2) = a3
  OBVIOUS
<1>6. T(a3 - a2)
  <2> HIDE DEF T
  <2> QED BY <1>4, <1>5
<1> QED BY <1>5, <1>6

-----------------------------------------------------------------------------
(***************************************************************************)
(* Sequences of sequences                                                  *)
(***************************************************************************)
\* What their beginnings hold, as FlattenSeq computes it.
IsFlat(g, ss) == g = [i \in 1..Len(ss) |-> IF i = 1 THEN ss[i] ELSE g[i - 1] \o ss[i]]
Flat(ss) == CHOOSE g : IsFlat(g, ss)

LEMMA FlattenIs ==
  ASSUME NEW ss
  PROVE  /\ Rotate!FlattenSeq(ss) = IF Len(ss) = 0 THEN ss ELSE Flat(ss)[Len(ss)]
         /\ Memory!FlattenSeq(ss) = IF Len(ss) = 0 THEN ss ELSE Flat(ss)[Len(ss)]
BY DEF Rotate!FlattenSeq, Memory!FlattenSeq, Flat, IsFlat

LEMMA FlatExists ==
  ASSUME NEW S, NEW ss \in Seq(Seq(S))
  PROVE  IsFlat(Flat(ss), ss) /\ \A k \in 1..Len(ss) : Flat(ss)[k] \in Seq(S)
<1> DEFINE n == Len(ss)
           Q(g, k) == g = [i \in 1..k |-> IF i = 1 THEN ss[i] ELSE g[i - 1] \o ss[i]]
           P(k) == \E g \in [1..k -> Seq(S)] : Q(g, k)
           N == {k \in Nat : k <= n => P(k)}
<1>0. n \in Nat /\ \A i \in 1..n : ss[i] \in Seq(S)
  OBVIOUS
<1> HIDE DEF n
<1>1. 0 \in N
  <2> DEFINE g == [i \in {} |-> <<>>]
  <2>1. 1..0 = {}
    OBVIOUS
  <2>2. P(0)
    <3>1. g \in [1..0 -> Seq(S)] /\ Q(g, 0)
      BY <2>1
    <3> QED BY <3>1
  <2> HIDE DEF P
  <2> QED BY <2>2
<1>2. ASSUME NEW k \in Nat, k \in N
      PROVE  k + 1 \in N
  <2> HIDE DEF P
  <2> SUFFICES ASSUME k + 1 <= n PROVE P(k + 1)
    OBVIOUS
  <2>1. P(k)
    BY <1>0, <1>2
  <2>2. PICK g \in [1..k -> Seq(S)] : Q(g, k)
    BY <2>1 DEF P
  <2>3. k + 1 \in 1..n /\ ss[k + 1] \in Seq(S)
    BY <1>0
  <2> DEFINE last == IF k = 0 THEN ss[k + 1] ELSE g[k] \o ss[k + 1]
             h == [i \in 1..(k + 1) |-> IF i = k + 1 THEN last ELSE g[i]]
  <2>4. last \in Seq(S)
    <3>1. CASE k = 0
      BY <2>3, <3>1
    <3>2. CASE k # 0
      <4>1. g[k] \in Seq(S)
        BY <3>2
      <4> QED BY <2>3, <3>2, <4>1, ConcatProperties
    <3> QED BY <3>1, <3>2
  <2>5. h \in [1..(k + 1) -> Seq(S)]
    <3> HIDE DEF last
    <3> QED BY <2>4
  <2>6. ASSUME NEW i \in 1..(k + 1)
        PROVE  h[i] = IF i = 1 THEN ss[i] ELSE h[i - 1] \o ss[i]
    <3>1. CASE i = k + 1
      <4>1. h[i] = last
        BY <3>1
      <4>2. k # 0 => h[i - 1] = g[k]
        <5> HIDE DEF last
        <5> QED BY <3>1
      <4>3. last = IF i = 1 THEN ss[i] ELSE g[k] \o ss[i]
        BY <3>1
      <4> HIDE DEF h, last
      <4> QED BY <3>1, <4>1, <4>2, <4>3
    <3>2. CASE i # k + 1
      <4>1. i \in 1..k /\ h[i] = g[i]
        BY <3>2
      <4>2. i # 1 => h[i - 1] = g[i - 1]
        <5> HIDE DEF last
        <5> QED BY <3>2
      <4>3. g[i] = IF i = 1 THEN ss[i] ELSE g[i - 1] \o ss[i]
        BY <2>2, <4>1
      <4> HIDE DEF h, last, Q
      <4> QED BY <4>1, <4>2, <4>3
    <3> QED BY <3>1, <3>2
  <2>7. Q(h, k + 1)
    <3> HIDE DEF h
    <3> QED BY <2>5, <2>6
  <2> HIDE DEF h, Q
  <2> QED BY <2>5, <2>7 DEF P
<1>3. Nat \subseteq N
  <2> HIDE DEF N
  <2> QED BY <1>1, <1>2, NatInductionSet
<1>4. PICK g \in [1..n -> Seq(S)] : Q(g, n)
  <2> HIDE DEF P
  <2>1. P(n)
    BY <1>0, <1>3
  <2> QED BY <2>1 DEF P
<1>5. IsFlat(g, ss)
  BY <1>4 DEF IsFlat, n
<1>6. IsFlat(Flat(ss), ss)
  BY <1>5 DEF Flat
<1> DEFINE f == Flat(ss)
           M == {k \in Nat : k \in 1..n => f[k] \in Seq(S)}
<1>7. \A k \in 1..n : f[k] = IF k = 1 THEN ss[k] ELSE f[k - 1] \o ss[k]
  BY <1>6 DEF IsFlat, n
<1> HIDE DEF f, Q, P, N
<1>8. 0 \in M
  OBVIOUS
<1>9. ASSUME NEW k \in Nat, k \in M
      PROVE  k + 1 \in M
  <2> SUFFICES ASSUME k + 1 \in 1..n PROVE f[k + 1] \in Seq(S)
    OBVIOUS
  <2>1. ss[k + 1] \in Seq(S)
    BY <1>0
  <2>2. CASE k = 0
    BY <1>7, <2>1, <2>2
  <2>3. CASE k # 0
    <3>1. k \in 1..n /\ (k + 1) - 1 = k /\ k + 1 # 1
      BY <1>0, <2>3
    <3>2. f[k + 1] = f[k] \o ss[k + 1] /\ f[k] \in Seq(S)
      BY <1>7, <1>9, <3>1
    <3> QED BY <2>1, <3>2, ConcatProperties
  <2> QED BY <2>2, <2>3
<1>10. Nat \subseteq M
  <2> HIDE DEF M
  <2> QED BY <1>8, <1>9, NatInductionSet
<1>11. \A k \in 1..n : f[k] \in Seq(S)
  BY <1>0, <1>10
<1> QED BY <1>6, <1>11 DEF f, n

LEMMA FlatSteps ==
  ASSUME NEW S, NEW ss \in Seq(Seq(S)), Len(ss) # 0
  PROVE  /\ Flat(ss)[1] = ss[1]
         /\ \A k \in 1..(Len(ss) - 1) : Flat(ss)[k + 1] = Flat(ss)[k] \o ss[k + 1]
<1>1. Len(ss) \in Nat \ {0}
  OBVIOUS
<1>2. \A k \in 1..Len(ss) : Flat(ss)[k] = IF k = 1 THEN ss[k] ELSE Flat(ss)[k - 1] \o ss[k]
  <2> DEFINE g == Flat(ss)
  <2>1. IsFlat(g, ss)
    BY FlatExists
  <2> HIDE DEF g
  <2>2. g = [i \in 1..Len(ss) |-> IF i = 1 THEN ss[i] ELSE g[i - 1] \o ss[i]]
    BY <2>1 DEF IsFlat
  <2>3. \A k \in 1..Len(ss) : g[k] = IF k = 1 THEN ss[k] ELSE g[k - 1] \o ss[k]
    BY <2>2
  <2> QED BY <2>3 DEF g
<1>3. ASSUME NEW k \in 1..(Len(ss) - 1)
      PROVE  Flat(ss)[k + 1] = Flat(ss)[k] \o ss[k + 1]
  <2>1. k + 1 \in 1..Len(ss) /\ k + 1 # 1 /\ (k + 1) - 1 = k
    BY <1>1
  <2> QED BY <1>2, <2>1
<1>4. 1 \in 1..Len(ss)
  BY <1>1
<1>5. Flat(ss)[1] = ss[1]
  BY <1>2, <1>4
<1> QED BY <1>3, <1>5

-----------------------------------------------------------------------------
(***************************************************************************)
(* What the log and its archives hold together                             *)
(***************************************************************************)
Content(i) == IF i \in DOMAIN disk THEN disk[i] ELSE <<>>

\* The archives below j that are missing, and how many may be: a rotation that a crash cut short
\* leaves one free name behind, and one that is under way makes one, until the log is renamed to it.
Holes(j)   == {i \in 1..(j - 1) : i \notin DOMAIN disk}
Allowed(j) == crashes + IF rpc = "rename" /\ moving >= 0 /\ j > moving + 1 THEN 1 ELSE 0

\* Archive i ends with line e[i]; the first e[archives + 1] lines are gone.  Archives are filled
\* from the first on, so one can only be there, or be gone, when few below it are missing.
IsHistory(e) ==
  /\ e \in [0..(archives + 1) -> Nat] /\ e[0] = written
  /\ \A i \in 0..archives : e[i + 1] <= e[i] /\ Content(i) = Interval(e[i + 1], e[i])
  /\ \A j \in 1..(archives + 1) :
       j \in DOMAIN disk \/ (j = archives + 1 /\ e[j] > 0) => Cardinality(Holes(j)) <= Allowed(j)

HistoryInv == \E e : IsHistory(e)

LEMMA HolesFinite ==
  ASSUME NEW j \in Int
  PROVE  IsFiniteSet(Holes(j)) /\ Cardinality(Holes(j)) \in Nat
<1>1. IsFiniteSet(1..(j - 1)) /\ Holes(j) \subseteq 1..(j - 1)
  BY FS_Interval DEF Holes
<1> QED BY <1>1, FS_Subset, FS_CardinalityType

\* Nothing is written, renamed or removed.
LEMMA HistoryStays ==
  ASSUME FilesInv, NEW e, IsHistory(e), archives' = archives, written' = written,
         \A i \in 0..archives : Content(i)' = Content(i),
         \A i \in 1..archives : i \in DOMAIN disk' <=> i \in DOMAIN disk,
         \A j \in 1..(archives + 1) : Allowed(j) <= Allowed(j)',
         DOMAIN disk' \subseteq 0..archives, crashes' \in Nat
  PROVE  IsHistory(e)'
<1>0. archives \in Nat /\ DOMAIN disk \subseteq 0..archives /\ crashes \in Nat
  BY DEF FilesInv
<1>1. ASSUME NEW j \in 1..(archives + 1), j \in DOMAIN disk' \/ (j = archives + 1 /\ e[j] > 0)
      PROVE  Cardinality(Holes(j)') <= Allowed(j)'
  <2>1. Holes(j)' = Holes(j)
    <3>1. \A i \in 1..(j - 1) : i \in 1..archives
      BY <1>0
    <3> QED BY <3>1 DEF Holes
  <2>2. j \in DOMAIN disk \/ (j = archives + 1 /\ e[j] > 0)
    BY <1>0, <1>1
  <2>3. Cardinality(Holes(j)) <= Allowed(j)
    BY <2>2 DEF IsHistory
  <2>4. Cardinality(Holes(j)) \in Nat /\ Allowed(j) \in Int /\ Allowed(j)' \in Int
    BY <1>0, HolesFinite DEF Allowed
  <2>5. Allowed(j) <= Allowed(j)'
    OBVIOUS
  <2> QED BY <2>1, <2>3, <2>4, <2>5
<1>2. \A i \in 0..archives : e[i + 1] <= e[i] /\ Content(i)' = Interval(e[i + 1], e[i])
  BY DEF IsHistory
<1> QED BY <1>1, <1>2 DEF IsHistory

\* A line more at the end of the log.
LEMMA HistoryExtended ==
  ASSUME FilesInv, HistoryInv, ~Rotating,
         written' = written + 1, archives' = archives, crashes' = crashes, rpc' = "idle",
         DOMAIN disk' = DOMAIN disk \union {0}, disk'[0] = Append(Content(0), written + 1),
         \A i \in DOMAIN disk \ {0} : disk'[i] = disk[i]
  PROVE  HistoryInv'
<1>0. archives \in Nat /\ DOMAIN disk \subseteq 0..archives /\ crashes \in Nat /\ written \in Nat
  BY LineFacts DEF FilesInv
<1>1. PICK e : IsHistory(e)
  BY DEF HistoryInv
<1>2. /\ e \in [0..(archives + 1) -> Nat] /\ e[0] = written
      /\ \A i \in 0..archives : e[i + 1] <= e[i] /\ Content(i) = Interval(e[i + 1], e[i])
  BY <1>1 DEF IsHistory
<1>3. PICK f : f = [e EXCEPT ![0] = written + 1]
  OBVIOUS
<1>4. /\ f \in [0..(archives + 1) -> Nat] /\ f[0] = written + 1
      /\ \A i \in 1..(archives + 1) : f[i] = e[i]
  BY <1>0, <1>2, <1>3
<1>5. ASSUME NEW i \in 0..archives
      PROVE  f[i + 1] <= f[i] /\ Content(i)' = Interval(f[i + 1], f[i])
  <2>1. i + 1 \in 1..(archives + 1) /\ e[i + 1] \in Nat /\ e[i] \in Nat /\ f[i + 1] = e[i + 1]
    BY <1>0, <1>2, <1>4
  <2>2. e[i + 1] <= e[i] /\ Content(i) = Interval(e[i + 1], e[i])
    BY <1>2
  <2>3. CASE i = 0
    <3>1. Content(i)' = Append(Interval(e[i + 1], e[i]), e[i] + 1) /\ f[i] = e[i] + 1
      BY <1>2, <1>4, <2>2, <2>3 DEF Content
    <3>2. Append(Interval(e[i + 1], e[i]), e[i] + 1) = Interval(e[i + 1], e[i] + 1)
      BY <2>1, <2>2, IntervalExtended
    <3>3. f[i + 1] <= f[i]
      BY <2>1, <2>2, <3>1
    <3> QED BY <2>1, <3>1, <3>2, <3>3
  <2>4. CASE i # 0
    <3>1. f[i] = e[i]
      <4>1. i \in 1..(archives + 1)
        BY <1>0, <2>4
      <4> QED BY <1>4, <4>1
    <3>2. Content(i)' = Content(i)
      BY <2>4 DEF Content
    <3> QED BY <2>1, <2>2, <3>1, <3>2
  <2> QED BY <2>3, <2>4
<1>6. ASSUME NEW j \in 1..(archives + 1), j \in DOMAIN disk' \/ (j = archives + 1 /\ f[j] > 0)
      PROVE  Cardinality(Holes(j)') <= Allowed(j)'
  <2>1. Holes(j)' = Holes(j)
    BY DEF Holes
  <2>2. j \in DOMAIN disk \/ (j = archives + 1 /\ e[j] > 0)
    BY <1>0, <1>4, <1>6
  <2>3. Cardinality(Holes(j)) <= Allowed(j)
    BY <1>1, <2>2 DEF IsHistory
  <2>4. Allowed(j)' = Allowed(j)
    BY DEF Allowed, Rotating
  <2> QED BY <2>1, <2>3, <2>4
<1>7. IsHistory(f)'
  BY <1>4, <1>5, <1>6 DEF IsHistory
<1> QED BY <1>7 DEF HistoryInv

\* The log is opened with "w" where there are no archives.
LEMMA HistoryTruncated ==
  ASSUME FilesInv, HistoryInv, rpc = "truncate",
         written' = written + 1, archives' = archives, crashes' = crashes,
         DOMAIN disk' = {0}, disk'[0] = Append(<<>>, written + 1)
  PROVE  HistoryInv'
<1>0. archives = 0 /\ crashes \in Nat /\ written \in Nat
  BY LineFacts DEF FilesInv
<1>1. PICK f : f = [i \in 0..1 |-> IF i = 0 THEN written + 1 ELSE written]
  OBVIOUS
<1>2. /\ f \in [0..(archives' + 1) -> Nat] /\ f[0] = written' /\ f[1] = written
  BY <1>0, <1>1
<1>3. ASSUME NEW i \in 0..archives'
      PROVE  f[i + 1] <= f[i] /\ Content(i)' = Interval(f[i + 1], f[i])
  <2>1. i = 0 /\ f[i + 1] = written /\ f[i] = written + 1
    BY <1>0, <1>2, <1>3
  <2>2. Append(<<>>, written + 1) = Interval(written, written + 1)
    <3>1. Interval(written, written) = <<>>
      BY <1>0, NothingIsInterval
    <3>2. Append(Interval(written, written), written + 1) = Interval(written, written + 1)
      <4>1. written \in Nat /\ written <= written
        BY <1>0
      <4> QED BY ONLY <4>1, IntervalExtended
    <3> QED BY <3>1, <3>2
  <2> QED BY <1>0, <2>1, <2>2 DEF Content
<1>4. ASSUME NEW j \in 1..(archives' + 1)
      PROVE  Cardinality(Holes(j)') <= Allowed(j)'
  <2>1. j = 1
    BY <1>0, <1>4
  <2>2. Holes(j)' = {}
    <3>1. 1..(j - 1) = {}
      BY <2>1
    <3> QED BY <3>1 DEF Holes
  <2>3. Allowed(j)' \in Nat
    BY <1>0 DEF Allowed
  <2> QED BY <2>2, <2>3, FS_EmptySet
<1>5. IsHistory(f)'
  BY <1>2, <1>3, <1>4 DEF IsHistory
<1> QED BY <1>5 DEF HistoryInv

\* The lines of the oldest archive are gone with it.
LEMMA HistoryUnlinked ==
  ASSUME FilesInv, HistoryInv, Rotate!UnlinkOldest
  PROVE  HistoryInv'
<1>0. /\ archives \in Nat \ {0} /\ crashes \in Nat /\ DOMAIN disk \subseteq 0..archives
      /\ archives' = archives /\ written' = written /\ crashes' = crashes
      /\ rpc = "unlink" /\ rpc' = "rename" /\ moving' = archives - 1
      /\ DOMAIN disk' = DOMAIN disk \ {archives} /\ \A i \in DOMAIN disk' : disk'[i] = disk[i]
  BY DEF FilesInv, Rotate!UnlinkOldest, Rotate!Without, Rotate!Files
<1>1. PICK e : IsHistory(e)
  BY DEF HistoryInv
<1>2. /\ e \in [0..(archives + 1) -> Nat] /\ e[0] = written
      /\ \A i \in 0..archives : e[i + 1] <= e[i] /\ Content(i) = Interval(e[i + 1], e[i])
  BY <1>1 DEF IsHistory
<1>3. PICK f : f = [e EXCEPT ![archives + 1] = e[archives]]
  OBVIOUS
<1>4. /\ f \in [0..(archives + 1) -> Nat] /\ f[archives + 1] = e[archives]
      /\ \A i \in 0..archives : f[i] = e[i]
  BY <1>0, <1>2, <1>3
<1>5. ASSUME NEW i \in 0..archives
      PROVE  f[i + 1] <= f[i] /\ Content(i)' = Interval(f[i + 1], f[i])
  <2>1. CASE i = archives
    <3>1. Content(i)' = <<>> /\ f[i + 1] = f[i] /\ f[i] \in Nat
      BY <1>0, <1>4, <2>1 DEF Content
    <3>2. Interval(f[i + 1], f[i]) = <<>>
      BY <3>1, NothingIsInterval
    <3> QED BY <3>1, <3>2
  <2>2. CASE i # archives
    <3>1. i + 1 \in 0..archives
      BY <1>0, <2>2
    <3>2. f[i + 1] = e[i + 1] /\ f[i] = e[i]
      BY <1>4, <3>1
    <3>3. Content(i)' = Content(i)
      BY <1>0, <2>2 DEF Content
    <3> QED BY <1>2, <3>2, <3>3
  <2> QED BY <2>1, <2>2
<1>6. ASSUME NEW j \in 1..(archives + 1), j \in DOMAIN disk' \/ (j = archives + 1 /\ f[j] > 0)
      PROVE  Cardinality(Holes(j)') <= Allowed(j)'
  <2>1. \A k \in Int : Allowed(k) = crashes
    BY <1>0 DEF Allowed
  <2>2. CASE j # archives + 1
    <3>1. j \in DOMAIN disk /\ j <= archives
      BY <1>0, <1>6, <2>2
    <3>2. Holes(j)' = Holes(j)
      BY <1>0, <3>1 DEF Holes
    <3>3. Cardinality(Holes(j)) <= Allowed(j)
      BY <1>1, <3>1 DEF IsHistory
    <3>4. Allowed(j)' = crashes
      BY <1>0, <3>1 DEF Allowed
    <3> QED BY <2>1, <3>2, <3>3, <3>4
  <2>3. CASE j = archives + 1
    <3>1. e[archives] > 0
      <4>1. archives + 1 \notin DOMAIN disk'
        BY <1>0
      <4> QED BY <1>4, <1>6, <2>3, <4>1
    <3>2. Allowed(j)' = crashes + 1
      BY <1>0, <2>3 DEF Allowed
    <3>3. archives \in 1..(archives + 1) /\ archives + 1 \in 1..(archives + 1)
      BY <1>0
    <3>4. CASE archives \in DOMAIN disk
      <4>1. Cardinality(Holes(archives)) <= crashes
        BY <1>1, <2>1, <3>3, <3>4 DEF IsHistory
      <4>2. Holes(j)' = Holes(archives) \union {archives} /\ archives \notin Holes(archives)
        <5>1. \A i : i \in 1..(j - 1) <=> i \in 1..(archives - 1) \/ i = archives
          BY <1>0, <2>3
        <5> QED BY <1>0, <5>1 DEF Holes
      <4>3. Cardinality(Holes(j)') = Cardinality(Holes(archives)) + 1
        <5> DEFINE H == Holes(archives)
        <5>1. IsFiniteSet(H)
          BY <1>0, HolesFinite
        <5> HIDE DEF H
        <5>2. Cardinality(H \union {archives}) = IF archives \in H THEN Cardinality(H) ELSE Cardinality(H) + 1
          BY <5>1, FS_AddElement
        <5>3. archives \notin H /\ Holes(j)' = H \union {archives}
          BY <4>2 DEF H
        <5> QED BY <5>2, <5>3 DEF H
      <4>4. Cardinality(Holes(archives)) \in Nat
        BY <1>0, HolesFinite
      <4> QED BY <1>0, <3>2, <4>1, <4>3, <4>4
    <3>5. CASE archives \notin DOMAIN disk
      <4>1. e[archives + 1] = e[archives]
        <5>1. Content(archives) = <<>> /\ Content(archives) = Interval(e[archives + 1], e[archives])
          BY <1>0, <1>2, <3>5 DEF Content
        <5>2. e[archives + 1] \in Nat /\ e[archives] \in Nat /\ e[archives + 1] <= e[archives]
          BY <1>0, <1>2
        <5>3. Len(Interval(e[archives + 1], e[archives])) = e[archives] - e[archives + 1]
          BY <5>2 DEF Interval
        <5> QED BY <5>1, <5>2, <5>3
      <4>2. Cardinality(Holes(archives + 1)) <= crashes
        BY <1>1, <2>1, <3>1, <3>3, <4>1 DEF IsHistory
      <4>3. Holes(j)' = Holes(archives + 1)
        BY <1>0, <2>3, <3>5 DEF Holes
      <4>4. Cardinality(Holes(archives + 1)) \in Nat
        BY <1>0, HolesFinite
      <4> QED BY <1>0, <3>2, <4>2, <4>3, <4>4
    <3> QED BY <3>4, <3>5
  <2> QED BY <2>2, <2>3
<1>7. IsHistory(f)'
  BY <1>0, <1>2, <1>4, <1>5, <1>6 DEF IsHistory
<1> QED BY <1>7 DEF HistoryInv

\* An archive keeps its lines under its new name.
LEMMA HistoryRenamed ==
  ASSUME FilesInv, HistoryInv, Rotate!Rename
  PROVE  HistoryInv'
<1>0. /\ archives \in Nat /\ crashes \in Nat /\ DOMAIN disk \subseteq 0..archives
      /\ archives' = archives /\ written' = written /\ crashes' = crashes
      /\ rpc = "rename" /\ rpc' = "rename" /\ moving \in 0..(archives - 1) /\ moving' = moving - 1
      /\ moving + 1 \notin DOMAIN disk /\ 0 \in DOMAIN disk
  BY RenamedFacts DEF FilesInv, Rotating, Rotate!Rename
<1>1. PICK e : IsHistory(e)
  BY DEF HistoryInv
<1>2. /\ e \in [0..(archives + 1) -> Nat] /\ e[0] = written
      /\ \A i \in 0..archives : e[i + 1] <= e[i] /\ Content(i) = Interval(e[i + 1], e[i])
  BY <1>1 DEF IsHistory
  \* The gap of one name moves down with every rename, and closes with the last.
<1>3. ASSUME NEW j \in 1..(archives + 1), j > moving + 1
      PROVE  Allowed(j) = crashes + 1 /\ Allowed(j)' = IF moving = 0 THEN crashes ELSE crashes + 1
  BY <1>0, <1>3 DEF Allowed
<1>4. ASSUME NEW j \in 1..(archives + 1), j <= moving
      PROVE  Allowed(j) = crashes /\ Allowed(j)' = crashes
  BY <1>0, <1>4 DEF Allowed
<1>5. CASE moving \notin DOMAIN disk
  <2>1. disk' = disk /\ moving # 0
    BY <1>5, RenamedFacts
  <2>2. \A i \in 0..archives : Content(i)' = Content(i)
    BY <2>1 DEF Content
  <2>3. ASSUME NEW j \in 1..(archives + 1), j \in DOMAIN disk' \/ (j = archives + 1 /\ e[j] > 0)
        PROVE  Cardinality(Holes(j)') <= Allowed(j)'
    <3>1. Holes(j)' = Holes(j) /\ Cardinality(Holes(j)) <= Allowed(j)
      BY <1>0, <1>1, <2>1, <2>3 DEF Holes, IsHistory
    <3>2. j > moving + 1 \/ j <= moving
      BY <1>0, <2>1, <2>3
    <3> QED BY <1>3, <1>4, <2>1, <3>1, <3>2
  <2>4. IsHistory(e)'
    BY <1>0, <1>2, <2>2, <2>3 DEF IsHistory
  <2> QED BY <2>4 DEF HistoryInv
<1>6. CASE moving \in DOMAIN disk
  <2>1. /\ DOMAIN disk' = (DOMAIN disk \ {moving}) \union {moving + 1}
        /\ disk'[moving + 1] = disk[moving]
        /\ \A i \in DOMAIN disk \ {moving} : i # moving + 1 /\ disk'[i] = disk[i]
    BY <1>6, RenamedFacts
  <2>2. e[moving + 2] = e[moving + 1]
    <3>1. moving + 1 \in 0..archives /\ (moving + 1) + 1 = moving + 2
      BY <1>0
    <3>2. /\ Content(moving + 1) = <<>> /\ e[moving + 2] <= e[moving + 1]
          /\ Content(moving + 1) = Interval(e[moving + 2], e[moving + 1])
      BY <1>0, <1>2, <3>1 DEF Content
    <3>3. e[moving + 2] \in Nat /\ e[moving + 1] \in Nat
      BY <1>0, <1>2
    <3>4. Len(Interval(e[moving + 2], e[moving + 1])) = e[moving + 1] - e[moving + 2]
      BY <3>2, <3>3 DEF Interval
    <3> QED BY <3>2, <3>3, <3>4
  <2>3. PICK f : f = [e EXCEPT ![moving + 1] = e[moving]]
    OBVIOUS
  <2>4. /\ f \in [0..(archives + 1) -> Nat] /\ f[moving + 1] = e[moving]
        /\ \A i \in 0..(archives + 1) : i # moving + 1 => f[i] = e[i]
    BY <1>0, <1>2, <2>3
  <2>5. ASSUME NEW i \in 0..archives
        PROVE  f[i + 1] <= f[i] /\ Content(i)' = Interval(f[i + 1], f[i])
    <3>0. i + 1 \in 0..(archives + 1) /\ i \in 0..(archives + 1)
      BY <1>0
    <3>1. CASE i = moving
      <4>1. f[i + 1] = f[i] /\ f[i] \in Nat
        BY <1>0, <2>4, <3>0, <3>1
      <4>2. Content(i)' = <<>>
        BY <1>0, <2>1, <3>1 DEF Content
      <4> QED BY <4>1, <4>2, NothingIsInterval
    <3>2. CASE i = moving + 1
      <4>1. f[i + 1] = e[moving + 1] /\ f[i] = e[moving]
        <5>1. i + 1 = moving + 2 /\ i + 1 # moving + 1
          BY <1>0, <3>2
        <5>2. f[i + 1] = e[moving + 2]
          BY <2>4, <3>0, <5>1
        <5> QED BY <2>2, <2>4, <3>2, <5>2
      <4>2. moving \in 0..archives
        BY <1>0
      <4>3. /\ e[moving + 1] <= e[moving]
            /\ Content(moving) = Interval(e[moving + 1], e[moving])
        BY <1>2, <4>2
      <4>4. Content(i)' = Content(moving)
        BY <1>6, <2>1, <3>2 DEF Content
      <4> QED BY <4>1, <4>3, <4>4
    <3>3. CASE i # moving /\ i # moving + 1
      <4>1. f[i + 1] = e[i + 1] /\ f[i] = e[i]
        <5>1. i + 1 # moving + 1
          BY <1>0, <3>3
        <5> QED BY <2>4, <3>0, <3>3, <5>1
      <4>2. Content(i)' = Content(i)
        BY <2>1, <3>3 DEF Content
      <4> QED BY <1>2, <4>1, <4>2
    <3> QED BY <3>1, <3>2, <3>3
  <2>6. ASSUME NEW j \in 1..(archives + 1), j \in DOMAIN disk' \/ (j = archives + 1 /\ f[j] > 0)
        PROVE  Cardinality(Holes(j)') <= Allowed(j)'
    <3>0. Cardinality(Holes(j)) \in Nat /\ IsFiniteSet(Holes(j))
      BY HolesFinite
    <3>1. CASE j <= moving
      <4>1. j \in DOMAIN disk
        BY <1>0, <2>1, <2>6, <3>1
      <4>2. Holes(j)' = Holes(j)
        BY <1>0, <2>1, <3>1 DEF Holes
      <4>3. Cardinality(Holes(j)) <= Allowed(j)
        BY <1>1, <4>1 DEF IsHistory
      <4> QED BY <1>4, <3>1, <4>2, <4>3
    <3>2. CASE j = moving + 1
      <4>1. CASE moving = 0
        <5>1. 1..(j - 1) = {}
          BY <3>2, <4>1
        <5>2. Cardinality(Holes(j)') = 0
          BY <5>1, FS_EmptySet DEF Holes
        <5>3. Allowed(j)' \in Nat
          BY <1>0, <4>1 DEF Allowed
        <5> QED BY <5>2, <5>3
      <4>2. CASE moving # 0
        <5> DEFINE H == Holes(moving)
        <5>1. moving \in 1..(archives + 1)
          BY <1>0, <4>2
        <5>2. Cardinality(H) <= crashes /\ Cardinality(H) \in Nat /\ IsFiniteSet(H)
          BY <1>1, <1>4, <1>6, <5>1, HolesFinite, SMTT(30) DEF IsHistory
        <5>3. Holes(j)' = H \union {moving} /\ moving \notin H
          <6>1. \A i : i \in 1..(j - 1) <=> i \in 1..(moving - 1) \/ i = moving
            BY <3>2, <5>1
          <6>2. moving \notin DOMAIN disk' /\ moving \notin 1..(moving - 1)
            BY <1>0, <2>1
          <6>3. \A i \in 1..(moving - 1) : i \in DOMAIN disk' <=> i \in DOMAIN disk
            BY <1>0, <2>1
          <6> QED BY <6>1, <6>2, <6>3 DEF Holes
        <5> HIDE DEF H
        <5>4. Cardinality(H \union {moving}) = Cardinality(H) + 1
          BY <5>2, <5>3, FS_AddElement
        <5>5. Allowed(j)' = crashes + 1
          BY <1>0, <3>2, <4>2 DEF Allowed
        <5> QED BY <1>0, <5>2, <5>3, <5>4, <5>5
      <4> QED BY <4>1, <4>2
    <3>3. CASE j > moving + 1
      <4>1. j \in DOMAIN disk \/ (j = archives + 1 /\ e[j] > 0)
        <5>1. j # moving + 1 /\ j \in 0..(archives + 1)
          BY <1>0, <3>3
        <5>2. f[j] = e[j]
          BY <2>4, <5>1
        <5> QED BY <2>1, <2>6, <5>1, <5>2
      <4>2. Cardinality(Holes(j)) <= crashes + 1
        BY <1>1, <1>3, <3>3, <4>1 DEF IsHistory
      <4> DEFINE H == Holes(j)
                 G == H \ {moving + 1}
      <4>3. moving + 1 \in H
        BY <1>0, <3>3 DEF Holes
      <4>4. \A i \in 1..(j - 1) :
              i \notin DOMAIN disk' <=> i = moving \/ (i # moving + 1 /\ i \notin DOMAIN disk)
        BY <1>0, <1>6, <2>1
      <4>5. Holes(j)' = IF moving = 0 THEN G ELSE G \union {moving}
        <5>1. moving \in 1..(j - 1) <=> moving # 0
          BY <1>0, <3>3
        <5> QED BY <4>4, <5>1 DEF Holes
      <4>6. moving \notin G
        BY <1>6 DEF Holes
      <4> HIDE DEF H
      <4>7. Cardinality(G) = Cardinality(H) - 1 /\ IsFiniteSet(G)
        BY <3>0, <4>3, FS_RemoveElement DEF H
      <4> HIDE DEF G
      <4>8. Cardinality(G \union {moving}) = Cardinality(G) + 1
        BY <4>6, <4>7, FS_AddElement
      <4>9. Cardinality(H) \in Nat /\ Cardinality(H) <= crashes + 1
        BY <3>0, <4>2 DEF H
      <4>10. Allowed(j)' = IF moving = 0 THEN crashes ELSE crashes + 1
        BY <1>3, <3>3
      <4> QED BY <1>0, <4>5, <4>7, <4>8, <4>9, <4>10
    <3> QED BY <1>0, <3>1, <3>2, <3>3
  <2>7. f[0] = written
    BY <1>0, <1>2, <2>4
  <2>8. IsHistory(f)'
    BY <1>0, <2>4, <2>5, <2>6, <2>7 DEF IsHistory
  <2> QED BY <2>8 DEF HistoryInv
<1> QED BY <1>5, <1>6

LEMMA HistoryInit == Rotate!Init => HistoryInv
<1> SUFFICES ASSUME Rotate!Init PROVE HistoryInv
  OBVIOUS
<1>0. archives \in Nat /\ DOMAIN disk = {} /\ written = 0 /\ crashes = 0 /\ rpc = "down"
  BY LineFacts DEF Rotate!Init
<1>1. PICK e : e = [i \in 0..(archives + 1) |-> 0]
  OBVIOUS
<1>2. e \in [0..(archives + 1) -> Nat] /\ \A i \in 0..(archives + 1) : e[i] = 0
  BY <1>1
<1>3. \A i \in 0..archives : e[i + 1] <= e[i] /\ Content(i) = Interval(e[i + 1], e[i])
  <2> SUFFICES ASSUME NEW i \in 0..archives
               PROVE  e[i + 1] <= e[i] /\ Content(i) = Interval(e[i + 1], e[i])
    OBVIOUS
  <2>1. e[i + 1] = 0 /\ e[i] = 0
    <3>1. i \in 0..(archives + 1) /\ i + 1 \in 0..(archives + 1)
      BY <1>0
    <3> QED BY <1>2, <3>1
  <2> QED BY <1>0, <2>1, NothingIsInterval DEF Content
<1>4. IsHistory(e)
  BY <1>0, <1>2, <1>3 DEF IsHistory
<1> QED BY <1>4 DEF HistoryInv

LEMMA HistoryNext ==
  FilesInv /\ HistoryInv /\ [Rotate!Next]_(Rotate!vars) => HistoryInv'
<1> SUFFICES ASSUME FilesInv, HistoryInv, [Rotate!Next]_(Rotate!vars) PROVE HistoryInv'
  OBVIOUS
<1>0. /\ archives \in Nat /\ crashes \in Nat /\ DOMAIN disk \subseteq 0..archives
      /\ disk \in [DOMAIN disk -> Seq(LineNumbers)]
  BY DEF FilesInv
  \* Steps after which the files hold what they held.
<1>1. ASSUME archives' = archives, written' = written,
             \A i \in 0..archives : Content(i)' = Content(i),
             \A i \in 1..archives : i \in DOMAIN disk' <=> i \in DOMAIN disk,
             \A j \in 1..(archives + 1) : Allowed(j) <= Allowed(j)',
             DOMAIN disk' \subseteq 0..archives, crashes' \in Nat
      PROVE  HistoryInv'
  <2>1. PICK e : IsHistory(e)
    BY DEF HistoryInv
  <2>2. IsHistory(e)'
    BY <1>1, <2>1, HistoryStays
  <2> QED BY <2>2 DEF HistoryInv
<1>2. ASSUME archives' = archives, written' = written, disk' = disk, crashes' = crashes,
             rpc' # "rename", rpc # "rename" \/ moving < 0
      PROVE  HistoryInv'
  <2>1. ASSUME NEW j \in 1..(archives + 1) PROVE Allowed(j) <= Allowed(j)'
    <3>1. Allowed(j) = crashes /\ Allowed(j)' = crashes
      <4>1. rpc = "rename" => ~(moving >= 0)
        <5>1. rpc = "rename" => moving \in -1..(archives - 1) /\ moving < 0
          BY <1>2 DEF FilesInv
        <5> QED BY <1>0, <5>1
      <4> QED BY <1>0, <1>2, <4>1 DEF Allowed
    <3> QED BY <1>0, <3>1
  <2>2. \A i \in 0..archives : Content(i)' = Content(i)
    BY <1>2 DEF Content
  <2> QED BY <1>0, <1>1, <1>2, <2>1, <2>2
<1>3. CASE Rotate!Start
  <2>1. /\ archives' = archives /\ written' = written /\ crashes' = crashes
        /\ rpc = "down" /\ rpc' = "idle"
    BY <1>3 DEF Rotate!Start
  <2>2. CASE disk' = Rotate!Opened
    <3>1. /\ DOMAIN disk' = DOMAIN disk \union {0}
          /\ \A i \in DOMAIN disk' : disk'[i] = IF i \in DOMAIN disk THEN disk[i] ELSE <<>>
      BY <2>2 DEF Rotate!Opened, Rotate!Files
    <3>2. \A i \in 0..archives : Content(i)' = Content(i)
      BY <3>1 DEF Content
    <3>3. \A j \in 1..(archives + 1) : Allowed(j) <= Allowed(j)'
      BY <1>0, <2>1 DEF Allowed
    <3>4. DOMAIN disk' \subseteq 0..archives
      BY <1>0, <3>1
    <3>5. \A i \in 1..archives : i \in DOMAIN disk' <=> i \in DOMAIN disk
      BY <3>1
    <3> QED BY <1>0, <1>1, <2>1, <3>2, <3>3, <3>4, <3>5
  <2>3. CASE disk' = disk
    BY <1>2, <2>1, <2>3
  <2> QED BY <1>3, <2>2, <2>3 DEF Rotate!Start
<1>4. CASE Rotate!WriteLine
  <2>1. /\ archives' = archives /\ written' = written + 1 /\ crashes' = crashes
        /\ rpc' = "idle" /\ rpc = "idle" /\ fp
        /\ disk' = [disk EXCEPT ![0] = Append(@, written + 1)]
    BY <1>4 DEF Rotate!WriteLine, Rotate!Extended
  <2>2. 0 \in DOMAIN disk /\ ~Rotating
    BY <2>1 DEF FilesInv, Rotating
  <2>3. /\ DOMAIN disk' = DOMAIN disk \union {0} /\ disk'[0] = Append(Content(0), written + 1)
        /\ \A i \in DOMAIN disk \ {0} : disk'[i] = disk[i]
    BY <2>1, <2>2 DEF Content
  <2> QED BY <2>1, <2>2, <2>3, HistoryExtended
<1>5. CASE Rotate!BeginRotation
  <2>1. /\ UNCHANGED <<archives, disk, written, crashes>> /\ rpc = "idle"
        /\ rpc' # "rename"
    BY <1>5 DEF Rotate!BeginRotation
  <2> QED BY <1>2, <2>1
<1>6. CASE Rotate!Truncate
  <2>1. archives' = archives /\ crashes' = crashes /\ rpc = "truncate" /\ rpc' = "idle"
    BY <1>6 DEF Rotate!Truncate
  <2>2. CASE disk' = Rotate!Extended([disk EXCEPT ![0] = <<>>]) /\ written' = written + 1
    <3>1. 0 \in DOMAIN disk /\ archives = 0
      BY <2>1 DEF FilesInv, Rotating
    <3>2. DOMAIN disk' = {0} /\ disk'[0] = Append(<<>>, written + 1)
      BY <1>0, <2>2, <3>1 DEF Rotate!Extended
    <3> QED BY <2>1, <2>2, <3>2, HistoryTruncated
  <2>3. CASE UNCHANGED <<disk, written>>
    BY <1>2, <2>1, <2>3
  <2> QED BY <1>6, <2>2, <2>3 DEF Rotate!Truncate
<1>7. CASE Rotate!UnlinkOldest
  BY <1>7, HistoryUnlinked
<1>8. CASE Rotate!Rename
  BY <1>8, HistoryRenamed
<1>9. CASE Rotate!Reopen
  <2>1. /\ archives' = archives /\ crashes' = crashes /\ rpc = "rename" /\ rpc' = "idle"
        /\ moving < 0 /\ moving \in -1..(archives - 1) /\ moving + 1 \notin DOMAIN disk
    BY <1>9 DEF Rotate!Reopen, FilesInv
  <2>2. 0 \notin DOMAIN disk /\ ~Rotating
    BY <1>0, <2>1 DEF Rotating
  <2>3. CASE disk' = Rotate!Extended(Rotate!Opened) /\ written' = written + 1
    <3>1. /\ DOMAIN disk' = DOMAIN disk \union {0} /\ disk'[0] = Append(Content(0), written + 1)
          /\ \A i \in DOMAIN disk \ {0} : disk'[i] = disk[i]
      BY <2>2, <2>3 DEF Rotate!Extended, Rotate!Opened, Rotate!Files, Content
    <3> QED BY <2>1, <2>2, <2>3, <3>1, HistoryExtended
  <2>4. CASE UNCHANGED <<disk, written>>
    BY <1>2, <2>1, <2>4
  <2> QED BY <1>9, <2>3, <2>4 DEF Rotate!Reopen
<1>10. CASE Rotate!Crash
  <2>1. /\ UNCHANGED <<archives, disk, moving, written>> /\ crashes' = crashes + 1
        /\ rpc' = "down"
    BY <1>10 DEF Rotate!Crash
  <2>2. \A j \in 1..(archives + 1) : Allowed(j) <= Allowed(j)'
    BY <1>0, <2>1 DEF Allowed
  <2>3. \A i \in 0..archives : Content(i)' = Content(i)
    BY <2>1 DEF Content
  <2> QED BY <1>0, <1>1, <2>1, <2>2, <2>3
<1>11. CASE UNCHANGED Rotate!vars
  <2>1. UNCHANGED <<archives, disk, moving, written, crashes, rpc>>
    BY <1>11 DEF Rotate!vars
  <2>2. \A j \in 1..(archives + 1) : Allowed(j) <= Allowed(j)'
    BY <1>0, <2>1 DEF Allowed
  <2>3. \A i \in 0..archives : Content(i)' = Content(i)
    BY <2>1 DEF Content
  <2> QED BY <1>0, <1>1, <2>1, <2>2, <2>3
<1> QED BY <1>3, <1>4, <1>5, <1>6, <1>7, <1>8, <1>9, <1>10, <1>11 DEF Rotate!Next

LEMMA HistoryAlways == ServicesSpec => [](FilesInv /\ HistoryInv)
<1>1. Rotate!Init => FilesInv /\ HistoryInv
  BY FilesInit, HistoryInit
<1>2. FilesInv /\ HistoryInv /\ [Rotate!Next]_(Rotate!vars) => (FilesInv /\ HistoryInv)'
  BY FilesNext, HistoryNext
<1> QED BY ServicesAreRotate, <1>1, <1>2, PTL DEF Rotate!Spec

\* What they hold, as the history reads them: one interval.
LEMMA HistoryIsInterval ==
  ASSUME FilesInv, NEW e, IsHistory(e)
  PROVE  /\ e[archives + 1] <= written /\ e[archives + 1] \in Nat
         /\ Rotate!History = Interval(e[archives + 1], written)
<1>0. archives \in Nat /\ DOMAIN disk \subseteq 0..archives /\ disk \in [DOMAIN disk -> Seq(LineNumbers)]
  BY DEF FilesInv
<1>1. /\ e \in [0..(archives + 1) -> Nat] /\ e[0] = written
      /\ \A i \in 0..archives : e[i + 1] <= e[i] /\ Content(i) = Interval(e[i + 1], e[i])
  BY DEF IsHistory
<1> DEFINE n == archives + 1
           ss == [i \in 1..(archives + 1) |->
                    IF archives + 1 - i \in Rotate!Files THEN disk[archives + 1 - i] ELSE <<>>]
           lo == e[n]
           N == {k \in Nat : k + 1 <= n => /\ Flat(ss)[k + 1] = Interval(lo, e[n - (k + 1)])
                                           /\ lo <= e[n - (k + 1)]}
<1>2. /\ n \in Nat /\ n >= 1 /\ ss \in Seq(Seq(LineNumbers)) /\ Len(ss) = n
      /\ \A i \in 1..n : ss[i] = Content(n - i)
  <2>1. \A i \in 1..n : Content(n - i) \in Seq(LineNumbers)
    BY <1>0 DEF Content
  <2>2. n \in Nat /\ n >= 1
    BY <1>0
  <2>3. ASSUME NEW i \in 1..n PROVE ss[i] = Content(n - i)
    <3>1. archives + 1 - i = n - i
      BY <1>0
    <3> QED BY <3>1 DEF Content, Rotate!Files
  <2>4. ss = [i \in 1..n |-> ss[i]]
    OBVIOUS
  <2> HIDE DEF n, ss
  <2> QED BY <2>1, <2>2, <2>3, <2>4
<1>3. Rotate!History = Flat(ss)[n]
  <2>1. Rotate!History = Rotate!FlattenSeq(ss)
    BY DEF Rotate!History
  <2> HIDE DEF ss, n
  <2> QED BY <1>2, <2>1, FlattenIs
<1>4. ASSUME NEW i \in 1..n
      PROVE  /\ n - i \in 0..archives /\ n - i \in 0..n /\ e[n - i] \in Nat
             /\ e[(n - i) + 1] <= e[n - i] /\ ss[i] = Interval(e[(n - i) + 1], e[n - i])
  <2>1. n - i \in 0..archives /\ n - i \in 0..n
    BY <1>0
  <2>2. ss[i] = Content(n - i)
    BY <1>2
  <2> HIDE DEF ss
  <2> QED BY <1>1, <2>1, <2>2
<1>5. lo \in Nat
  BY <1>0, <1>1
<1> HIDE DEF ss, lo
<1>6. 0 \in N
  <2>1. 1 \in 1..n /\ (n - 1) + 1 = n
    BY <1>0
  <2>2. Flat(ss)[1] = ss[1]
    <3> HIDE DEF n
    <3>1. Len(ss) # 0
      BY <1>2
    <3> QED BY <1>2, <3>1, FlatSteps
  <2> HIDE DEF n
  <2> QED BY <1>4, <2>1, <2>2 DEF lo
<1>7. ASSUME NEW k \in Nat, k \in N
      PROVE  k + 1 \in N
  <2> HIDE DEF n
  <2> DEFINE K == k + 1
  <2> SUFFICES ASSUME K + 1 <= n
               PROVE  Flat(ss)[K + 1] = Interval(lo, e[n - (K + 1)]) /\ lo <= e[n - (K + 1)]
    OBVIOUS
  <2>1. K \in 1..(n - 1) /\ K \in 1..n /\ K + 1 \in 1..n /\ (n - (K + 1)) + 1 = n - K
    BY <1>2
  <2>2. Flat(ss)[K] = Interval(lo, e[n - K]) /\ lo <= e[n - K]
    BY <1>2, <1>7, <2>1
  <2> HIDE DEF K
  <2>3. Flat(ss)[K + 1] = Flat(ss)[K] \o ss[K + 1]
    <3>1. K \in 1..(Len(ss) - 1) /\ Len(ss) # 0
      BY <1>2, <2>1
    <3> QED BY <1>2, <3>1, FlatSteps
  <2>4. e[n - (K + 1)] \in Nat /\ e[n - K] <= e[n - (K + 1)] /\ e[n - K] \in Nat
        /\ ss[K + 1] = Interval(e[n - K], e[n - (K + 1)])
    BY <1>4, <2>1
  <2>5. Flat(ss)[K] \o ss[K + 1] = Interval(lo, e[n - (K + 1)])
    BY <1>5, <2>2, <2>4, IntervalsJoin, ZenonT(60)
  <2>6. lo <= e[n - (K + 1)]
    BY <1>5, <2>2, <2>4
  <2> QED BY <2>3, <2>5, <2>6
<1>8. Nat \subseteq N
  <2> HIDE DEF N
  <2> QED BY <1>6, <1>7, NatInductionSet
<1>9. archives + 1 = n /\ n - (archives + 1) = 0
  BY <1>0
<1> HIDE DEF n
<1>10. Flat(ss)[n] = Interval(lo, e[0]) /\ lo <= e[0]
  BY <1>0, <1>2, <1>8, <1>9
<1> QED BY <1>1, <1>3, <1>5, <1>9, <1>10 DEF lo

\* Archives are full, so as many of them as are there are worth that many times their size.
LEMMA ArchivesAreFull ==
  ASSUME FilesInv, NEW e, IsHistory(e), NEW k \in 0..archives
  PROVE  /\ e[k + 1] <= e[1] /\ e[1] <= written
         /\ Cardinality({i \in 1..k : i \in DOMAIN disk}) \in Nat
         /\ Cardinality({i \in 1..k : i \in DOMAIN disk}) * MaxBytes
              <= Rotate!Size(Interval(e[k + 1], e[1]))
<1>0. /\ archives \in Nat /\ written \in 0..Len(LineSize) /\ MaxBytes \in Nat /\ Len(LineSize) \in Nat
      /\ \A i \in DOMAIN disk \ {0} : Rotate!Size(disk[i]) >= MaxBytes
  BY LineFacts DEF FilesInv
<1>1. /\ e \in [0..(archives + 1) -> Nat] /\ e[0] = written
      /\ \A i \in 0..archives : e[i + 1] <= e[i] /\ Content(i) = Interval(e[i + 1], e[i])
  BY DEF IsHistory
<1>2. e[1] \in Nat /\ e[1] <= written
  <2>1. 0 \in 0..archives /\ 0 + 1 = 1 /\ 1 \in 0..(archives + 1)
    BY <1>0
  <2> QED BY <1>1, <2>1
<1> DEFINE There(m) == {i \in 1..m : i \in DOMAIN disk}
           P(m) == /\ e[m + 1] <= e[1]
                   /\ Cardinality(There(m)) \in Nat /\ IsFiniteSet(There(m))
                   /\ Cardinality(There(m)) * MaxBytes <= Rotate!Size(Interval(e[m + 1], e[1]))
           N == {m \in Nat : m <= archives => P(m)}
<1>3. P(0)
  <2>1. There(0) = {}
    OBVIOUS
  <2>2. Rotate!Size(Interval(e[1], e[1])) = 0
    BY <1>2, NothingIsInterval, SizeOfEmpty
  <2>3. 0 + 1 = 1
    OBVIOUS
  <2> HIDE DEF There
  <2> QED BY <1>0, <1>2, <2>1, <2>2, <2>3, FS_EmptySet
<1>4. ASSUME NEW m \in Nat, m + 1 <= archives, P(m)
      PROVE  P(m + 1)
  <2> DEFINE T == There(m)
             c == Cardinality(T)
             lo == e[(m + 1) + 1]
             hi == e[m + 1]
  <2>1. /\ lo \in Nat /\ hi \in Nat /\ lo <= hi /\ Content(m + 1) = Interval(lo, hi)
        /\ hi <= e[1] /\ e[1] <= Len(LineSize) /\ c \in Nat
    <3>1. m + 1 \in 0..archives /\ m + 1 \in 0..(archives + 1) /\ (m + 1) + 1 \in 0..(archives + 1)
      BY <1>0, <1>4
    <3> QED BY <1>0, <1>1, <1>2, <1>4, <3>1
  <2>2. c * MaxBytes <= Rotate!Size(Interval(hi, e[1])) /\ IsFiniteSet(T)
    BY <1>4
  <2>3. There(m + 1) = IF m + 1 \in DOMAIN disk THEN T \union {m + 1} ELSE T
    BY <1>4
  <2>4. m + 1 \notin T
    OBVIOUS
  <2> HIDE DEF There, T, c, lo, hi
  <2>5. /\ Rotate!Size(Interval(lo, e[1]))
             = Rotate!Size(Interval(lo, hi)) + Rotate!Size(Interval(hi, e[1]))
        /\ Rotate!Size(Interval(lo, hi)) \in Nat /\ Rotate!Size(Interval(hi, e[1])) \in Nat
    <3>1. hi <= Len(LineSize)
      BY <1>0, <1>2, <2>1
    <3> QED BY <1>2, <2>1, <3>1, SizesAddUp, IntervalFacts, SizeIsNat
  <2>6. lo <= e[1]
    BY <1>2, <2>1
  <2>7. CASE m + 1 \in DOMAIN disk
    <3>1. Rotate!Size(Interval(lo, hi)) >= MaxBytes
      <4>1. disk[m + 1] = Interval(lo, hi) /\ m + 1 # 0
        BY <1>4, <2>1, <2>7 DEF Content
      <4> QED BY <1>0, <2>7, <4>1
    <3>2. /\ IsFiniteSet(There(m + 1)) /\ Cardinality(There(m + 1)) = c + 1
      BY <2>2, <2>3, <2>4, <2>7, FS_AddElement DEF c
    <3>3. (c + 1) * MaxBytes = c * MaxBytes + MaxBytes /\ c * MaxBytes \in Nat
      BY <1>0, <2>1
    <3>4. (c + 1) * MaxBytes <= Rotate!Size(Interval(lo, e[1]))
      <4> DEFINE x == c * MaxBytes
      <4>1. x \in Nat /\ (c + 1) * MaxBytes = x + MaxBytes /\ x <= Rotate!Size(Interval(hi, e[1]))
        BY <2>2, <3>3
      <4> HIDE DEF x
      <4> QED BY <1>0, <2>5, <3>1, <4>1
    <3> QED BY <2>1, <2>6, <3>2, <3>4 DEF lo
  <2>8. CASE m + 1 \notin DOMAIN disk
    <3>1. There(m + 1) = T
      BY <2>3, <2>8
    <3>2. c * MaxBytes <= Rotate!Size(Interval(lo, e[1]))
      <4> DEFINE x == c * MaxBytes
      <4>1. x \in Nat /\ c * MaxBytes = x /\ x <= Rotate!Size(Interval(hi, e[1]))
        BY <1>0, <2>1, <2>2
      <4> HIDE DEF x
      <4> QED BY <2>5, <4>1
    <3> QED BY <2>1, <2>2, <2>6, <3>1, <3>2 DEF lo, c
  <2> QED BY <2>7, <2>8
<1> HIDE DEF P
<1>5. 0 \in N
  BY <1>3
<1>6. ASSUME NEW m \in Nat, m \in N
      PROVE  m + 1 \in N
  <2>1. m + 1 <= archives => m <= archives
    BY <1>0
  <2> QED BY <1>4, <1>6, <2>1
<1>7. Nat \subseteq N
  <2> HIDE DEF N
  <2> QED BY <1>5, <1>6, NatInductionSet
<1>8. P(k)
  BY <1>0, <1>7
<1> QED BY <1>2, <1>8 DEF P

LEMMA ProductGrows ==
  ASSUME NEW x \in Int, NEW y \in Int, NEW z \in Nat, x <= y
  PROVE  x * z <= y * z
<1>1. (y - x) * z \in Nat
  <2>1. y - x \in Nat
    OBVIOUS
  <2> QED BY <2>1
<1>2. (y - x) * z = y * z - x * z
  OBVIOUS
<1> QED BY <1>1, <1>2

\* The archives that are missing, and those that are there.
LEMMA ThereAndMissing ==
  ASSUME FilesInv
  PROVE  Cardinality({i \in 1..archives : i \in DOMAIN disk}) + Cardinality(Holes(archives + 1)) = archives
<1> DEFINE T == {i \in 1..archives : i \in DOMAIN disk}
           H == Holes(archives + 1)
<1>0. archives \in Nat
  BY DEF FilesInv
<1>1. IsFiniteSet(1..archives) /\ Cardinality(1..archives) = archives
  BY <1>0, FS_Interval
<1>2. IsFiniteSet(H) /\ IsFiniteSet(T)
  BY <1>0, <1>1, HolesFinite, FS_Subset, SMTT(30)
<1>3. T \union H = 1..archives /\ T \intersect H = {}
  <2>1. (archives + 1) - 1 = archives
    BY <1>0
  <2> QED BY <2>1 DEF Holes
<1> HIDE DEF T, H
<1>4. Cardinality(T \union H) = Cardinality(T) + Cardinality(H) - Cardinality(T \intersect H)
  BY <1>2, FS_Union
<1>5. Cardinality(T) \in Nat /\ Cardinality(H) \in Nat
  BY <1>2, FS_CardinalityType
<1>6. Cardinality(T) + Cardinality(H) = archives
  <2>1. Cardinality(T \union H) = archives /\ Cardinality(T \intersect H) = 0
    BY <1>1, <1>3, FS_EmptySet
  <2> QED BY <1>0, <1>4, <1>5, <2>1
<1> QED BY <1>6 DEF T, H

\* Log and archives hold the lines in their order, none twice and none missing between two others,
\* and are worth all archives but one for each crash once anything is gone, for every number of
\* archives, every length of lines and wherever the daemon crashes (write_line, rotate_if_needed).
THEOREM LinesAreKept == ServicesSpec => []HistoryIsKept
<1>1. FilesInv /\ HistoryInv => HistoryIsKept
  <2> SUFFICES ASSUME FilesInv, HistoryInv PROVE HistoryIsKept
    OBVIOUS
  <2>0. /\ archives \in Nat /\ crashes \in Nat /\ written \in Nat /\ written <= Len(LineSize)
        /\ Len(LineSize) \in Nat /\ MaxBytes \in Nat
    BY LineFacts DEF FilesInv
  <2>1. PICK e : IsHistory(e)
    BY DEF HistoryInv
  <2> DEFINE lo == e[archives + 1]
             h == Rotate!History
  <2>2. lo \in Nat /\ lo <= written /\ h = Interval(lo, written)
    BY <2>1, HistoryIsInterval
  <2>3. Len(h) = written - lo /\ h = [i \in 1..Len(h) |-> written - Len(h) + i]
    <3> HIDE DEF h, lo
    <3>1. Len(h) = written - lo
      BY <2>0, <2>2, IntervalFacts
    <3>2. \A i \in 1..(written - lo) : written - (written - lo) + i = lo + i
      BY <2>0, <2>2
    <3> QED BY <2>2, <3>1, <3>2 DEF Interval
  <2>4. Len(h) = written \/ Rotate!Size(h) >= (archives - crashes) * MaxBytes
    <3> SUFFICES ASSUME lo > 0 PROVE Rotate!Size(h) >= (archives - crashes) * MaxBytes
      BY <2>0, <2>2, <2>3
    <3> DEFINE t == Cardinality({i \in 1..archives : i \in DOMAIN disk})
               m == Cardinality(Holes(archives + 1))
               x == t * MaxBytes
               y == Rotate!Size(Interval(e[1], written))
    <3>1. /\ lo <= e[1] /\ e[1] <= written /\ e[1] \in Nat /\ t \in Nat
          /\ x <= Rotate!Size(Interval(lo, e[1]))
      <4>1. archives \in 0..archives /\ 1 \in 0..(archives + 1)
        BY <2>0
      <4> QED BY <2>1, <4>1, ArchivesAreFull DEF IsHistory
    <3>2. t + m = archives /\ m \in Nat
      BY <2>0, ThereAndMissing, HolesFinite
    <3>3. m <= Allowed(archives + 1)
      <4>1. archives + 1 \in 1..(archives + 1)
        BY <2>0
      <4> QED BY <2>1, <4>1 DEF IsHistory
    <3>4. /\ Rotate!Size(h) = Rotate!Size(Interval(lo, e[1])) + y
          /\ Rotate!Size(Interval(lo, e[1])) \in Nat /\ y \in Nat
      <4> HIDE DEF lo, h, y
      <4>1. e[1] <= Len(LineSize)
        BY <2>0, <3>1
      <4>2. Rotate!Size(h) = Rotate!Size(Interval(lo, e[1])) + Rotate!Size(Interval(e[1], written))
        BY <2>0, <2>2, <3>1, SizesAddUp
      <4>3. /\ Interval(lo, e[1]) \in Seq(LineNumbers) /\ Interval(e[1], written) \in Seq(LineNumbers)
        BY <2>0, <2>2, <3>1, <4>1, IntervalFacts
      <4> QED BY <4>2, <4>3, SizeIsNat DEF y
    <3>5. CASE m <= crashes
      <4>1. (archives - crashes) * MaxBytes <= t * MaxBytes
        <5> HIDE DEF t, m
        <5>1. archives - crashes <= t
          BY <2>0, <3>1, <3>2, <3>5
        <5> QED BY <2>0, <3>1, <5>1, ProductGrows
      <4> HIDE DEF x, y, h, lo, t
      <4>2. x = t * MaxBytes /\ x \in Nat
        BY <2>0, <3>1 DEF x
      <4> DEFINE z == (archives - crashes) * MaxBytes
      <4>3. z \in Int /\ z <= x
        BY <2>0, <4>1, <4>2
      <4> HIDE DEF z
      <4>4. Rotate!Size(h) >= z
        BY <3>1, <3>4, <4>2, <4>3
      <4> QED BY <4>4 DEF z
    \* The log is full as well while an archive is under way.
    <3>6. CASE m > crashes
      <4>1. rpc = "rename" /\ moving >= 0 /\ m = crashes + 1
        <5> HIDE DEF m
        <5> QED BY <2>0, <3>2, <3>3, <3>6 DEF Allowed
      <4>2. y >= MaxBytes
        <5>1. 0 \in DOMAIN disk /\ Rotate!Size(disk[0]) >= MaxBytes
          BY <4>1 DEF FilesInv, Rotating
        <5>2. 0 \in 0..archives /\ 0 + 1 = 1
          BY <2>0
        <5>3. Content(0) = Interval(e[0 + 1], e[0]) /\ e[0] = written
          BY <2>1, <5>2 DEF IsHistory
        <5> QED BY <5>1, <5>2, <5>3 DEF Content
      <4>3. (archives - crashes) * MaxBytes = t * MaxBytes + MaxBytes
        <5> HIDE DEF t, m
        <5>1. archives - crashes = t + 1
          BY <2>0, <3>1, <3>2, <4>1
        <5>2. (t + 1) * MaxBytes = t * MaxBytes + MaxBytes
          BY <2>0, <3>1
        <5> QED BY <5>1, <5>2
      <4> HIDE DEF x, y, h, lo, t
      <4>4. x = t * MaxBytes /\ x \in Nat
        BY <2>0, <3>1 DEF x
      <4> DEFINE z == (archives - crashes) * MaxBytes
      <4>5. z = x + MaxBytes
        BY <4>3, <4>4
      <4> HIDE DEF z
      <4>6. Rotate!Size(h) >= z
        BY <2>0, <3>1, <3>4, <4>2, <4>4, <4>5
      <4> QED BY <4>6 DEF z
    <3> QED BY <2>0, <3>2, <3>5, <3>6
  <2> QED BY <2>3, <2>4 DEF HistoryIsKept, Rotate!HistoryIsKept
<1> QED BY <1>1, HistoryAlways, PTL

-----------------------------------------------------------------------------
(***************************************************************************)
(* Runs of equal elements                                                  *)
(***************************************************************************)
\* A behaviour of the services is one of the scan.
LEMMA ServicesAreMemory == ServicesSpec => Memory!Spec
<1>1. ServicesInit => Memory!Init
  BY DEF ServicesInit
<1>2. [ServicesNext]_allVars => [Memory!Next]_(Memory!svars)
  <2>1. UNCHANGED memoryVars => UNCHANGED Memory!svars
    BY DEF memoryVars, Memory!svars
  <2> QED BY <2>1 DEF ServicesNext, allVars
<1> QED BY <1>1, <1>2, PTL DEF ServicesSpec, Memory!Spec

\* What a scan for v keeps: the run that the last element ends, and the longest so far.
AfterElement(r, x, v) ==
  LET n == IF x = v THEN r.run + 1 ELSE 0
  IN  [run |-> n, max |-> IF n > r.max THEN n ELSE r.max]

IsRuns(g, s, v) ==
  g = [t \in SUBSET DOMAIN s |->
         IF t = {} THEN [run |-> 0, max |-> 0]
         ELSE AfterElement(g[t \ {Greatest(t)}], s[Greatest(t)], v)]
Runs(s, v) == CHOOSE g : IsRuns(g, s, v)

LEMMA LongestRunIs ==
  ASSUME NEW s, NEW v
  PROVE  Memory!LongestRun(s, v) = Runs(s, v)[DOMAIN s].max
BY DEF Memory!LongestRun, Memory!FoldLeft, Memory!MapThenFoldSet, Memory!Max, Runs, IsRuns,
       AfterElement, Greatest

RunRecords == [run : Nat, max : Nat]

LEMMA RunsExist ==
  ASSUME NEW S, NEW s \in Seq(S), NEW v
  PROVE  IsRuns(Runs(s, v), s, v)
<1>0. DOMAIN s = 1..Len(s) /\ Len(s) \in Nat
  OBVIOUS
<1> DEFINE F == [x \in (1..Len(s)) \X RunRecords |-> AfterElement(x[2], s[x[1]], v)]
           zero == [run |-> 0, max |-> 0]
<1>1. F \in [(1..Len(s)) \X RunRecords -> RunRecords] /\ zero \in RunRecords
  BY DEF RunRecords, AfterElement
<1>2. \A k \in 1..Len(s), r \in RunRecords : F[<<k, r>>] = AfterElement(r, s[k], v)
  OBVIOUS
<1> HIDE DEF F, zero
<1>3. PICK g \in [SUBSET (1..Len(s)) -> RunRecords] : IsFold(g, Len(s), zero, F)
  BY <1>0, <1>1, FoldExists
<1>4. ASSUME NEW t \in SUBSET (1..Len(s))
      PROVE  g[t] = IF t = {} THEN zero ELSE AfterElement(g[t \ {Greatest(t)}], s[Greatest(t)], v)
  <2>1. g[t] = IF t = {} THEN zero ELSE F[<<Greatest(t), g[t \ {Greatest(t)}]>>]
    BY <1>3 DEF IsFold
  <2>2. t \ {Greatest(t)} \in SUBSET (1..Len(s))
    OBVIOUS
  <2>3. g[t \ {Greatest(t)}] \in RunRecords
    BY <1>3, <2>2
  <2>4. t # {} => Greatest(t) \in 1..Len(s)
    BY <1>0, GreatestIn
  <2> QED BY <1>2, <2>1, <2>3, <2>4
<1>5. IsRuns(g, s, v)
  <2>1. g = [t \in SUBSET DOMAIN s |-> g[t]]
    BY <1>0, <1>3
  <2> QED BY <1>0, <1>4, <2>1 DEF IsRuns, zero
<1> QED BY <1>5 DEF Runs

\* v stands n times on end in s, after place i.
RunAt(s, v, i, n) == \A j \in (i + 1)..(i + n) : s[j] = v

\* After k elements: run is the longest that ends there, and max the longest of all.
RunFacts(s, v, k, r) ==
  /\ r \in RunRecords /\ r.run <= r.max /\ r.max <= k
  /\ RunAt(s, v, k - r.run, r.run)
  /\ \A n \in 0..k : RunAt(s, v, k - n, n) => n <= r.run
  /\ \E i \in 0..(k - r.max) : RunAt(s, v, i, r.max)
  /\ \A n \in 0..k : \A i \in 0..(k - n) : RunAt(s, v, i, n) => n <= r.max

LEMMA RunFactsStep ==
  ASSUME NEW s, NEW v, NEW k \in Nat, NEW r, RunFacts(s, v, k, r)
  PROVE  RunFacts(s, v, k + 1, AfterElement(r, s[k + 1], v))
<1> DEFINE q == AfterElement(r, s[k + 1], v)
<1>1. r \in RunRecords /\ r.run \in Nat /\ r.max \in Nat /\ r.run <= r.max /\ r.max <= k
  BY DEF RunFacts, RunRecords
<1>2. /\ q \in RunRecords
      /\ q.run = IF s[k + 1] = v THEN r.run + 1 ELSE 0
      /\ q.max = IF q.run > r.max THEN q.run ELSE r.max
  BY <1>1 DEF AfterElement, RunRecords
<1> HIDE DEF q
<1>3. /\ q.run \in Nat /\ q.max \in Nat /\ q.run <= q.max /\ q.max <= k + 1 /\ q.run <= r.run + 1
  BY <1>1, <1>2 DEF RunRecords
<1>4. RunAt(s, v, (k + 1) - q.run, q.run)
  <2>1. CASE s[k + 1] = v
    <3> SUFFICES ASSUME NEW j \in ((k + 1) - q.run + 1)..((k + 1) - q.run + q.run) PROVE s[j] = v
      BY DEF RunAt
    <3>1. j = k + 1 \/ j \in (k - r.run + 1)..(k - r.run + r.run)
      BY <1>1, <1>2, <2>1
    <3>2. RunAt(s, v, k - r.run, r.run)
      BY DEF RunFacts
    <3> QED BY <2>1, <3>1, <3>2 DEF RunAt
  <2>2. CASE s[k + 1] # v
    <3>1. q.run = 0 /\ ((k + 1) - 0 + 1)..((k + 1) - 0 + 0) = {}
      BY <1>2, <2>2
    <3> QED BY <3>1 DEF RunAt
  <2> QED BY <2>1, <2>2
<1>5. ASSUME NEW n \in 0..(k + 1), RunAt(s, v, (k + 1) - n, n)
      PROVE  n <= q.run
  <2>1. CASE n = 0
    BY <1>3, <2>1
  <2>2. CASE n # 0
    <3>1. s[k + 1] = v
      <4>1. k + 1 \in ((k + 1) - n + 1)..((k + 1) - n + n)
        BY <2>2
      <4> QED BY <1>5, <4>1 DEF RunAt
    <3>2. RunAt(s, v, k - (n - 1), n - 1)
      <4>1. \A j \in (k - (n - 1) + 1)..(k - (n - 1) + (n - 1)) :
              j \in ((k + 1) - n + 1)..((k + 1) - n + n)
        BY <2>2
      <4> QED BY <1>5, <4>1 DEF RunAt
    <3>3. n - 1 <= r.run
      <4>1. n - 1 \in 0..k
        BY <2>2
      <4> QED BY <3>2, <4>1 DEF RunFacts
    <3> QED BY <1>1, <1>2, <3>1, <3>3
  <2> QED BY <2>1, <2>2
<1>6. \E i \in 0..((k + 1) - q.max) : RunAt(s, v, i, q.max)
  <2>1. CASE q.run > r.max
    <3>1. (k + 1) - q.run \in 0..((k + 1) - q.max) /\ q.max = q.run
      BY <1>2, <1>3, <2>1
    <3> QED BY <1>4, <3>1
  <2>2. CASE ~(q.run > r.max)
    <3>1. PICK i \in 0..(k - r.max) : RunAt(s, v, i, r.max)
      BY DEF RunFacts
    <3>2. i \in 0..((k + 1) - q.max) /\ q.max = r.max
      BY <1>1, <1>2, <2>2
    <3> QED BY <3>1, <3>2
  <2> QED BY <2>1, <2>2
<1>7. ASSUME NEW n \in 0..(k + 1), NEW i \in 0..((k + 1) - n), RunAt(s, v, i, n)
      PROVE  n <= q.max
  <2>1. CASE i = (k + 1) - n
    BY <1>3, <1>5, <1>7, <2>1
  <2>2. CASE i # (k + 1) - n
    <3>1. n \in 0..k /\ i \in 0..(k - n)
      BY <2>2
    <3>2. n <= r.max
      BY <1>7, <3>1 DEF RunFacts
    <3> QED BY <1>1, <1>2, <1>3, <3>2
  <2> QED BY <2>1, <2>2
<1>8. RunFacts(s, v, k + 1, q)
  BY <1>2, <1>3, <1>4, <1>5, <1>6, <1>7 DEF RunFacts
<1> QED BY <1>8 DEF q

\* LongestRun is the length of the longest run.
LEMMA LongestRunFacts ==
  ASSUME NEW S, NEW s \in Seq(S), NEW v
  PROVE  /\ Memory!LongestRun(s, v) \in Nat
         /\ \A n \in Nat : Memory!LongestRun(s, v) >= n <=>
              \E i \in 0..(Len(s) - n) : RunAt(s, v, i, n)
<1>0. DOMAIN s = 1..Len(s) /\ Len(s) \in Nat
  OBVIOUS
<1> DEFINE g == Runs(s, v)
           N == {k \in Nat : k <= Len(s) => RunFacts(s, v, k, g[1..k])}
<1>1. IsRuns(g, s, v)
  BY RunsExist
<1> HIDE DEF g
<1>2. \A t \in SUBSET (1..Len(s)) :
        g[t] = IF t = {} THEN [run |-> 0, max |-> 0]
               ELSE AfterElement(g[t \ {Greatest(t)}], s[Greatest(t)], v)
  BY <1>0, <1>1 DEF IsRuns
<1>3. 0 \in N
  <2>1. 1..0 = {} /\ g[{}] = [run |-> 0, max |-> 0]
    <3>1. {} \in SUBSET (1..Len(s)) /\ 1..0 = {}
      OBVIOUS
    <3>2. g[{}] = IF {} = {} THEN [run |-> 0, max |-> 0]
                  ELSE AfterElement(g[{} \ {Greatest({})}], s[Greatest({})], v)
      BY <1>2, <3>1
    <3> QED BY <3>1, <3>2
  <2>2. RunAt(s, v, 0, 0)
    BY DEF RunAt
  <2>3. RunFacts(s, v, 0, [run |-> 0, max |-> 0])
    <3> DEFINE z == [run |-> 0, max |-> 0]
    <3>1. z \in RunRecords /\ z.run = 0 /\ z.max = 0
      BY DEF RunRecords
    <3> HIDE DEF z
    <3>2. \A n \in 0..0 : n <= z.run /\ n <= z.max
      BY <3>1
    <3>3. 0 \in 0..(0 - z.max) /\ 0 - z.run = 0
      BY <3>1
    <3>4. RunFacts(s, v, 0, z)
      BY <2>2, <3>1, <3>2, <3>3 DEF RunFacts
    <3> QED BY <3>4 DEF z
  <2> QED BY <2>1, <2>3
<1>4. ASSUME NEW k \in Nat, k \in N
      PROVE  k + 1 \in N
  <2> SUFFICES ASSUME k + 1 <= Len(s) PROVE RunFacts(s, v, k + 1, g[1..(k + 1)])
    OBVIOUS
  <2>1. k + 1 \in 1..Len(s) /\ (k + 1) - 1 = k
    BY <1>0
  <2>2. g[1..(k + 1)] = AfterElement(g[1..k], s[k + 1], v)
    BY <1>0, <1>2, <2>1, BeginningStep
  <2>3. RunFacts(s, v, k, g[1..k])
    BY <1>0, <1>4
  <2> QED BY <2>2, <2>3, RunFactsStep
<1>5. Nat \subseteq N
  <2> HIDE DEF N
  <2> QED BY <1>3, <1>4, NatInductionSet
<1> DEFINE r == g[1..Len(s)]
<1>6. RunFacts(s, v, Len(s), r)
  BY <1>0, <1>5
<1>7. Memory!LongestRun(s, v) = r.max
  BY <1>0, LongestRunIs DEF g
<1> HIDE DEF r
<1>8. r.max \in Nat /\ r.max <= Len(s)
  BY <1>6 DEF RunFacts, RunRecords
<1>9. ASSUME NEW n \in Nat
      PROVE  r.max >= n <=> \E i \in 0..(Len(s) - n) : RunAt(s, v, i, n)
  <2>1. ASSUME r.max >= n
        PROVE  \E i \in 0..(Len(s) - n) : RunAt(s, v, i, n)
    <3>1. PICK i \in 0..(Len(s) - r.max) : RunAt(s, v, i, r.max)
      BY <1>6 DEF RunFacts
    <3>2. i \in 0..(Len(s) - n)
      BY <1>0, <1>8, <2>1
    <3>3. \A j \in (i + 1)..(i + n) : j \in (i + 1)..(i + r.max)
      BY <1>8, <2>1
    <3>4. RunAt(s, v, i, n)
      BY <3>1, <3>3 DEF RunAt
    <3> QED BY <3>2, <3>4
  <2>2. ASSUME NEW i \in 0..(Len(s) - n), RunAt(s, v, i, n)
        PROVE  r.max >= n
    <3>1. n \in 0..Len(s)
      BY <1>0
    <3>2. n <= r.max
      BY <1>6, <2>2, <3>1 DEF RunFacts
    <3> QED BY <1>8, <3>2
  <2> QED BY <2>1, <2>2
<1> QED BY <1>7, <1>8, <1>9

-----------------------------------------------------------------------------
(***************************************************************************)
(* The scan of a region                                                    *)
(***************************************************************************)
LEMMA SledFacts ==
  /\ ShortSled \in Nat \ {0} /\ LongSled \in Nat \ {0} /\ ArmSled \in Nat \ {0}
  /\ ThumbSled \in Nat \ {0} /\ MipsSled \in Nat \ {0}
BY ContentAssumption

LEMMA BytesFacts ==
  ASSUME NEW i \in Memory!Insns
  PROVE  Memory!Bytes[i] \in Seq(Nat) /\ Len(Memory!Bytes[i]) >= 1
<1> DEFINE P(b) == b \in Seq(Nat) /\ Len(b) >= 1
<1>1. /\ P(<<144>>) /\ P(<<15, 5>>) /\ P(<<205, 128>>) /\ P(<<72, 199, 192>>) /\ P(<<47, 98, 105, 110, 47, 115, 104>>)
  OBVIOUS
<1>2. /\ P(<<31, 32, 3, 213>>) /\ P(<<1, 0, 0, 212>>) /\ P(<<0, 240, 32, 227>>) /\ P(<<0, 0, 0, 239>>) /\ P(<<0, 191>>)
  OBVIOUS
<1>3. /\ P(<<5, 223>>) /\ P(<<0, 0, 0, 0>>) /\ P(<<12, 0, 0, 0>>) /\ P(<<1, 1, 1, 1>>)
  OBVIOUS
<1> HIDE DEF P
<1>4. P(Memory!Bytes[i])
  BY <1>1, <1>2, <1>3, SMTT(30) DEF Memory!Insns, Memory!Bytes
<1> QED BY <1>4 DEF P

LEMMA ReverseFacts ==
  ASSUME NEW s \in Seq(Nat)
  PROVE  /\ Memory!Reverse(s) \in Seq(Nat) /\ Len(Memory!Reverse(s)) = Len(s)
         /\ \A k \in 1..Len(s) : Memory!Reverse(s)[k] = s[(Len(s) - k) + 1]
<1>1. Len(s) \in Nat /\ \A k \in 1..Len(s) : (Len(s) - k) + 1 \in 1..Len(s)
  OBVIOUS
<1>2. Memory!Reverse(s) = [k \in 1..Len(s) |-> s[(Len(s) - k) + 1]]
  BY DEF Memory!Reverse
<1> QED BY <1>1, <1>2

LEMMA EncodedFacts ==
  ASSUME NEW i \in Memory!Insns
  PROVE  /\ Memory!Encoded(i) \in Seq(Nat) /\ Len(Memory!Encoded(i)) = Len(Memory!Bytes[i])
         /\ Memory!Encoded(i) \in {Memory!Bytes[i], Memory!Reverse(Memory!Bytes[i])}
         /\ i \in Memory!X86 => Memory!Encoded(i) = Memory!Bytes[i]
<1>1. Memory!Bytes[i] \in Seq(Nat)
  BY BytesFacts
<1>2. /\ Memory!Reverse(Memory!Bytes[i]) \in Seq(Nat)
      /\ Len(Memory!Reverse(Memory!Bytes[i])) = Len(Memory!Bytes[i])
  BY <1>1, ReverseFacts
<1> QED BY <1>1, <1>2 DEF Memory!Encoded

\* The instructions one after the other, and what the first k of them are together.
Codes == [j \in DOMAIN code |-> Memory!Encoded(code[j])]
First(ss, k) == IF k = 0 THEN <<>> ELSE Flat(ss)[k]

LEMMA CodesFacts ==
  ASSUME code \in Seq(Memory!Insns)
  PROVE  /\ Codes \in Seq(Seq(Nat)) /\ Len(Codes) = Len(code)
         /\ \A j \in 1..Len(code) : Codes[j] = Memory!Encoded(code[j])
<1>1. DOMAIN code = 1..Len(code) /\ Len(code) \in Nat
  OBVIOUS
<1>2. \A j \in 1..Len(code) : Memory!Encoded(code[j]) \in Seq(Nat)
  BY EncodedFacts
<1> QED BY <1>1, <1>2 DEF Codes

LEMMA RegionIs ==
  ASSUME code \in Seq(Memory!Insns)
  PROVE  Memory!Region = First(Codes, Len(code)) /\ Memory!Region \in Seq(Nat)
<1>1. Memory!Region = Memory!FlattenSeq(Codes)
  BY DEF Memory!Region, Codes
<1>2. Memory!FlattenSeq(Codes) = IF Len(Codes) = 0 THEN Codes ELSE Flat(Codes)[Len(Codes)]
  BY FlattenIs
<1>3. CASE Len(code) = 0
  <2>1. Codes = <<>>
    BY <1>3, CodesFacts
  <2> QED BY <1>1, <1>2, <1>3, <2>1, CodesFacts DEF First
<1>4. CASE Len(code) # 0
  <2>1. Len(Codes) \in 1..Len(Codes)
    BY <1>4, CodesFacts
  <2>2. Flat(Codes)[Len(Codes)] \in Seq(Nat)
    BY <2>1, CodesFacts, FlatExists
  <2> QED BY <1>1, <1>2, <1>4, <2>2, CodesFacts DEF First
<1> QED BY <1>3, <1>4

\* Whatever is reported was found in the beginning of the region that was read.
MemoryInv ==
  /\ code \in Seq(Memory!Insns)
  /\ report = {} \/ \E n \in 1..Len(Memory!Region) : report = Memory!Found(SubSeq(Memory!Region, 1, n))

LEMMA MemoryAlways == ServicesSpec => []MemoryInv
<1>1. Memory!Init => MemoryInv
  BY DEF Memory!Init, MemoryInv
<1>2. MemoryInv /\ [Memory!Next]_(Memory!svars) => MemoryInv'
  <2> SUFFICES ASSUME MemoryInv, [Memory!Next]_(Memory!svars) PROVE MemoryInv'
    OBVIOUS
  <2>1. ASSUME NEW insn \in Memory!Insns, Memory!Write(insn)
        PROVE  MemoryInv'
    <3>1. code' \in Seq(Memory!Insns) /\ report' = {}
      BY <2>1 DEF Memory!Write, MemoryInv
    <3> QED BY <3>1 DEF MemoryInv
  <2>2. ASSUME UNCHANGED <<code, order>>
        PROVE  Memory!Region' = Memory!Region
    <3>1. \A j : Memory!Encoded(j)' = Memory!Encoded(j)
      BY <2>2 DEF Memory!Encoded
    <3> QED BY <2>2, <3>1 DEF Memory!Region, Memory!Encoded
  <2>3. CASE Memory!Scan
    <3>1. Memory!Region' = Memory!Region /\ code' = code
      BY <2>2, <2>3 DEF Memory!Scan
    <3>2. \E n \in 1..Len(Memory!Region) : report' = Memory!Found(SubSeq(Memory!Region, 1, n))
      BY <2>3 DEF Memory!Scan
    <3>3. \E n \in 1..Len(Memory!Region') : report' = Memory!Found(SubSeq(Memory!Region', 1, n))
      BY <3>1, <3>2
    <3> QED BY <3>1, <3>3 DEF MemoryInv
  <2>4. CASE UNCHANGED Memory!svars
    <3>1. Memory!Region' = Memory!Region /\ code' = code /\ report' = report
      BY <2>2, <2>4 DEF Memory!svars
    <3> QED BY <3>1 DEF MemoryInv
  <2> QED BY <2>1, <2>3, <2>4 DEF Memory!Next
<1> QED BY ServicesAreMemory, <1>1, <1>2, PTL DEF Memory!Spec

\* The words of the beginning of a buffer are the first words of the buffer.
LEMMA WordsOfBeginning ==
  ASSUME NEW s \in Seq(Nat), NEW n \in 1..Len(s)
  PROVE  LET b == SubSeq(s, 1, n)
         IN  /\ Memory!Words(s) \in Seq(Seq(Nat)) /\ Memory!Words(b) \in Seq(Seq(Nat))
             /\ Len(Memory!Words(b)) <= Len(Memory!Words(s))
             /\ \A k \in 1..Len(Memory!Words(b)) : Memory!Words(b)[k] = Memory!Words(s)[k]
<1> DEFINE b == SubSeq(s, 1, n)
<1>1. /\ b \in Seq(Nat) /\ Len(b) = n /\ n \in Nat /\ Len(s) \in Nat /\ n <= Len(s)
      /\ \A k \in 1..n : b[k] = s[k]
  OBVIOUS
<1> HIDE DEF b
<1>2. ASSUME NEW t \in Seq(Nat)
      PROVE  /\ Memory!Words(t) \in Seq(Seq(Nat)) /\ Len(Memory!Words(t)) = Len(t) \div 4
             /\ \A k \in 1..(Len(t) \div 4) : Memory!Words(t)[k] = SubSeq(t, 4 * k - 3, 4 * k)
  <2>1. Len(t) \in Nat /\ Len(t) \div 4 \in Nat /\ 4 * (Len(t) \div 4) <= Len(t)
    OBVIOUS
  <2>2. \A k \in 1..(Len(t) \div 4) : SubSeq(t, 4 * k - 3, 4 * k) \in Seq(Nat)
    OBVIOUS
  <2>3. Memory!Words(t) = [k \in 1..(Len(t) \div 4) |-> SubSeq(t, 4 * k - 3, 4 * k)]
    BY DEF Memory!Words
  <2> QED BY <2>1, <2>2, <2>3
<1>3. n \div 4 \in Nat /\ Len(s) \div 4 \in Nat /\ n \div 4 <= Len(s) \div 4 /\ 4 * (n \div 4) <= n
  BY <1>1
<1>4. ASSUME NEW k \in 1..(n \div 4)
      PROVE  Memory!Words(b)[k] = Memory!Words(s)[k]
  <2>1. k \in 1..(Len(s) \div 4) /\ 4 * k <= n /\ k \in Nat \ {0}
    BY <1>3
  <2>2. SubSeq(b, 4 * k - 3, 4 * k) = SubSeq(s, 4 * k - 3, 4 * k)
    BY <1>1, <2>1
  <2> QED BY <1>1, <1>2, <2>1, <2>2
<1> QED BY <1>1, <1>2, <1>3, <1>4 DEF b

\* A run in the beginning of a sequence is one in the sequence.
HasRun(s, v, n) == \E i \in 0..(Len(s) - n) : RunAt(s, v, i, n)

LEMMA RunInBeginning ==
  ASSUME NEW S, NEW t \in Seq(S), NEW u \in Seq(S), NEW v, NEW n \in Nat,
         Len(t) <= Len(u), \A k \in 1..Len(t) : t[k] = u[k], Memory!LongestRun(t, v) >= n
  PROVE  HasRun(u, v, n)
<1>1. PICK i \in 0..(Len(t) - n) : RunAt(t, v, i, n)
  BY LongestRunFacts
<1>2. i \in 0..(Len(u) - n) /\ \A j \in (i + 1)..(i + n) : j \in 1..Len(t)
  <2>1. Len(t) \in Nat /\ Len(u) \in Nat
    OBVIOUS
  <2> QED BY <2>1
<1> QED BY <1>1, <1>2 DEF RunAt, HasRun

\* A sled that is reported is one: as many instructions as the limit asks for stand on end in the
\* region, whatever instructions it holds, in either byte order, for every length of sleds and
\* wherever reading ended (has_run_byte, scan_mips).
THEOREM SledsStand == ServicesSpec => []SledsAreContiguous
<1>1. MemoryInv => SledsAreContiguous
  <2> SUFFICES ASSUME MemoryInv, report # {} PROVE SledsAreContiguous
    BY DEF SledsAreContiguous, Memory!SledsAreContiguous
  <2> DEFINE s == Memory!Region
             words == Memory!Words(s)
  <2>1. s \in Seq(Nat)
    BY RegionIs DEF MemoryInv
  <2>2. PICK n \in 1..Len(s) : report = Memory!Found(SubSeq(s, 1, n))
    BY DEF MemoryInv
  <2> DEFINE b == SubSeq(s, 1, n)
  <2>3. /\ b \in Seq(Nat) /\ Len(b) = n /\ Len(s) \in Nat /\ n <= Len(s) /\ n \in Nat
        /\ \A k \in 1..n : b[k] = s[k]
    BY <2>1
  <2>4. /\ words \in Seq(Seq(Nat)) /\ Memory!Words(b) \in Seq(Seq(Nat))
        /\ Len(Memory!Words(b)) <= Len(words)
        /\ \A k \in 1..Len(Memory!Words(b)) : Memory!Words(b)[k] = words[k]
    BY <2>1, WordsOfBeginning
  <2>5. /\ "nop" \in report => Memory!NopRun(b) >= ShortSled
        /\ "long_nop" \in report => Memory!NopRun(b) >= LongSled
        /\ "mips_nop" \in report => Memory!ZeroRun(b) >= MipsSled
    <3> HIDE DEF b
    <3> QED BY <2>2 DEF Memory!Found, b
  <2> HIDE DEF s, b, words
  <2>6. "nop" \in report => HasRun(s, 144, ShortSled)
    <3> SUFFICES ASSUME "nop" \in report PROVE HasRun(s, 144, ShortSled)
      OBVIOUS
    <3>1. Memory!LongestRun(b, 144) >= ShortSled
      BY <2>5 DEF Memory!NopRun
    <3> QED BY <2>1, <2>3, <3>1, RunInBeginning, SledFacts
  <2>7. "long_nop" \in report => HasRun(s, 144, LongSled)
    <3> SUFFICES ASSUME "long_nop" \in report PROVE HasRun(s, 144, LongSled)
      OBVIOUS
    <3>1. Memory!LongestRun(b, 144) >= LongSled
      BY <2>5 DEF Memory!NopRun
    <3> QED BY <2>1, <2>3, <3>1, RunInBeginning, SledFacts
  <2>8. "mips_nop" \in report => HasRun(words, <<0, 0, 0, 0>>, MipsSled)
    <3> SUFFICES ASSUME "mips_nop" \in report PROVE HasRun(words, <<0, 0, 0, 0>>, MipsSled)
      OBVIOUS
    <3>1. Memory!LongestRun(Memory!Words(b), <<0, 0, 0, 0>>) >= MipsSled
      BY <2>5 DEF Memory!ZeroRun
    <3> QED BY <2>4, <3>1, RunInBeginning, SledFacts
  <2> QED BY <2>6, <2>7, <2>8
          DEF SledsAreContiguous, Memory!SledsAreContiguous, HasRun, RunAt, s, words
<1> QED BY <1>1, MemoryAlways, PTL

-----------------------------------------------------------------------------
(***************************************************************************)
(* Code in a region                                                        *)
(***************************************************************************)
\* First joins one sequence after the other.
LEMMA FirstFacts ==
  ASSUME NEW S, NEW ss \in Seq(Seq(S))
  PROVE  /\ First(ss, 0) = <<>>
         /\ \A k \in 0..Len(ss) : First(ss, k) \in Seq(S)
         /\ \A k \in 0..(Len(ss) - 1) : First(ss, k + 1) = First(ss, k) \o ss[k + 1]
<1>0. Len(ss) \in Nat /\ \A k \in 1..Len(ss) : ss[k] \in Seq(S)
  OBVIOUS
<1>1. First(ss, 0) = <<>> /\ <<>> \in Seq(S)
  BY DEF First
<1>2. ASSUME NEW k \in 0..Len(ss) PROVE First(ss, k) \in Seq(S)
  <2>1. CASE k = 0
    BY <1>1, <2>1
  <2>2. CASE k # 0
    <3>1. k \in 1..Len(ss)
      BY <2>2
    <3>2. Flat(ss)[k] \in Seq(S)
      BY <3>1, FlatExists
    <3> QED BY <2>2, <3>2 DEF First
  <2> QED BY <2>1, <2>2
<1>3. ASSUME NEW k \in 0..(Len(ss) - 1) PROVE First(ss, k + 1) = First(ss, k) \o ss[k + 1]
  <2>1. Len(ss) # 0 /\ k + 1 # 0 /\ k + 1 \in 1..Len(ss)
    BY <1>0
  <2>2. First(ss, k + 1) = Flat(ss)[k + 1]
    BY <2>1 DEF First
  <2>3. CASE k = 0
    <3>1. Flat(ss)[1] = ss[1]
      BY <2>1, FlatSteps
    <3>2. <<>> \o ss[1] = ss[1]
      <4>1. ss[1] \in Seq(S)
        BY <1>0, <2>1, <2>3
      <4> QED BY <4>1, ConcatEmptySeq
    <3> QED BY <1>1, <2>2, <2>3, <3>1, <3>2
  <2>4. CASE k # 0
    <3>1. k \in 1..(Len(ss) - 1) /\ First(ss, k) = Flat(ss)[k]
      BY <2>4 DEF First
    <3>2. Flat(ss)[k + 1] = Flat(ss)[k] \o ss[k + 1]
      BY <2>1, <3>1, FlatSteps
    <3> QED BY <2>2, <3>1, <3>2
  <2> QED BY <2>3, <2>4
<1> QED BY <1>1, <1>2, <1>3

\* What comes after the first i is what the sequences from there on are together.
LEMMA FirstSplit ==
  ASSUME NEW ss \in Seq(Seq(Nat)), NEW tt \in Seq(Seq(Nat)), NEW i \in Nat,
         i + Len(tt) <= Len(ss), \A j \in 1..Len(tt) : tt[j] = ss[i + j],
         NEW k \in 0..Len(tt)
  PROVE  First(ss, i + k) = First(ss, i) \o First(tt, k)
<1>0. Len(ss) \in Nat /\ Len(tt) \in Nat /\ i \in 0..Len(ss)
  OBVIOUS
<1>1. First(ss, i) \in Seq(Nat)
  BY <1>0, FirstFacts
<1> DEFINE Q(m) == First(ss, i + m) = First(ss, i) \o First(tt, m)
           N == {m \in Nat : m <= Len(tt) => Q(m)}
<1>2. 0 \in N
  <2>1. First(tt, 0) = <<>> /\ i + 0 = i
    BY FirstFacts
  <2>2. First(ss, i) \o <<>> = First(ss, i)
    BY <1>1, ConcatEmptySeq
  <2> QED BY <2>1, <2>2
<1>3. ASSUME NEW m \in Nat, m \in N
      PROVE  m + 1 \in N
  <2> HIDE DEF Q
  <2> SUFFICES ASSUME m + 1 <= Len(tt) PROVE Q(m + 1)
    OBVIOUS
  <2>1. /\ m \in 0..(Len(tt) - 1) /\ i + m \in 0..(Len(ss) - 1) /\ m \in 0..Len(tt)
        /\ m + 1 \in 1..Len(tt) /\ i + (m + 1) = (i + m) + 1
    BY <1>0, SMTT(30)
  <2>2. First(tt, m + 1) = First(tt, m) \o tt[m + 1] /\ First(tt, m) \in Seq(Nat)
    BY <2>1, FirstFacts
  <2>3. First(ss, (i + m) + 1) = First(ss, i + m) \o ss[(i + m) + 1]
    BY <2>1, FirstFacts
  <2>4. tt[m + 1] = ss[(i + m) + 1] /\ tt[m + 1] \in Seq(Nat)
    BY <1>0, <2>1
  <2>5. First(ss, i + m) = First(ss, i) \o First(tt, m)
    <3>1. Q(m)
      BY <1>0, <1>3
    <3> QED BY <3>1 DEF Q
  <2>6. (First(ss, i) \o First(tt, m)) \o tt[m + 1] = First(ss, i) \o (First(tt, m) \o tt[m + 1])
    <3> DEFINE A == First(ss, i)
               B == First(tt, m)
               c == tt[m + 1]
    <3>1. A \in Seq(Nat) /\ B \in Seq(Nat) /\ c \in Seq(Nat)
      BY <1>1, <2>2, <2>4
    <3> HIDE DEF A, B, c
    <3>2. (A \o B) \o c = A \o (B \o c)
      BY ONLY <3>1, ConcatAssociative, SMTT(30)
    <3> QED BY <3>2 DEF A, B, c
  <2> QED BY <2>1, <2>2, <2>3, <2>4, <2>5, <2>6 DEF Q
<1>4. Nat \subseteq N
  <2> HIDE DEF N
  <2> QED BY <1>2, <1>3, NatInductionSet
<1>5. Q(k)
  <2> HIDE DEF Q
  <2> QED BY <1>0, <1>4
<1> QED BY <1>5

\* Their length is that of others that are as long, and at least their number when none is empty.
LEMMA FirstLengths ==
  ASSUME NEW S, NEW ss \in Seq(Seq(S)), NEW tt \in Seq(Seq(S)), Len(tt) <= Len(ss),
         \A j \in 1..Len(tt) : Len(ss[j]) = Len(tt[j]), NEW k \in 0..Len(tt)
  PROVE  /\ Len(First(ss, k)) = Len(First(tt, k))
         /\ (\A j \in 1..Len(tt) : Len(tt[j]) >= 1) => Len(First(tt, k)) >= k
<1>0. /\ Len(ss) \in Nat /\ Len(tt) \in Nat
      /\ \A j \in 1..Len(tt) : ss[j] \in Seq(S) /\ tt[j] \in Seq(S)
  OBVIOUS
<1> DEFINE Q(m) == /\ Len(First(ss, m)) = Len(First(tt, m))
                   /\ (\A j \in 1..Len(tt) : Len(tt[j]) >= 1) => Len(First(tt, m)) >= m
           N == {m \in Nat : m <= Len(tt) => Q(m)}
<1>1. 0 \in N
  <2>1. First(ss, 0) = <<>> /\ First(tt, 0) = <<>>
    BY FirstFacts
  <2> QED BY <2>1
<1>2. ASSUME NEW m \in Nat, m \in N
      PROVE  m + 1 \in N
  <2> HIDE DEF Q
  <2> SUFFICES ASSUME m + 1 <= Len(tt) PROVE Q(m + 1)
    OBVIOUS
  <2>1. /\ m \in 0..(Len(tt) - 1) /\ m \in 0..(Len(ss) - 1) /\ m + 1 \in 1..Len(tt)
        /\ m \in 0..Len(tt) /\ m \in 0..Len(ss)
    BY <1>0
  <2> DEFINE A == First(ss, m)
             B == First(tt, m)
             c == ss[m + 1]
             d == tt[m + 1]
  <2>2. /\ First(ss, m + 1) = A \o c /\ First(tt, m + 1) = B \o d
        /\ A \in Seq(S) /\ B \in Seq(S) /\ c \in Seq(S) /\ d \in Seq(S) /\ Len(c) = Len(d)
    BY <1>0, <2>1, FirstFacts
  <2>3. Q(m)
    BY <1>0, <1>2, <2>1
  <2>4. Len(A) = Len(B) /\ ((\A j \in 1..Len(tt) : Len(tt[j]) >= 1) => Len(B) >= m /\ Len(d) >= 1)
    BY <2>1, <2>3 DEF Q
  <2> HIDE DEF A, B, c, d
  <2>5. A \in Seq(S) /\ B \in Seq(S) /\ c \in Seq(S) /\ d \in Seq(S)
    BY <2>2
  <2>6. /\ Len(A \o c) = Len(A) + Len(c) /\ Len(B \o d) = Len(B) + Len(d)
        /\ Len(A) \in Nat /\ Len(B) \in Nat /\ Len(c) \in Nat /\ Len(d) \in Nat
    BY ONLY <2>5, ConcatProperties
  <2>7. Len(First(ss, m + 1)) = Len(A) + Len(c) /\ Len(First(tt, m + 1)) = Len(B) + Len(d)
    BY <2>2, <2>6
  <2>8. Len(First(ss, m + 1)) = Len(First(tt, m + 1))
    BY <2>2, <2>4, <2>7
  <2>9. (\A j \in 1..Len(tt) : Len(tt[j]) >= 1) => Len(First(tt, m + 1)) >= m + 1
    BY <2>4, <2>6, <2>7
  <2> QED BY <2>8, <2>9 DEF Q
<1>3. Nat \subseteq N
  <2> HIDE DEF N
  <2> QED BY <1>1, <1>2, NatInductionSet
<1>4. Q(k)
  <2> HIDE DEF Q
  <2> QED BY <1>0, <1>3
<1> QED BY <1>4

Times(p, n) == [j \in 1..n |-> p]

LEMMA TimesFacts ==
  ASSUME NEW p \in Seq(Nat), NEW n \in Nat \ {0}
  PROVE  /\ Times(p, n) \in Seq(Seq(Nat)) /\ Len(Times(p, n)) = n
         /\ \A j \in 1..n : Times(p, n)[j] = p
         /\ Memory!Repeated(p, n) = First(Times(p, n), n)
         /\ Memory!Repeated(p, n) \in Seq(Nat)
<1>1. /\ Times(p, n) \in Seq(Seq(Nat)) /\ Len(Times(p, n)) = n
      /\ \A j \in 1..n : Times(p, n)[j] = p
  BY DEF Times
<1>2. Memory!Repeated(p, n) = Memory!FlattenSeq(Times(p, n))
  BY DEF Memory!Repeated, Times
<1>3. Memory!Repeated(p, n) = First(Times(p, n), n)
  BY <1>1, <1>2, FlattenIs DEF First
<1>4. First(Times(p, n), n) \in Seq(Nat)
  <2>1. n \in 0..Len(Times(p, n))
    BY <1>1
  <2> QED BY <1>1, <2>1, FirstFacts
<1> QED BY <1>1, <1>3, <1>4

LEMMA OnceIsItself ==
  ASSUME NEW p \in Seq(Nat)
  PROVE  Memory!Repeated(p, 1) = p
<1>1. /\ Times(p, 1) \in Seq(Seq(Nat)) /\ Len(Times(p, 1)) = 1 /\ Times(p, 1)[1] = p
      /\ Memory!Repeated(p, 1) = First(Times(p, 1), 1)
  <2>1. 1 \in Nat \ {0} /\ 1 \in 1..1
    OBVIOUS
  <2> QED BY <2>1, TimesFacts
<1>2. Flat(Times(p, 1))[1] = Times(p, 1)[1]
  <2>1. Len(Times(p, 1)) # 0
    BY <1>1
  <2> QED BY <1>1, <2>1, FlatSteps
<1> QED BY <1>1, <1>2 DEF First

\* A pattern of one value, repeated, is that value throughout.
LEMMA RepeatedConstant ==
  ASSUME NEW p \in Seq(Nat), NEW n \in Nat \ {0}, NEW x, \A j \in 1..Len(p) : p[j] = x
  PROVE  /\ Len(Memory!Repeated(p, n)) = n * Len(p)
         /\ \A j \in 1..(n * Len(p)) : Memory!Repeated(p, n)[j] = x
<1> DEFINE tt == Times(p, n)
           Q(m) == Len(First(tt, m)) = m * Len(p) /\ \A j \in 1..(m * Len(p)) : First(tt, m)[j] = x
           N == {m \in Nat : m <= n => Q(m)}
<1>0. tt \in Seq(Seq(Nat)) /\ Len(tt) = n /\ \A j \in 1..n : tt[j] = p
  BY TimesFacts
<1> HIDE DEF tt
<1>1. 0 \in N
  <2>1. First(tt, 0) = <<>> /\ 0 * Len(p) = 0
    BY <1>0, FirstFacts
  <2> QED BY <2>1
<1>2. ASSUME NEW m \in Nat, m \in N
      PROVE  m + 1 \in N
  <2> HIDE DEF Q
  <2> SUFFICES ASSUME m + 1 <= n PROVE Q(m + 1)
    OBVIOUS
  <2> DEFINE A == First(tt, m)
             a1 == m * Len(p)
  <2>1. /\ m \in 0..(n - 1) /\ m \in 0..n /\ m + 1 \in 1..n
    OBVIOUS
  <2>2. First(tt, m + 1) = A \o p /\ A \in Seq(Nat)
    BY <1>0, <2>1, FirstFacts
  <2>3. Q(m)
    BY <1>2
  <2>4. Len(A) = a1 /\ \A j \in 1..a1 : A[j] = x
    BY <2>3 DEF Q
  <2>5. (m + 1) * Len(p) = a1 + Len(p) /\ a1 \in Nat /\ Len(p) \in Nat
    OBVIOUS
  <2> HIDE DEF A, a1
  <2>6. /\ Len(A \o p) = Len(A) + Len(p)
        /\ \A j \in 1..(Len(A) + Len(p)) : (A \o p)[j] = IF j <= Len(A) THEN A[j] ELSE p[j - Len(A)]
    BY <2>2, ConcatProperties
  <2>7. ASSUME NEW j \in 1..(a1 + Len(p)) PROVE (A \o p)[j] = x
    <3>1. CASE j <= a1
      BY <2>4, <2>5, <2>6, <3>1
    <3>2. CASE ~(j <= a1)
      <4>1. j - a1 \in 1..Len(p)
        BY <2>5, <3>2
      <4> QED BY <2>4, <2>5, <2>6, <3>2, <4>1
    <3> QED BY <3>1, <3>2
  <2> QED BY <2>2, <2>4, <2>5, <2>6, <2>7 DEF Q
<1>3. Nat \subseteq N
  <2> HIDE DEF N
  <2> QED BY <1>1, <1>2, NatInductionSet
<1>4. Q(n)
  <2> HIDE DEF Q
  <2> QED BY <1>3
<1>5. Memory!Repeated(p, n) = First(tt, n)
  BY TimesFacts DEF tt
<1> QED BY <1>4, <1>5

\* Instructions on end are found where they stand: before them comes what stands before.
LEMMA StandsIn ==
  ASSUME code \in Seq(Memory!Insns), NEW insn \in Memory!Insns, NEW n \in Nat \ {0},
         NEW i \in 1..(Len(code) - n + 1), \A j \in i..(i + n - 1) : code[j] = insn
  PROVE  \E rest \in Seq(Nat) :
           /\ Memory!Region
                = (First(Codes, i - 1) \o Memory!Repeated(Memory!Encoded(insn), n)) \o rest
           /\ i + n <= Len(code) => Len(rest) >= 1
<1> DEFINE p == Memory!Encoded(insn)
           tt == Times(p, n)
           m == Len(code)
           k == (i - 1) + n
           uu == [j \in 1..(m - k) |-> Codes[k + j]]
           A == First(Codes, i - 1)
           B == First(tt, n)
           C == First(uu, m - k)
<1>0. /\ Codes \in Seq(Seq(Nat)) /\ Len(Codes) = m /\ m \in Nat
      /\ \A j \in 1..m : Codes[j] = Memory!Encoded(code[j]) /\ code[j] \in Memory!Insns
  BY CodesFacts
<1>1. i - 1 \in 0..m /\ k \in 0..m /\ k + (m - k) = m /\ m - k \in Nat /\ (i - 1) + n <= m
  BY <1>0
<1>2. p \in Seq(Nat) /\ tt \in Seq(Seq(Nat)) /\ Len(tt) = n /\ \A j \in 1..n : tt[j] = p
  BY EncodedFacts, TimesFacts
<1>3. B = Memory!Repeated(p, n)
  BY EncodedFacts, TimesFacts
<1>4. ASSUME NEW j \in 1..n PROVE tt[j] = Codes[(i - 1) + j]
  <2>1. (i - 1) + j \in i..(i + n - 1) /\ (i - 1) + j \in 1..m
    BY <1>0
  <2> HIDE DEF tt
  <2> QED BY <1>0, <1>2, <2>1
<1>5. /\ uu \in Seq(Seq(Nat)) /\ Len(uu) = m - k
      /\ \A j \in 1..(m - k) : uu[j] = Codes[k + j] /\ k + j \in 1..m
  <2>1. \A j \in 1..(m - k) : k + j \in 1..m
    BY <1>1
  <2> HIDE DEF k, m
  <2>2. \A j \in 1..(m - k) : Codes[k + j] \in Seq(Nat)
    BY <1>0, <2>1
  <2> QED BY <1>1, <2>1, <2>2
<1> HIDE DEF p, tt, uu, m, k
<1>6. First(Codes, (i - 1) + n) = A \o B
  <2>1. n \in 0..Len(tt) /\ (i - 1) + Len(tt) <= Len(Codes) /\ i - 1 \in Nat
    BY <1>0, <1>1, <1>2
  <2>2. \A j \in 1..Len(tt) : tt[j] = Codes[(i - 1) + j]
    BY <1>2, <1>4
  <2>3. Codes \in Seq(Seq(Nat)) /\ tt \in Seq(Seq(Nat))
    BY <1>0, <1>2
  <2> DEFINE cc == Codes
             a == i - 1
  <2>4. /\ cc \in Seq(Seq(Nat)) /\ tt \in Seq(Seq(Nat)) /\ a \in Nat /\ a + Len(tt) <= Len(cc)
        /\ (\A j \in 1..Len(tt) : tt[j] = cc[a + j]) /\ n \in 0..Len(tt)
    BY <2>1, <2>2, <2>3
  <2> HIDE DEF cc, a
  <2>5. First(cc, a + n) = First(cc, a) \o First(tt, n)
    BY ONLY <2>4, FirstSplit
  <2> QED BY <2>5 DEF cc, a, A, B
<1>7. First(Codes, k + (m - k)) = First(Codes, k) \o C
  <2>1. m - k \in 0..Len(uu) /\ k + Len(uu) <= Len(Codes) /\ k \in Nat
    BY <1>0, <1>1, <1>5
  <2>2. \A j \in 1..Len(uu) : uu[j] = Codes[k + j]
    BY <1>5
  <2> DEFINE cc == Codes
             b == m - k
  <2>4. /\ cc \in Seq(Seq(Nat)) /\ uu \in Seq(Seq(Nat)) /\ k \in Nat /\ k + Len(uu) <= Len(cc)
        /\ (\A j \in 1..Len(uu) : uu[j] = cc[k + j]) /\ b \in 0..Len(uu)
    BY <1>0, <1>5, <2>1, <2>2
  <2> HIDE DEF cc, b
  <2>5. First(cc, k + b) = First(cc, k) \o First(uu, b)
    BY ONLY <2>4, FirstSplit
  <2> QED BY <2>5 DEF cc, b, C
<1>8. Memory!Region = (A \o B) \o C
  <2>1. Memory!Region = First(Codes, m)
    BY RegionIs DEF m
  <2>2. First(Codes, k) = A \o B
    BY <1>6 DEF k
  <2> HIDE DEF A, B, C
  <2> QED BY <1>1, <1>7, <2>1, <2>2
<1>9. C \in Seq(Nat) /\ Len(C) >= m - k
  <2>1. m - k \in 0..Len(uu) /\ Len(uu) <= Len(uu)
    BY <1>1, <1>5
  <2>2. C \in Seq(Nat)
    BY <1>5, <2>1, FirstFacts
  <2>3. \A j \in 1..Len(uu) : Len(uu[j]) >= 1
    <3> SUFFICES ASSUME NEW j \in 1..(m - k) PROVE Len(uu[j]) >= 1
      BY <1>5
    <3>1. uu[j] = Memory!Encoded(code[k + j]) /\ code[k + j] \in Memory!Insns
      BY <1>0, <1>5
    <3> QED BY <3>1, EncodedFacts, BytesFacts
  <2>4. Len(First(uu, m - k)) >= m - k
    BY <1>5, <2>1, <2>3, FirstLengths
  <2> QED BY <2>2, <2>4
<1>10. i + n <= Len(code) => Len(C) >= 1
  <2>1. Len(C) \in Nat /\ Len(C) >= m - k
    BY <1>9
  <2> HIDE DEF C
  <2> QED BY <1>0, <2>1 DEF m, k
<1> HIDE DEF A, B, C
<1> QED BY <1>3, <1>8, <1>9, <1>10 DEF p, A

LEMMA PatternIn ==
  ASSUME NEW x \in Seq(Nat), NEW y \in Seq(Nat), NEW z \in Seq(Nat)
  PROVE  /\ (x \o y) \o z \in Seq(Nat) /\ Len((x \o y) \o z) = Len(x) + Len(y) + Len(z)
         /\ \A j \in 1..Len(y) : ((x \o y) \o z)[Len(x) + j] = y[j]
         /\ Memory!HasPattern((x \o y) \o z, y)
<1> DEFINE w == (x \o y) \o z
<1>0. Len(x) \in Nat /\ Len(y) \in Nat /\ Len(z) \in Nat
  OBVIOUS
<1>1. /\ x \o y \in Seq(Nat) /\ Len(x \o y) = Len(x) + Len(y)
      /\ \A j \in 1..(Len(x) + Len(y)) : (x \o y)[j] = IF j <= Len(x) THEN x[j] ELSE y[j - Len(x)]
  BY ConcatProperties
<1>2. /\ w \in Seq(Nat) /\ Len(w) = Len(x \o y) + Len(z)
      /\ \A j \in 1..(Len(x \o y) + Len(z)) :
           w[j] = IF j <= Len(x \o y) THEN (x \o y)[j] ELSE z[j - Len(x \o y)]
  BY <1>1, ConcatProperties
<1> HIDE DEF w
<1>3. ASSUME NEW j \in 1..Len(y) PROVE w[Len(x) + j] = y[j]
  <2>1. /\ Len(x) + j \in 1..(Len(x \o y) + Len(z)) /\ Len(x) + j <= Len(x \o y)
        /\ Len(x) + j \in 1..(Len(x) + Len(y)) /\ ~(Len(x) + j <= Len(x)) /\ (Len(x) + j) - Len(x) = j
    BY <1>0, <1>1
  <2>2. w[Len(x) + j] = (x \o y)[Len(x) + j]
    BY <1>2, <2>1
  <2>3. (x \o y)[Len(x) + j] = y[(Len(x) + j) - Len(x)]
    BY <1>1, <2>1
  <2> QED BY <2>1, <2>2, <2>3
<1>4. SubSeq(w, Len(x) + 1, Len(x) + Len(y)) = y
  <2> DEFINE q == Len(x)
             u == SubSeq(w, q + 1, q + Len(y))
  <2>1. /\ q \in Nat /\ Len(y) \in Nat /\ w \in Seq(Nat) /\ q + Len(y) <= Len(w)
        /\ \A j \in 1..Len(y) : w[q + j] = y[j]
    BY <1>0, <1>1, <1>2, <1>3
  <2> HIDE DEF q
  <2>2. u \in Seq(Nat) /\ Len(u) = Len(y) /\ \A j \in 1..Len(y) : u[j] = w[q + j]
    BY <2>1
  <2> HIDE DEF u
  <2>3. u = y
    <3>1. /\ u = [j \in 1..Len(y) |-> u[j]] /\ y = [j \in 1..Len(y) |-> y[j]]
          /\ \A j \in 1..Len(y) : u[j] = y[j]
      BY <2>1, <2>2
    <3> QED BY <3>1
  <2> QED BY <2>3 DEF u, q
<1>5. Memory!HasPattern(w, y)
  <2>1. Len(x) \in 0..(Len(w) - Len(y))
    BY <1>0, <1>1, <1>2
  <2> QED BY <1>4, <2>1 DEF Memory!HasPattern
<1> QED BY <1>0, <1>1, <1>2, <1>3, <1>5 DEF w

\* What stands in the code stands in the region as a pattern.
LEMMA PatternStands ==
  ASSUME code \in Seq(Memory!Insns), NEW insn \in Memory!Insns, NEW n \in Nat \ {0},
         Memory!Stands(insn, n)
  PROVE  Memory!HasPattern(Memory!Region, Memory!Repeated(Memory!Encoded(insn), n))
<1> DEFINE y == Memory!Repeated(Memory!Encoded(insn), n)
<1>1. PICK i \in 1..(Len(code) - n + 1) : \A j \in i..(i + n - 1) : code[j] = insn
  BY DEF Memory!Stands
<1>2. PICK rest \in Seq(Nat) : Memory!Region = (First(Codes, i - 1) \o y) \o rest
  BY <1>1, StandsIn
<1>3. First(Codes, i - 1) \in Seq(Nat)
  <2>1. Codes \in Seq(Seq(Nat)) /\ i - 1 \in 0..Len(Codes)
    BY CodesFacts
  <2> QED BY <2>1, FirstFacts
<1>4. y \in Seq(Nat)
  BY EncodedFacts, TimesFacts
<1> HIDE DEF y
<1> QED BY <1>2, <1>3, <1>4, PatternIn DEF y

\* The scan looks for a pattern of the bytes in either order.
LEMMA FoundInEitherOrder ==
  ASSUME code \in Seq(Memory!Insns), NEW insn \in Memory!Insns, NEW n \in Nat \ {0},
         Memory!Stands(insn, n)
  PROVE  Memory!InEitherOrder(Memory!Region, insn, n)
<1>1. Memory!HasPattern(Memory!Region, Memory!Repeated(Memory!Encoded(insn), n))
  BY PatternStands
<1>2. Memory!Encoded(insn) = Memory!Bytes[insn] \/ Memory!Encoded(insn) = Memory!Reverse(Memory!Bytes[insn])
  BY EncodedFacts
<1> QED BY <1>1, <1>2 DEF Memory!InEitherOrder

\* The instructions of x86 have their bytes in one order.
LEMMA FoundX86 ==
  ASSUME code \in Seq(Memory!Insns), NEW insn \in Memory!X86, Memory!Stands(insn, 1)
  PROVE  Memory!HasPattern(Memory!Region, Memory!Bytes[insn])
<1>0. insn \in Memory!Insns /\ 1 \in Nat \ {0}
  BY DEF Memory!Insns, Memory!Bytes, Memory!X86
<1>1. Memory!HasPattern(Memory!Region, Memory!Repeated(Memory!Encoded(insn), 1))
  BY <1>0, PatternStands
<1>2. Memory!Encoded(insn) = Memory!Bytes[insn] /\ Memory!Bytes[insn] \in Seq(Nat)
  BY <1>0, EncodedFacts, BytesFacts
<1>3. Memory!Repeated(Memory!Bytes[insn], 1) = Memory!Bytes[insn]
  BY <1>2, OnceIsItself
<1> QED BY <1>1, <1>2, <1>3

SameAt(q, l, x) ==
  q \in Nat /\ l \in Nat /\ q + l <= Len(Memory!Region) /\ \A j \in 1..l : Memory!Region[q + j] = x

\* An instruction whose bytes are all the same: they are in the region, one after the other.
LEMMA SameBytes ==
  ASSUME code \in Seq(Memory!Insns), NEW insn \in Memory!Insns, NEW n \in Nat \ {0}, NEW x,
         NEW i \in 1..(Len(code) - n + 1), \A j \in i..(i + n - 1) : code[j] = insn,
         \A j \in 1..Len(Memory!Encoded(insn)) : Memory!Encoded(insn)[j] = x
  PROVE  SameAt(Len(First(Codes, i - 1)), n * Len(Memory!Encoded(insn)), x)
<1> DEFINE p == Memory!Encoded(insn)
           y == Memory!Repeated(p, n)
           a == First(Codes, i - 1)
           r == Memory!Region
<1>1. PICK rest \in Seq(Nat) : r = (a \o y) \o rest
  BY StandsIn
<1>2. a \in Seq(Nat)
  <2>1. Codes \in Seq(Seq(Nat)) /\ i - 1 \in 0..Len(Codes)
    BY CodesFacts
  <2> QED BY <2>1, FirstFacts
<1>3. y \in Seq(Nat) /\ p \in Seq(Nat)
  BY EncodedFacts, TimesFacts
<1>4. \A j \in 1..Len(p) : p[j] = x
  OBVIOUS
<1> HIDE DEF p, a, r
<1>5. Len(y) = n * Len(p) /\ \A j \in 1..(n * Len(p)) : y[j] = x
  BY <1>3, <1>4, RepeatedConstant
<1> HIDE DEF y
<1>6. Len(r) = Len(a) + Len(y) + Len(rest) /\ \A j \in 1..Len(y) : r[Len(a) + j] = y[j]
  BY <1>1, <1>2, <1>3, PatternIn
<1>7. Len(a) \in Nat /\ Len(y) \in Nat /\ Len(rest) \in Nat
  BY <1>2, <1>3
<1>8. /\ Len(a) + n * Len(p) <= Len(r) /\ n * Len(p) \in Nat
      /\ \A j \in 1..(n * Len(p)) : r[Len(a) + j] = x
  BY <1>5, <1>6, <1>7
<1> QED BY <1>7, <1>8 DEF SameAt, a, p, r

\* A sled of one-byte instructions is a run of that byte.
LEMMA NopsRun ==
  ASSUME code \in Seq(Memory!Insns), NEW n \in Nat \ {0}, Memory!Stands("nop", n)
  PROVE  Memory!NopRun(Memory!Region) >= n
<1>0. "nop" \in Memory!Insns /\ Memory!Encoded("nop") = <<144>>
  BY DEF Memory!Insns, Memory!Bytes, Memory!Encoded, Memory!X86
<1>1. PICK i \in 1..(Len(code) - n + 1) : \A j \in i..(i + n - 1) : code[j] = "nop"
  BY DEF Memory!Stands
<1> DEFINE q == Len(First(Codes, i - 1))
           s == Memory!Region
<1>2. /\ Len(Memory!Encoded("nop")) = 1
      /\ \A j \in 1..Len(Memory!Encoded("nop")) : Memory!Encoded("nop")[j] = 144
  BY <1>0
<1>3. q \in Nat /\ q + n <= Len(s) /\ \A j \in 1..n : s[q + j] = 144
  <2> DEFINE e == Memory!Encoded("nop")
  <2>1. /\ Len(First(Codes, i - 1)) \in Nat
        /\ Len(First(Codes, i - 1)) + n * Len(e) <= Len(Memory!Region)
        /\ \A j \in 1..(n * Len(e)) : Memory!Region[Len(First(Codes, i - 1)) + j] = 144
    <3>1. SameAt(Len(First(Codes, i - 1)), n * Len(e), 144)
      BY <1>0, <1>1, <1>2, SameBytes
    <3> HIDE DEF e
    <3> QED BY <3>1 DEF SameAt
  <2>2. n * 1 = n /\ Len(e) = 1
    BY <1>2
  <2> HIDE DEF e
  <2>3. n * Len(e) = n
    BY ONLY <2>2
  <2> QED BY <2>1, <2>3
<1>4. s \in Seq(Nat) /\ Len(s) \in Nat
  BY RegionIs
<1> HIDE DEF q, s
<1>5. q \in 0..(Len(s) - n)
  BY <1>3, <1>4
<1>6. RunAt(s, 144, q, n)
  <2> SUFFICES ASSUME NEW j \in (q + 1)..(q + n) PROVE s[j] = 144
    BY DEF RunAt
  <2>1. j - q \in 1..n /\ q + (j - q) = j
    BY <1>3
  <2> QED BY <1>3, <2>1, SMTT(30)
<1>7. Memory!LongestRun(s, 144) >= n
  BY <1>4, <1>5, <1>6, LongestRunFacts
<1> QED BY <1>7 DEF Memory!NopRun, s

\* Where an instruction stands in the region.
LEMMA OffsetIs ==
  ASSUME code \in Seq(Memory!Insns), NEW i \in 1..Len(code)
  PROVE  Memory!Offset(i) = Len(First(Codes, i - 1))
<1> DEFINE tt == [j \in 1..(i - 1) |-> Memory!Bytes[code[j]]]
           ss == Codes
           k == i - 1
<1>1. /\ ss \in Seq(Seq(Nat)) /\ Len(ss) = Len(code) /\ k \in Nat /\ k <= Len(ss) /\ k \in 0..k
      /\ Len(code) \in Nat
  BY CodesFacts
<1>2. /\ tt \in Seq(Seq(Nat)) /\ Len(tt) = k /\ \A j \in 1..k : tt[j] = Memory!Bytes[code[j]]
      /\ \A j \in 1..k : ss[j] = Memory!Encoded(code[j]) /\ code[j] \in Memory!Insns
  <2>1. \A j \in 1..(i - 1) : j \in 1..Len(code)
    OBVIOUS
  <2>2. \A j \in 1..(i - 1) : code[j] \in Memory!Insns /\ ss[j] = Memory!Encoded(code[j])
    BY <2>1, CodesFacts
  <2>3. \A j \in 1..(i - 1) : Memory!Bytes[code[j]] \in Seq(Nat)
    BY <2>2, BytesFacts
  <2> QED BY <1>1, <2>2, <2>3
<1> HIDE DEF tt, ss, k
<1>3. \A j \in 1..k : Len(ss[j]) = Len(tt[j])
  BY <1>2, EncodedFacts
<1>4. Len(First(ss, k)) = Len(First(tt, k))
  BY <1>1, <1>2, <1>3, FirstLengths
<1>5. Len(First(tt, k)) = Len(Memory!FlattenSeq(tt))
  <2>1. CASE k = 0
    <3>1. Memory!FlattenSeq(tt) = tt
      BY <1>2, <2>1, FlattenIs
    <3>2. First(tt, k) = <<>> /\ Len(<<>>) = 0
      BY <2>1 DEF First
    <3> QED BY <1>2, <2>1, <3>1, <3>2
  <2>2. CASE k # 0
    <3>1. Memory!FlattenSeq(tt) = Flat(tt)[k]
      BY <1>2, <2>2, FlattenIs
    <3> QED BY <2>2, <3>1 DEF First
  <2> QED BY <2>1, <2>2
<1> QED BY <1>4, <1>5 DEF Memory!Offset, tt, ss, k

LEMMA WordsFacts ==
  ASSUME NEW t \in Seq(Nat)
  PROVE  /\ Memory!Words(t) \in Seq(Seq(Nat)) /\ Len(Memory!Words(t)) = Len(t) \div 4
         /\ \A k \in 1..(Len(t) \div 4) : Memory!Words(t)[k] = SubSeq(t, 4 * k - 3, 4 * k)
<1>1. Len(t) \in Nat /\ Len(t) \div 4 \in Nat /\ 4 * (Len(t) \div 4) <= Len(t)
  OBVIOUS
<1>2. \A k \in 1..(Len(t) \div 4) : SubSeq(t, 4 * k - 3, 4 * k) \in Seq(Nat)
  OBVIOUS
<1>3. Memory!Words(t) = [k \in 1..(Len(t) \div 4) |-> SubSeq(t, 4 * k - 3, 4 * k)]
  BY DEF Memory!Words
<1> QED BY <1>1, <1>2, <1>3

\* A sled of no-operations of MIPS is a run of zero words, when it begins with a word.
LEMMA ZerosRun ==
  ASSUME code \in Seq(Memory!Insns), NEW n \in Nat \ {0}, Memory!Stands("mips_nop", n)
  PROVE  Memory!ZeroRun(Memory!Region) >= n
<1> DEFINE e == Memory!Encoded("mips_nop")
           s == Memory!Region
           words == Memory!Words(s)
           zero == <<0, 0, 0, 0>>
<1>0. /\ "mips_nop" \in Memory!Insns /\ e \in Seq(Nat) /\ Len(e) = 4
      /\ \A j \in 1..4 : e[j] = 0
  <2>1. "mips_nop" \in Memory!Insns /\ Memory!Bytes["mips_nop"] = zero
    BY DEF Memory!Insns, Memory!Bytes
  <2>2. Memory!Reverse(zero) = [j \in 1..4 |-> zero[(4 - j) + 1]]
    BY DEF Memory!Reverse
  <2>3. e = zero \/ e = [j \in 1..4 |-> zero[(4 - j) + 1]]
    BY <2>1, <2>2 DEF Memory!Encoded
  <2>4. \A j \in 1..4 : zero[j] = 0 /\ zero[(4 - j) + 1] = 0
    OBVIOUS
  <2>5. e \in Seq(Nat) /\ Len(e) = 4
    BY <2>1, EncodedFacts
  <2> HIDE DEF e
  <2>6. CASE e = zero
    BY <2>1, <2>4, <2>5, <2>6
  <2>7. CASE e = [j \in 1..4 |-> zero[(4 - j) + 1]]
    <3>1. \A j \in 1..4 : e[j] = zero[(4 - j) + 1]
      BY <2>7
    <3> QED BY <2>1, <2>4, <2>5, <3>1
  <2> QED BY <2>3, <2>6, <2>7 DEF e
<1>1. PICK i \in 1..(Len(code) - n + 1) :
        (\A j \in i..(i + n - 1) : code[j] = "mips_nop") /\ Memory!Offset(i) % 4 = 0
  BY DEF Memory!Stands
<1> DEFINE a == Len(First(Codes, i - 1))
           q == a \div 4
<1>2. a \in Nat /\ a + n * Len(e) <= Len(s) /\ \A j \in 1..(n * Len(e)) : s[a + j] = 0
  <2>1. \A j \in i..(i + n - 1) : code[j] = "mips_nop"
    BY <1>1
  <2>2. \A j \in 1..Len(e) : e[j] = 0
    BY <1>0
  <2>3. SameAt(a, n * Len(e), 0)
    BY <1>0, <2>1, <2>2, SameBytes
  <2> HIDE DEF a, s, e
  <2> QED BY <2>3 DEF SameAt, s
<1>3. a % 4 = 0
  <2>1. i \in 1..Len(code)
    BY <1>1
  <2> QED BY <1>1, <2>1, OffsetIs
<1>4. s \in Seq(Nat) /\ Len(s) \in Nat
  BY RegionIs
<1>5. words \in Seq(Seq(Nat)) /\ Len(words) = Len(s) \div 4
      /\ \A k \in 1..(Len(s) \div 4) : words[k] = SubSeq(s, 4 * k - 3, 4 * k)
  BY <1>4, WordsFacts
<1> HIDE DEF e, a, s, words
<1>6. q \in Nat /\ a = 4 * q
  BY <1>2, <1>3
<1>7. /\ 4 * q + 4 * n <= Len(s)
      /\ \A j \in 1..(4 * n) : s[4 * q + j] = 0
  <2>1. n * Len(e) = 4 * n
    BY <1>0
  <2> HIDE DEF q
  <2> QED BY <1>2, <1>6, <2>1
<1> HIDE DEF q, zero
<1>8. q \in 0..(Len(words) - n)
  BY <1>4, <1>5, <1>6, <1>7
<1>9. RunAt(words, zero, q, n)
  <2> SUFFICES ASSUME NEW k \in (q + 1)..(q + n) PROVE words[k] = zero
    BY DEF RunAt
  <2>1. k \in 1..(Len(s) \div 4) /\ k \in Nat /\ 1 <= 4 * k - 3 /\ 4 * k <= Len(s)
    BY <1>4, <1>6, <1>7
  <2>2. words[k] = SubSeq(s, 4 * k - 3, 4 * k)
    BY <1>5, <2>1
  <2>3. \A j \in 1..4 : s[(4 * k - 3) + (j - 1)] = 0
    <3> SUFFICES ASSUME NEW j \in 1..4 PROVE s[(4 * k - 3) + (j - 1)] = 0
      OBVIOUS
    <3> DEFINE d == ((4 * k - 3) + (j - 1)) - 4 * q
    <3>1. d \in 1..(4 * n) /\ 4 * q + d = (4 * k - 3) + (j - 1)
      BY <1>6
    <3> HIDE DEF d
    <3> QED BY <1>7, <3>1
  <2> DEFINE w == SubSeq(s, 4 * k - 3, 4 * k)
  <2>4. w = [j \in 1..4 |-> s[(4 * k - 3) + (j - 1)]]
    <3>1. w = [j \in 1..((4 * k - (4 * k - 3)) + 1) |-> s[((4 * k - 3) + j) - 1]]
      OBVIOUS
    <3>2. (4 * k - (4 * k - 3)) + 1 = 4
      BY <2>1
    <3>3. \A j \in 1..4 : ((4 * k - 3) + j) - 1 = (4 * k - 3) + (j - 1)
      BY <2>1
    <3> HIDE DEF w
    <3> QED BY <3>1, <3>2, <3>3
  <2> HIDE DEF w
  <2>5. w = [j \in 1..4 |-> 0]
    BY <2>3, <2>4
  <2>6. zero = [j \in 1..4 |-> 0]
    BY DEF zero
  <2> QED BY <2>2, <2>5, <2>6 DEF w
<1>10. Memory!LongestRun(words, zero) >= n
  BY <1>5, <1>8, <1>9, LongestRunFacts
<1> QED BY <1>10 DEF Memory!ZeroRun, words, s, zero

\* A word of the region is four bytes of it.
LEMMA WordAt ==
  ASSUME NEW s \in Seq(Nat), NEW q \in Nat, 4 * q + 4 <= Len(s)
  PROVE  /\ q + 1 \in DOMAIN Memory!Words(s)
         /\ \A j \in 1..4 : Memory!Words(s)[q + 1][j] = s[4 * q + j]
<1>1. q + 1 \in 1..(Len(s) \div 4) /\ 4 * (q + 1) - 3 = 4 * q + 1 /\ 4 * (q + 1) = 4 * q + 4
  OBVIOUS
<1>2. Memory!Words(s)[q + 1] = SubSeq(s, 4 * (q + 1) - 3, 4 * (q + 1))
  BY <1>1, WordsFacts
<1>3. DOMAIN Memory!Words(s) = 1..(Len(s) \div 4)
  BY DEF Memory!Words
<1>4. \A j \in 1..4 : SubSeq(s, 4 * q + 1, 4 * q + 4)[j] = s[4 * q + j]
  <2> SUFFICES ASSUME NEW j \in 1..4 PROVE SubSeq(s, 4 * q + 1, 4 * q + 4)[j] = s[4 * q + j]
    OBVIOUS
  <2>1. 4 * q + 1 \in 1..Len(s) /\ 4 * q + 4 \in 1..Len(s) /\ j \in 1..(((4 * q + 4) - (4 * q + 1)) + 1)
    OBVIOUS
  <2>2. ((4 * q + 1) + j) - 1 = 4 * q + j
    OBVIOUS
  <2> QED BY <2>1, <2>2
<1> QED BY <1>1, <1>2, <1>3, <1>4

\* An instruction that begins with a word is that word, or has its bytes the other way round.
LEMMA SyscallSeen ==
  ASSUME code \in Seq(Memory!Insns), Memory!Stands("mips_syscall", 1)
  PROVE  \E k \in DOMAIN Memory!Words(Memory!Region) : Memory!IsSyscall(Memory!Words(Memory!Region)[k])
<1> DEFINE e == Memory!Encoded("mips_syscall")
           s == Memory!Region
           call == <<12, 0, 0, 0>>
<1>0. "mips_syscall" \in Memory!Insns /\ 1 \in Nat \ {0} /\ e \in Seq(Nat) /\ Len(e) = 4
  <2>1. "mips_syscall" \in Memory!Insns /\ Memory!Bytes["mips_syscall"] = call
    BY DEF Memory!Insns, Memory!Bytes
  <2>2. Len(call) = 4
    OBVIOUS
  <2>3. Memory!Encoded("mips_syscall") \in Seq(Nat) /\ Len(Memory!Encoded("mips_syscall")) = Len(Memory!Bytes["mips_syscall"])
    BY <2>1, EncodedFacts
  <2> HIDE DEF call
  <2> QED BY <2>1, <2>2, <2>3
<1>1. e[1] = 12 \/ e[4] = 12
  <2>1. Memory!Reverse(call) = [j \in 1..4 |-> call[(4 - j) + 1]]
    BY DEF Memory!Reverse
  <2>2. Memory!Encoded("mips_syscall") = call \/ Memory!Encoded("mips_syscall") = [j \in 1..4 |-> call[(4 - j) + 1]]
    BY <2>1 DEF Memory!Encoded, Memory!Bytes
  <2> QED BY <2>2
<1>2. PICK i \in 1..((Len(code) - 1) + 1) :
        (\A j \in i..((i + 1) - 1) : code[j] = "mips_syscall") /\ Memory!Offset(i) % 4 = 0
  BY DEF Memory!Stands
<1> DEFINE a == First(Codes, i - 1)
           q == Len(a) \div 4
<1>3. PICK rest \in Seq(Nat) : s = (a \o Memory!Repeated(e, 1)) \o rest
  <2> DEFINE insn == "mips_syscall"
             n == 1
  <2>1. /\ insn \in Memory!Insns /\ n \in Nat \ {0} /\ i \in 1..(Len(code) - n + 1)
        /\ \A j \in i..(i + n - 1) : code[j] = insn
    BY <1>0, <1>2
  <2> HIDE DEF insn, n
  <2>2. \E rest \in Seq(Nat) :
          /\ Memory!Region = (First(Codes, i - 1) \o Memory!Repeated(Memory!Encoded(insn), n)) \o rest
          /\ i + n <= Len(code) => Len(rest) >= 1
    BY <2>1, StandsIn
  <2> QED BY <1>2, <2>2 DEF insn, n
<1>4. Memory!Repeated(e, 1) = e
  BY <1>0, OnceIsItself
<1>5. a \in Seq(Nat) /\ Len(a) % 4 = 0
  <2>1. Codes \in Seq(Seq(Nat)) /\ i - 1 \in 0..Len(Codes) /\ i \in 1..Len(code)
    BY <1>2, CodesFacts
  <2>2. Len(a) % 4 = 0
    BY <1>2, <2>1, OffsetIs
  <2> QED BY <2>1, <2>2, FirstFacts
<1>6. s \in Seq(Nat)
  BY RegionIs
<1> HIDE DEF e, s, a, call
<1>7. Len(s) = Len(a) + Len(e) + Len(rest) /\ \A j \in 1..Len(e) : s[Len(a) + j] = e[j]
  <2>1. s = (a \o e) \o rest
    BY <1>3, <1>4
  <2> QED BY <1>0, <1>5, <2>1, PatternIn, ZenonT(60)
<1>8. /\ q \in Nat /\ 4 * q = Len(a) /\ 4 * q + 4 <= Len(s)
      /\ s[4 * q + 1] = e[1] /\ s[4 * q + 4] = e[4]
  <2>1. Len(a) \in Nat /\ Len(rest) \in Nat /\ 1 \in 1..4 /\ 4 \in 1..4
    BY <1>3, <1>5
  <2>2. q \in Nat /\ 4 * q = Len(a)
    BY <1>5, <2>1
  <2>3. s[Len(a) + 1] = e[1] /\ s[Len(a) + 4] = e[4]
    BY <1>0, <1>7, <2>1
  <2> HIDE DEF q
  <2>4. Len(s) = Len(a) + 4 + Len(rest)
    BY <1>0, <1>7
  <2>5. 4 * q + 4 <= Len(s)
    BY <2>1, <2>2, <2>4
  <2>6. s[4 * q + 1] = e[1] /\ s[4 * q + 4] = e[4]
    BY <2>2, <2>3
  <2> QED BY <2>2, <2>5, <2>6
<1> HIDE DEF q
<1>9. /\ q + 1 \in DOMAIN Memory!Words(s)
      /\ Memory!Words(s)[q + 1][1] = s[4 * q + 1] /\ Memory!Words(s)[q + 1][4] = s[4 * q + 4]
  BY <1>6, <1>8, WordAt
<1>10. Memory!IsSyscall(Memory!Words(s)[q + 1])
  <2>1. 12 % 64 = 12
    OBVIOUS
  <2> QED BY <1>1, <1>8, <1>9, <2>1 DEF Memory!IsSyscall
<1> QED BY <1>9, <1>10 DEF s

\* The opcode of a Thumb svc that is not the last instruction is not the last byte.
LEMMA SvcSeen ==
  ASSUME code \in Seq(Memory!Insns), NEW i \in 1..(Len(code) - 1), code[i] = "thumb_svc"
  PROVE  \E k \in 1..(Len(Memory!Region) - 1) : Memory!Region[k] = 223
<1> DEFINE e == Memory!Encoded("thumb_svc")
           s == Memory!Region
           svc == <<5, 223>>
           a == First(Codes, i - 1)
<1>0. "thumb_svc" \in Memory!Insns /\ 1 \in Nat \ {0} /\ e \in Seq(Nat) /\ Len(e) = 2
  <2>1. "thumb_svc" \in Memory!Insns /\ Memory!Bytes["thumb_svc"] = svc
    BY DEF Memory!Insns, Memory!Bytes
  <2>2. Len(svc) = 2
    OBVIOUS
  <2>3. Memory!Encoded("thumb_svc") \in Seq(Nat) /\ Len(Memory!Encoded("thumb_svc")) = Len(Memory!Bytes["thumb_svc"])
    BY <2>1, EncodedFacts
  <2> HIDE DEF svc
  <2> QED BY <2>1, <2>2, <2>3
<1>1. e[1] = 223 \/ e[2] = 223
  <2>1. Memory!Reverse(svc) = [j \in 1..2 |-> svc[(2 - j) + 1]]
    BY DEF Memory!Reverse
  <2>2. Memory!Encoded("thumb_svc") = svc \/ Memory!Encoded("thumb_svc") = [j \in 1..2 |-> svc[(2 - j) + 1]]
    BY <2>1 DEF Memory!Encoded, Memory!Bytes
  <2> QED BY <2>2
<1>2. /\ i \in 1..((Len(code) - 1) + 1) /\ i + 1 <= Len(code) /\ i \in 1..Len(code)
      /\ \A j \in i..((i + 1) - 1) : code[j] = "thumb_svc"
  OBVIOUS
<1>3. PICK rest \in Seq(Nat) : s = (a \o Memory!Repeated(e, 1)) \o rest /\ Len(rest) >= 1
  <2> DEFINE insn == "thumb_svc"
             n == 1
  <2>1. /\ insn \in Memory!Insns /\ n \in Nat \ {0} /\ i \in 1..(Len(code) - n + 1)
        /\ \A j \in i..(i + n - 1) : code[j] = insn
    BY <1>0, <1>2
  <2> HIDE DEF insn, n
  <2>2. \E rest \in Seq(Nat) :
          /\ Memory!Region = (First(Codes, i - 1) \o Memory!Repeated(Memory!Encoded(insn), n)) \o rest
          /\ i + n <= Len(code) => Len(rest) >= 1
    BY <2>1, StandsIn
  <2> QED BY <1>2, <2>2 DEF insn, n
<1>4. Memory!Repeated(e, 1) = e
  BY <1>0, OnceIsItself
<1>5. a \in Seq(Nat)
  <2>1. Codes \in Seq(Seq(Nat)) /\ i - 1 \in 0..Len(Codes)
    BY <1>2, CodesFacts
  <2> QED BY <2>1, FirstFacts
<1> HIDE DEF e, s, a, svc
<1>6. Len(s) = Len(a) + Len(e) + Len(rest) /\ \A j \in 1..Len(e) : s[Len(a) + j] = e[j]
  <2>1. s = (a \o e) \o rest
    BY <1>3, <1>4
  <2> QED BY <1>0, <1>5, <2>1, PatternIn, ZenonT(60)
<1>7. Len(a) \in Nat /\ Len(rest) \in Nat
  BY <1>3, <1>5
<1>8. /\ Len(a) + 1 \in 1..(Len(s) - 1) /\ Len(a) + 2 \in 1..(Len(s) - 1)
      /\ s[Len(a) + 1] = e[1] /\ s[Len(a) + 2] = e[2]
  BY <1>0, <1>3, <1>6, <1>7
<1> QED BY <1>1, <1>8 DEF s

\* Whatever instructions stand in a region are found when all of it is read, in either byte order
\* and wherever they stand, for every region and every length of sleds (sh_shellcode_scan).
THEOREM InstructionsAreFound == ServicesSpec => []CodeIsFound
<1>1. MemoryInv => CodeIsFound
  <2> SUFFICES ASSUME code \in Seq(Memory!Insns) PROVE CodeIsFound
    BY DEF MemoryInv
  <2> DEFINE s == Memory!Region
             found == Memory!Found(s)
  <2>1. ASSUME NEW insn \in Memory!Insns \ {"other", "thumb_svc"},
               Memory!Stands(insn, Memory!SledOf(insn))
        PROVE  insn \in found
    <3>0. 1 \in Nat \ {0} /\ insn \in Memory!Insns
      OBVIOUS
    <3>1. CASE insn \in {"syscall", "int80", "mov_rax", "binsh"}
      <4>1. Memory!SledOf(insn) = 1 /\ insn \in Memory!X86
        BY <3>1 DEF Memory!SledOf, Memory!X86
      <4>2. Memory!HasPattern(s, Memory!Bytes[insn])
        BY <2>1, <4>1, FoundX86
      <4> HIDE DEF s
      <4> QED BY <3>1, <4>2 DEF Memory!Found
    <3>2. CASE insn \in {"a64_svc", "arm_svc"}
      <4>1. Memory!SledOf(insn) = 1
        BY <3>2 DEF Memory!SledOf
      <4>2. Memory!InEitherOrder(s, insn, 1)
        BY <2>1, <3>0, <4>1, FoundInEitherOrder
      <4> HIDE DEF s
      <4> QED BY <3>2, <4>2 DEF Memory!Found
    <3>3. CASE insn \in {"a64_nop", "arm_nop"}
      <4>1. Memory!SledOf(insn) = ArmSled
        BY <3>3 DEF Memory!SledOf
      <4>2. Memory!InEitherOrder(s, insn, ArmSled)
        BY <2>1, <3>0, <4>1, FoundInEitherOrder, SledFacts
      <4> HIDE DEF s
      <4> QED BY <3>3, <4>2 DEF Memory!Found
    <3>4. CASE insn = "thumb_nop"
      <4>1. Memory!SledOf(insn) = ThumbSled
        BY <3>4 DEF Memory!SledOf
      <4>2. Memory!InEitherOrder(s, insn, ThumbSled)
        BY <2>1, <3>0, <4>1, FoundInEitherOrder, SledFacts
      <4> HIDE DEF s
      <4> QED BY <3>4, <4>2 DEF Memory!Found
    <3>5. CASE insn = "nop"
      <4>1. Memory!SledOf(insn) = ShortSled
        BY <3>5 DEF Memory!SledOf
      <4>2. Memory!NopRun(s) >= ShortSled
        BY <2>1, <3>5, <4>1, NopsRun, SledFacts
      <4> HIDE DEF s
      <4> QED BY <3>5, <4>2 DEF Memory!Found
    <3>6. CASE insn = "mips_nop"
      <4>1. Memory!SledOf(insn) = MipsSled
        BY <3>6 DEF Memory!SledOf
      <4>2. Memory!ZeroRun(s) >= MipsSled
        BY <2>1, <3>6, <4>1, ZerosRun, SledFacts
      <4> HIDE DEF s
      <4> QED BY <3>6, <4>2 DEF Memory!Found
    <3>7. CASE insn = "mips_syscall"
      <4>1. Memory!SledOf(insn) = 1
        BY <3>7 DEF Memory!SledOf
      <4>2. \E k \in DOMAIN Memory!Words(s) : Memory!IsSyscall(Memory!Words(s)[k])
        BY <2>1, <3>7, <4>1, SyscallSeen
      <4> HIDE DEF s
      <4> QED BY <3>7, <4>2 DEF Memory!Found
    <3> QED BY <2>1, <3>1, <3>2, <3>3, <3>4, <3>5, <3>6, <3>7 DEF Memory!Insns, Memory!Bytes
  <2>2. ASSUME Memory!Stands("nop", LongSled)
        PROVE  "long_nop" \in found
    <3>1. Memory!NopRun(s) >= LongSled
      BY <2>2, NopsRun, SledFacts
    <3> HIDE DEF s
    <3> QED BY <3>1 DEF Memory!Found
  <2>3. ASSUME NEW i \in 1..(Len(code) - 1), code[i] = "thumb_svc"
        PROVE  "thumb_svc" \in found
    <3>1. \E k \in 1..(Len(s) - 1) : s[k] = 223
      BY <2>3, SvcSeen
    <3> HIDE DEF s
    <3> QED BY <3>1 DEF Memory!Found
  <2> HIDE DEF found
  <2>4. /\ \A insn \in Memory!Insns \ {"other", "thumb_svc"} :
             Memory!Stands(insn, Memory!SledOf(insn)) => insn \in found
        /\ Memory!Stands("nop", LongSled) => "long_nop" \in found
        /\ \A i \in 1..(Len(code) - 1) : code[i] = "thumb_svc" => "thumb_svc" \in found
    BY <2>1, <2>2, <2>3
  <2> QED BY <2>4 DEF CodeIsFound, Memory!CodeIsFound, found
<1> QED BY <1>1, MemoryAlways, PTL

-----------------------------------------------------------------------------
(***************************************************************************)
(* The copy of an executable and the blocks of its hash                    *)
(***************************************************************************)
\* A behaviour of the services is one of the copy.
LEMMA ServicesAreCopy == ServicesSpec => Copy!Spec
<1>1. ServicesInit => Copy!Init
  BY DEF ServicesInit
<1>2. [ServicesNext]_allVars => [Copy!Next]_(Copy!evars)
  <2>1. UNCHANGED copyVars => UNCHANGED Copy!evars
    BY DEF copyVars, Copy!evars
  <2> QED BY <2>1 DEF ServicesNext, allVars
<1> QED BY <1>1, <1>2, PTL DEF ServicesSpec, Copy!Spec

LEMMA SizesAre ==
  /\ CopySize \in Nat \ {0} /\ HashSize \in Nat \ {0} /\ BlockSize \in Nat \ {0}
  /\ FieldSize \in Nat \ {0} /\ FieldSize < BlockSize /\ MaxLength \in Nat
BY ContentAssumption

\* What stands in blocks, and the states of the context of the hash.
Symbols  == {Copy!Byte(n) : n \in Nat} \cup {Copy!Number(n) : n \in Nat}
Blocks   == [Copy!Places -> Symbols]
Contexts == [data : Blocks, datalen : Copy!Places, bitlen : Nat, blocks : Seq(Blocks)]

\* The context holds the first n bytes of f: whole blocks, and the rest in data.
Absorbed(f, n, ctx) ==
  /\ ctx \in Contexts
  /\ n = BlockSize * Len(ctx.blocks) + ctx.datalen
  /\ ctx.bitlen = 8 * (BlockSize * Len(ctx.blocks))
  /\ \A b \in 1..Len(ctx.blocks) : \A i \in Copy!Places :
       ctx.blocks[b][i] = f[BlockSize * (b - 1) + (i + 1)]
  /\ \A i \in Copy!Places :
       i < ctx.datalen => ctx.data[i] = f[BlockSize * Len(ctx.blocks) + (i + 1)]

LEMMA PushTyped ==
  ASSUME NEW ctx \in Contexts, NEW x \in Symbols
  PROVE  Copy!Push(ctx, x) \in Contexts
<1> DEFINE full == [ctx.data EXCEPT ![ctx.datalen] = x]
<1>1. /\ ctx.data \in Blocks /\ ctx.datalen \in Copy!Places /\ ctx.bitlen \in Nat
      /\ ctx.blocks \in Seq(Blocks)
  BY DEF Contexts
<1>2. full \in Blocks
  BY <1>1 DEF Blocks
<1>3. BlockSize \in Nat
  BY SizesAre
<1> HIDE DEF full
<1>4. CASE ctx.datalen + 1 = BlockSize
  <2>1. Copy!Push(ctx, x) = [data |-> full, datalen |-> 0, bitlen |-> ctx.bitlen + 8 * BlockSize,
                             blocks |-> Append(ctx.blocks, full)]
    BY <1>4 DEF Copy!Push, full
  <2>2. /\ 0 \in Copy!Places /\ ctx.bitlen + 8 * BlockSize \in Nat
        /\ Append(ctx.blocks, full) \in Seq(Blocks)
    BY <1>1, <1>2, <1>3, <1>4 DEF Copy!Places
  <2> QED BY <1>2, <2>1, <2>2 DEF Contexts
<1>5. CASE ctx.datalen + 1 # BlockSize
  <2>1. Copy!Push(ctx, x) = [ctx EXCEPT !.data = full, !.datalen = ctx.datalen + 1]
    BY <1>1, <1>5 DEF Copy!Push, full
  <2>2. ctx.datalen + 1 \in Copy!Places
    BY <1>1, <1>3, <1>5 DEF Copy!Places
  <2> QED BY <1>2, <2>1, <2>2 DEF Contexts
<1> QED BY <1>4, <1>5

\* One more byte is held after sha256_update has taken it.
LEMMA PushAbsorbs ==
  ASSUME NEW f \in Seq(Symbols), NEW n \in Nat, n + 1 <= Len(f), NEW ctx, Absorbed(f, n, ctx)
  PROVE  Absorbed(f, n + 1, Copy!Push(ctx, f[n + 1]))
<1> DEFINE x == f[n + 1]
           q == Copy!Push(ctx, x)
           full == [ctx.data EXCEPT ![ctx.datalen] = x]
           bs == ctx.blocks
           l == ctx.datalen
           w == BlockSize * Len(bs)
<1>0. x \in Symbols /\ ctx \in Contexts /\ q \in Contexts
  <2>1. x \in Symbols
    OBVIOUS
  <2> QED BY <2>1, PushTyped DEF Absorbed
<1>1. /\ ctx.data \in Blocks /\ l \in Copy!Places /\ ctx.bitlen \in Nat /\ bs \in Seq(Blocks)
      /\ BlockSize \in Nat \ {0} /\ Len(bs) \in Nat /\ w \in Nat
  BY <1>0, SizesAre DEF Contexts
<1>2. /\ n = w + l /\ ctx.bitlen = 8 * w
      /\ \A b \in 1..Len(bs) : \A i \in Copy!Places : bs[b][i] = f[BlockSize * (b - 1) + (i + 1)]
      /\ \A i \in Copy!Places : i < l => ctx.data[i] = f[w + (i + 1)]
  BY DEF Absorbed
<1>3. \A i \in Copy!Places : full[i] = IF i = l THEN x ELSE ctx.data[i]
  BY <1>1 DEF Blocks
<1>4. \A i \in Copy!Places : i < l + 1 => full[i] = f[w + (i + 1)]
  <2> HIDE DEF full, w, l
  <2> SUFFICES ASSUME NEW i \in Copy!Places, i < l + 1 PROVE full[i] = f[w + (i + 1)]
    OBVIOUS
  <2>1. i \in Nat /\ l \in Nat
    BY <1>1 DEF Copy!Places
  <2>2. CASE i = l
    BY <1>1, <1>2, <1>3, <2>1, <2>2
  <2>3. CASE i # l
    BY <1>1, <1>2, <1>3, <2>1, <2>3
  <2> QED BY <2>2, <2>3
<1>5. CASE l + 1 = BlockSize
  <2>1. /\ q.data = full /\ q.datalen = 0 /\ q.bitlen = ctx.bitlen + 8 * BlockSize
        /\ q.blocks = Append(bs, full)
    <3> HIDE DEF full
    <3>1. q = [data |-> full, datalen |-> 0, bitlen |-> ctx.bitlen + 8 * BlockSize,
               blocks |-> Append(bs, full)]
      BY <1>5 DEF Copy!Push, full
    <3> HIDE DEF q
    <3> QED BY <3>1
  <2> HIDE DEF q, full, x
  <2>2. Len(q.blocks) = Len(bs) + 1 /\ BlockSize * Len(q.blocks) = w + BlockSize
    <3>1. Len(q.blocks) = Len(bs) + 1
      BY <1>1, <2>1
    <3>2. BlockSize * (Len(bs) + 1) = w + BlockSize
      BY <1>1
    <3> QED BY <3>1, <3>2
  <2> DEFINE u == BlockSize * Len(q.blocks)
  <2>3. n + 1 = u + q.datalen /\ q.bitlen = 8 * u
    <3> HIDE DEF w, u, l, bs
    <3>1. u = w + BlockSize
      BY <2>2 DEF u
    <3>2. l \in Nat
      BY <1>1 DEF Copy!Places
    <3> QED BY <1>1, <1>2, <1>5, <2>1, <3>1, <3>2
  <2>4. ASSUME NEW b \in 1..Len(q.blocks), NEW i \in Copy!Places
        PROVE  q.blocks[b][i] = f[BlockSize * (b - 1) + (i + 1)]
    <3>1. CASE b = Len(bs) + 1
      <4>1. q.blocks[b] = full /\ BlockSize * (b - 1) = w
        BY <1>1, <2>1, <3>1
      <4>2. i < l + 1
        BY <1>1, <1>5 DEF Copy!Places
      <4> HIDE DEF w
      <4> QED BY <1>4, <4>1, <4>2
    <3>2. CASE b # Len(bs) + 1
      <4>1. b \in 1..Len(bs) /\ q.blocks[b] = bs[b]
        <5>1. b \in 1..Len(bs)
          BY <1>1, <2>2, <3>2
        <5> HIDE DEF bs
        <5>2. Append(bs, full)[b] = bs[b]
          BY <1>1, <5>1
        <5> QED BY <2>1, <5>1, <5>2
      <4> QED BY <1>2, <4>1
    <3> QED BY <3>1, <3>2
  <2>5. \A i \in Copy!Places : ~(i < q.datalen)
    BY <2>1 DEF Copy!Places
  <2>6. Absorbed(f, n + 1, q)
    BY <1>0, <2>3, <2>4, <2>5 DEF Absorbed
  <2> QED BY <2>6 DEF q, x
<1>6. CASE l + 1 # BlockSize
  <2>1. /\ q.data = full /\ q.datalen = l + 1 /\ q.bitlen = ctx.bitlen /\ q.blocks = bs
    <3> HIDE DEF full
    <3>1. q = [ctx EXCEPT !.data = full, !.datalen = l + 1]
      BY <1>1, <1>6 DEF Copy!Push, full
    <3> HIDE DEF q
    <3> QED BY <1>0, <3>1 DEF Contexts
  <2> HIDE DEF q, full, x
  <2>2. n + 1 = w + q.datalen
    <3> HIDE DEF w
    <3>1. l \in Nat
      BY <1>1 DEF Copy!Places
    <3> QED BY <1>1, <1>2, <2>1, <3>1
  <2>3. Absorbed(f, n + 1, q)
    BY <1>0, <1>2, <1>4, <2>1, <2>2 DEF Absorbed
  <2> QED BY <2>3 DEF q, x
<1> QED BY <1>5, <1>6

\* The contexts after the beginnings of s.
IsPushes(g, s, ctx) ==
  g = [t \in SUBSET DOMAIN s |->
         IF t = {} THEN ctx ELSE Copy!Push(g[t \ {Greatest(t)}], s[Greatest(t)])]
Pushes(s, ctx) == CHOOSE g : IsPushes(g, s, ctx)

LEMMA PushesAre ==
  ASSUME NEW s, NEW ctx
  PROVE  Copy!FoldLeft(Copy!Push, ctx, s) = Pushes(s, ctx)[DOMAIN s]
BY DEF Copy!FoldLeft, Copy!MapThenFoldSet, Copy!Max, Pushes, IsPushes, Greatest

LEMMA PushesExist ==
  ASSUME NEW s \in Seq(Symbols), NEW ctx \in Contexts
  PROVE  IsPushes(Pushes(s, ctx), s, ctx)
<1>0. DOMAIN s = 1..Len(s) /\ Len(s) \in Nat /\ \A k \in 1..Len(s) : s[k] \in Symbols
  OBVIOUS
<1> DEFINE F == [x \in (1..Len(s)) \X Contexts |-> Copy!Push(x[2], s[x[1]])]
<1>1. F \in [(1..Len(s)) \X Contexts -> Contexts]
  <2>1. ASSUME NEW x \in (1..Len(s)) \X Contexts PROVE Copy!Push(x[2], s[x[1]]) \in Contexts
    <3>1. x[1] \in 1..Len(s) /\ x[2] \in Contexts
      OBVIOUS
    <3> QED BY <1>0, <3>1, PushTyped
  <2> QED BY <2>1
<1>2. \A k \in 1..Len(s), r \in Contexts : F[<<k, r>>] = Copy!Push(r, s[k])
  OBVIOUS
<1> HIDE DEF F
<1>3. PICK g \in [SUBSET (1..Len(s)) -> Contexts] : IsFold(g, Len(s), ctx, F)
  BY <1>0, <1>1, FoldExists
<1>4. ASSUME NEW t \in SUBSET (1..Len(s))
      PROVE  g[t] = IF t = {} THEN ctx ELSE Copy!Push(g[t \ {Greatest(t)}], s[Greatest(t)])
  <2>1. g[t] = IF t = {} THEN ctx ELSE F[<<Greatest(t), g[t \ {Greatest(t)}]>>]
    BY <1>3 DEF IsFold
  <2>2. t \ {Greatest(t)} \in SUBSET (1..Len(s))
    OBVIOUS
  <2>3. g[t \ {Greatest(t)}] \in Contexts
    BY <1>3, <2>2
  <2>4. t # {} => Greatest(t) \in 1..Len(s)
    BY <1>0, GreatestIn
  <2> QED BY <1>2, <2>1, <2>3, <2>4
<1>5. IsPushes(g, s, ctx)
  <2>1. g = [t \in SUBSET DOMAIN s |-> g[t]]
    BY <1>0, <1>3
  <2> QED BY <1>0, <1>4, <2>1 DEF IsPushes
<1> QED BY <1>5 DEF Pushes

\* A buffer is held after sha256_update has taken its bytes.
LEMMA FoldAbsorbs ==
  ASSUME NEW f \in Seq(Symbols), NEW a \in Nat, NEW n \in Nat, a + n <= Len(f),
         NEW ctx, Absorbed(f, a, ctx)
  PROVE  Absorbed(f, a + n, Copy!FoldLeft(Copy!Push, ctx, SubSeq(f, a + 1, a + n)))
<1> DEFINE s == SubSeq(f, a + 1, a + n)
           g == Pushes(s, ctx)
           Q(k) == Absorbed(f, a + k, g[1..k])
           N == {k \in Nat : k <= n => Q(k)}
<1>1. /\ s \in Seq(Symbols) /\ Len(s) = n /\ DOMAIN s = 1..n
      /\ \A k \in 1..n : s[k] = f[a + k]
  BY SMTT(30)
<1> HIDE DEF s
<1>2. IsPushes(g, s, ctx)
  <2>1. ctx \in Contexts
    BY DEF Absorbed
  <2> QED BY <1>1, <2>1, PushesExist
<1> HIDE DEF g
<1>3. \A t \in SUBSET (1..n) :
        g[t] = IF t = {} THEN ctx ELSE Copy!Push(g[t \ {Greatest(t)}], s[Greatest(t)])
  BY <1>1, <1>2 DEF IsPushes
<1>4. 0 \in N
  <2>1. 1..0 = {} /\ {} \in SUBSET (1..n) /\ a + 0 = a
    OBVIOUS
  <2>2. g[1..0] = ctx
    BY <1>3, <2>1
  <2> QED BY <2>1, <2>2
<1>5. ASSUME NEW k \in Nat, k \in N
      PROVE  k + 1 \in N
  <2> HIDE DEF Q
  <2> SUFFICES ASSUME k + 1 <= n PROVE Q(k + 1)
    OBVIOUS
  <2>1. Q(k) /\ k + 1 \in 1..n /\ (k + 1) - 1 = k
    BY <1>5
  <2>2. g[1..(k + 1)] = Copy!Push(g[1..k], s[k + 1])
    BY <1>3, <2>1, BeginningStep
  <2>3. s[k + 1] = f[(a + k) + 1] /\ (a + k) + 1 <= Len(f) /\ a + k \in Nat /\ a + (k + 1) = (a + k) + 1
    BY <1>1, <2>1
  <2>4. Absorbed(f, a + k, g[1..k])
    BY <2>1 DEF Q
  <2>5. Absorbed(f, (a + k) + 1, Copy!Push(g[1..k], f[(a + k) + 1]))
    BY <2>3, <2>4, PushAbsorbs
  <2> QED BY <2>2, <2>3, <2>5 DEF Q
<1>6. Nat \subseteq N
  <2> HIDE DEF N
  <2> QED BY <1>4, <1>5, NatInductionSet
<1>7. Q(n)
  <2> HIDE DEF Q
  <2> QED BY <1>6
<1> QED BY <1>1, <1>7, PushesAre DEF s, g

\* The bytes of the beginnings of some blocks.
Row(block) == [i \in 1..BlockSize |-> block[i - 1]]
IsRows(g, bs) ==
  g = [t \in SUBSET DOMAIN bs |->
         IF t = {} THEN <<>> ELSE g[t \ {Greatest(t)}] \o Row(bs[Greatest(t)])]
Rows(bs) == CHOOSE g : IsRows(g, bs)

LEMMA JoinedIs ==
  ASSUME NEW bs
  PROVE  Copy!Joined(bs) = Rows(bs)[DOMAIN bs]
BY DEF Copy!Joined, Copy!FoldLeft, Copy!MapThenFoldSet, Copy!Max, Rows, IsRows, Row, Greatest

LEMMA RowFacts ==
  ASSUME NEW S, NEW block \in [Copy!Places -> S]
  PROVE  /\ Row(block) \in Seq(S) /\ Len(Row(block)) = BlockSize
         /\ \A i \in Copy!Places : Row(block)[i + 1] = block[i]
<1>1. BlockSize \in Nat
  BY SizesAre
<1>2. \A i \in 1..BlockSize : i - 1 \in Copy!Places /\ block[i - 1] \in S
  BY <1>1 DEF Copy!Places
<1>3. \A i \in Copy!Places : i + 1 \in 1..BlockSize /\ (i + 1) - 1 = i
  BY <1>1 DEF Copy!Places
<1> QED BY <1>1, <1>2, <1>3 DEF Row

LEMMA RowsExist ==
  ASSUME NEW S, NEW bs \in Seq([Copy!Places -> S])
  PROVE  IsRows(Rows(bs), bs)
<1>0. /\ DOMAIN bs = 1..Len(bs) /\ Len(bs) \in Nat
      /\ \A k \in 1..Len(bs) : bs[k] \in [Copy!Places -> S]
  OBVIOUS
<1> DEFINE F == [x \in (1..Len(bs)) \X Seq(S) |-> x[2] \o Row(bs[x[1]])]
<1>1. F \in [(1..Len(bs)) \X Seq(S) -> Seq(S)]
  <2>1. ASSUME NEW x \in (1..Len(bs)) \X Seq(S) PROVE x[2] \o Row(bs[x[1]]) \in Seq(S)
    <3>1. x[1] \in 1..Len(bs) /\ x[2] \in Seq(S)
      OBVIOUS
    <3>2. Row(bs[x[1]]) \in Seq(S)
      BY <1>0, <3>1, RowFacts
    <3> QED BY <3>1, <3>2, ConcatProperties
  <2> QED BY <2>1
<1>2. \A k \in 1..Len(bs), r \in Seq(S) : F[<<k, r>>] = r \o Row(bs[k])
  OBVIOUS
<1>3. <<>> \in Seq(S)
  OBVIOUS
<1> HIDE DEF F
<1>4. PICK g \in [SUBSET (1..Len(bs)) -> Seq(S)] : IsFold(g, Len(bs), <<>>, F)
  BY <1>0, <1>1, <1>3, FoldExists
<1>5. ASSUME NEW t \in SUBSET (1..Len(bs))
      PROVE  g[t] = IF t = {} THEN <<>> ELSE g[t \ {Greatest(t)}] \o Row(bs[Greatest(t)])
  <2>1. g[t] = IF t = {} THEN <<>> ELSE F[<<Greatest(t), g[t \ {Greatest(t)}]>>]
    BY <1>4 DEF IsFold
  <2>2. t \ {Greatest(t)} \in SUBSET (1..Len(bs))
    OBVIOUS
  <2>3. g[t \ {Greatest(t)}] \in Seq(S)
    BY <1>4, <2>2
  <2>4. t # {} => Greatest(t) \in 1..Len(bs)
    BY <1>0, GreatestIn
  <2> QED BY <1>2, <2>1, <2>3, <2>4
<1>6. IsRows(g, bs)
  <2>1. g = [t \in SUBSET DOMAIN bs |-> g[t]]
    BY <1>0, <1>4
  <2> QED BY <1>0, <1>5, <2>1 DEF IsRows
<1> QED BY <1>6 DEF Rows

\* Joined puts the blocks one after the other.
LEMMA BlocksJoined ==
  ASSUME NEW S, NEW bs \in Seq([Copy!Places -> S])
  PROVE  /\ Copy!Joined(bs) \in Seq(S) /\ Len(Copy!Joined(bs)) = BlockSize * Len(bs)
         /\ \A b \in 1..Len(bs) : \A i \in Copy!Places :
              Copy!Joined(bs)[BlockSize * (b - 1) + (i + 1)] = bs[b][i]
<1> DEFINE n == Len(bs)
           g == Rows(bs)
           Q(k) == /\ g[1..k] \in Seq(S) /\ Len(g[1..k]) = BlockSize * k
                   /\ \A b \in 1..k : \A i \in Copy!Places :
                        g[1..k][BlockSize * (b - 1) + (i + 1)] = bs[b][i]
           N == {k \in Nat : k <= n => Q(k)}
<1>1. /\ DOMAIN bs = 1..n /\ n \in Nat /\ BlockSize \in Nat \ {0}
      /\ \A k \in 1..n : bs[k] \in [Copy!Places -> S]
  BY SizesAre
<1>2. \A t \in SUBSET (1..n) :
        g[t] = IF t = {} THEN <<>> ELSE g[t \ {Greatest(t)}] \o Row(bs[Greatest(t)])
  <2>1. IsRows(g, bs)
    BY RowsExist
  <2> HIDE DEF g
  <2> QED BY <1>1, <2>1 DEF IsRows
<1> HIDE DEF g, n
<1>3. 0 \in N
  <2>1. 1..0 = {} /\ {} \in SUBSET (1..n) /\ BlockSize * 0 = 0
    BY <1>1
  <2>2. g[1..0] = <<>>
    BY <1>2, <2>1
  <2>3. <<>> \in Seq(S) /\ Len(<<>>) = 0
    OBVIOUS
  <2> QED BY <2>1, <2>2, <2>3
<1>4. ASSUME NEW k \in Nat, k \in N
      PROVE  k + 1 \in N
  <2> HIDE DEF Q
  <2> SUFFICES ASSUME k + 1 <= n PROVE Q(k + 1)
    OBVIOUS
  <2> DEFINE u == g[1..k]
             v == Row(bs[k + 1])
             w == BlockSize * k
  <2>1. Q(k) /\ k + 1 \in 1..n /\ (k + 1) - 1 = k
    BY <1>1, <1>4
  <2>2. g[1..(k + 1)] = u \o v
    BY <1>1, <1>2, <2>1, BeginningStep, ZenonT(60)
  <2>3. /\ u \in Seq(S) /\ Len(u) = w
        /\ \A b \in 1..k : \A i \in Copy!Places : u[BlockSize * (b - 1) + (i + 1)] = bs[b][i]
    BY <2>1 DEF Q
  <2>4. v \in Seq(S) /\ Len(v) = BlockSize /\ \A i \in Copy!Places : v[i + 1] = bs[k + 1][i]
    BY <1>1, <2>1, RowFacts
  <2>5. w \in Nat /\ BlockSize * (k + 1) = w + BlockSize
    <3>1. BlockSize \in Nat /\ k \in Nat
      BY <1>1
    <3>2. BlockSize * k \in Nat /\ BlockSize * (k + 1) = BlockSize * k + BlockSize
      BY ONLY <3>1
    <3> QED BY <3>2
  <2>6. ASSUME NEW b \in 1..k, NEW i \in Copy!Places
        PROVE  BlockSize * (b - 1) + (i + 1) \in 1..w
    <3>1. i \in Nat /\ i + 1 <= BlockSize
      BY <1>1 DEF Copy!Places
    <3>2. BlockSize * (b - 1) \in Nat /\ BlockSize * (b - 1) + BlockSize = BlockSize * b
      BY <1>1
    <3>3. BlockSize * b <= w
      <4>1. k - b \in Nat /\ BlockSize * (k - b) \in Nat /\ BlockSize * b + BlockSize * (k - b) = BlockSize * k
        BY <1>1
      <4>2. BlockSize * b \in Nat
        BY <1>1
      <4> QED BY <4>1, <4>2
    <3> QED BY <1>1, <2>5, <3>1, <3>2, <3>3
  <2> HIDE DEF u, v, w
  <2>7. /\ u \o v \in Seq(S) /\ Len(u \o v) = w + BlockSize
        /\ \A j \in 1..(w + BlockSize) : (u \o v)[j] = IF j <= w THEN u[j] ELSE v[j - w]
    BY <2>3, <2>4, ConcatProperties
  <2>8. ASSUME NEW b \in 1..(k + 1), NEW i \in Copy!Places
        PROVE  (u \o v)[BlockSize * (b - 1) + (i + 1)] = bs[b][i]
    <3>1. CASE b = k + 1
      <4>1. BlockSize * (b - 1) = w
        BY <3>1 DEF w
      <4>2. w + (i + 1) \in 1..(w + BlockSize) /\ ~(w + (i + 1) <= w) /\ (w + (i + 1)) - w = i + 1
        BY <1>1, <2>5 DEF Copy!Places
      <4> QED BY <2>4, <2>7, <3>1, <4>1, <4>2
    <3>2. CASE b # k + 1
      <4> DEFINE j == BlockSize * (b - 1) + (i + 1)
      <4>1. b \in 1..k
        BY <3>2
      <4>2. j \in 1..w /\ u[j] = bs[b][i]
        BY <2>3, <2>6, <4>1
      <4> HIDE DEF j
      <4>3. (u \o v)[j] = u[j]
        BY <1>1, <2>5, <2>7, <4>2
      <4> QED BY <4>2, <4>3 DEF j
    <3> QED BY <3>1, <3>2
  <2> QED BY <2>2, <2>5, <2>7, <2>8 DEF Q
<1>5. Nat \subseteq N
  <2> HIDE DEF N
  <2> QED BY <1>3, <1>4, NatInductionSet
<1>6. Q(n)
  <2> HIDE DEF Q
  <2> QED BY <1>1, <1>5
<1>7. Copy!Joined(bs) = g[1..n]
  BY <1>1, JoinedIs DEF g
<1> QED BY <1>6, <1>7 DEF n

\* Division of a place in a file by the size of a block.
LEMMA PlaceInBlock ==
  ASSUME NEW n \in Nat, NEW p \in 1..(BlockSize * n)
  PROVE  \E b \in 1..n : \E i \in Copy!Places : p = BlockSize * (b - 1) + (i + 1)
<1> DEFINE B == BlockSize
           q == (p - 1) \div B
           i == (p - 1) % B
<1>1. B \in Nat \ {0} /\ p \in Nat \ {0}
  BY SizesAre
<1> HIDE DEF B
<1>2. q \in Nat /\ i \in 0..(B - 1) /\ p - 1 = B * q + i
  BY <1>1
<1> HIDE DEF q, i
<1>3. q + 1 <= n
  <2> SUFFICES ASSUME n <= q PROVE FALSE
    BY <1>2
  <2>1. q - n \in Nat /\ B * (q - n) \in Nat /\ B * q = B * n + B * (q - n)
    BY <1>1, <1>2
  <2>2. B * q \in Nat /\ B * n \in Nat /\ p <= B * n
    BY <1>1, <1>2 DEF B
  <2> QED BY <1>1, <1>2, <2>1, <2>2
<1>4. q + 1 \in 1..n /\ i \in Copy!Places /\ p = B * ((q + 1) - 1) + (i + 1)
  <2>1. (q + 1) - 1 = q /\ B * q \in Nat
    BY <1>1, <1>2
  <2> QED BY <1>1, <1>2, <1>3, <2>1 DEF Copy!Places, B
<1> QED BY <1>4 DEF B

\* There is one number of zeros below the size of a block that fills whole blocks.
LEMMA ZerosAre ==
  ASSUME NEW l \in Nat, NEW z \in Copy!Places, NEW m \in Nat,
         l + 1 + z + FieldSize = BlockSize * m
  PROVE  (CHOOSE y \in Copy!Places : (l + 1 + y + FieldSize) % BlockSize = 0) = z
<1> DEFINE B == BlockSize
<1>1. B \in Nat \ {0} /\ FieldSize \in Nat /\ z \in Nat
  BY SizesAre DEF Copy!Places
<1>2. ASSUME NEW y \in Copy!Places
      PROVE  (l + 1 + y + FieldSize) % B = 0 <=> y = z
  <2> DEFINE x == l + 1 + y + FieldSize
             q == x \div B
  <2>1. y \in 0..(B - 1) /\ z \in 0..(B - 1)
    BY DEF Copy!Places
  <2>2. x \in Nat /\ x = B * m + (y - z)
    BY <1>1, <2>1
  <2> HIDE DEF x, B
  <2>3. q \in Nat /\ x = B * q + (x % B) /\ x % B \in 0..(B - 1)
    BY <1>1, <2>2
  <2> HIDE DEF q
  <2>4. B * (q - m) = (y - z) - (x % B)
    <3>1. B * (q - m) = B * q - B * m /\ B * q \in Nat /\ B * m \in Nat
      BY <1>1, <2>3
    <3> QED BY <1>1, <2>1, <2>2, <2>3, <3>1
  <2>5. ASSUME x % B = 0
        PROVE  y = z
    <3>1. CASE q - m >= 1
      <4>1. B * (q - m) >= B
        BY <1>1, <2>3, <3>1
      <4> QED BY <1>1, <2>1, <2>4, <2>5, <4>1
    <3>2. CASE q - m <= -1
      <4>1. B * (q - m) <= -B
        <5>1. (m - q) - 1 \in Nat /\ B * ((m - q) - 1) \in Nat
          BY <1>1, <2>3, <3>2
        <5>2. B * (q - m) = -(B * ((m - q) - 1)) - B
          BY <1>1, <2>3
        <5> QED BY <1>1, <5>1, <5>2
      <4> DEFINE d == B * (q - m)
      <4>2. d <= -B /\ d = (y - z) - 0
        BY <2>4, <2>5, <4>1
      <4> HIDE DEF d
      <4> QED BY <1>1, <2>1, <4>2
    <3>3. CASE q - m = 0
      <4>1. B * (q - m) = 0
        BY <1>1, <3>3
      <4>2. (y - z) - 0 = 0
        BY <2>4, <2>5, <4>1
      <4>3. y \in Int /\ z \in Int
        BY <1>1, <2>1
      <4> QED BY ONLY <4>2, <4>3
    <3> QED BY <2>3, <3>1, <3>2, <3>3
  <2>6. ASSUME y = z
        PROVE  x % B = 0
    <3>1. x = B * m
      BY <1>1, <2>1, <2>2, <2>6
    <3>2. (B * m) % B = 0
      BY <1>1
    <3> QED BY <3>1, <3>2
  <2> QED BY <2>5, <2>6 DEF x
<1>3. (l + 1 + z + FieldSize) % B = 0
  BY <1>2
<1> HIDE DEF B
<1> QED BY <1>2, <1>3 DEF B

\* What stands in a message: the bytes of the file and those that the padding adds.
Digit(bits, e) == Copy!Number((bits \div 256 ^ e) % 256)
Written(f) == Symbols \cup {Digit(8 * Len(f), e) : e \in Int}

LEMMA TwoJoined ==
  ASSUME NEW S, NEW s1 \in Seq(S), NEW s2 \in Seq(S)
  PROVE  /\ s1 \o s2 \in Seq(S) /\ Len(s1 \o s2) = Len(s1) + Len(s2)
         /\ \A p \in 1..Len(s1) : (s1 \o s2)[p] = s1[p]
         /\ \A p \in 1..Len(s2) : (s1 \o s2)[Len(s1) + p] = s2[p]
<1>0. Len(s1) \in Nat /\ Len(s2) \in Nat
  OBVIOUS
<1>1. /\ s1 \o s2 \in Seq(S) /\ Len(s1 \o s2) = Len(s1) + Len(s2)
      /\ \A p \in 1..(Len(s1) + Len(s2)) :
           (s1 \o s2)[p] = IF p <= Len(s1) THEN s1[p] ELSE s2[p - Len(s1)]
  BY ConcatProperties
<1>2. \A p \in 1..Len(s1) : p \in 1..(Len(s1) + Len(s2)) /\ p <= Len(s1)
  BY <1>0
<1>3. \A p \in 1..Len(s2) : /\ Len(s1) + p \in 1..(Len(s1) + Len(s2)) /\ ~(Len(s1) + p <= Len(s1))
                            /\ (Len(s1) + p) - Len(s1) = p
  BY <1>0
<1>4. ASSUME NEW p \in 1..Len(s1) PROVE (s1 \o s2)[p] = s1[p]
  BY <1>1, <1>2
<1>5. ASSUME NEW p \in 1..Len(s2) PROVE (s1 \o s2)[Len(s1) + p] = s2[p]
  BY <1>1, <1>3
<1> QED BY <1>1, <1>4, <1>5

LEMMA MessageFacts ==
  ASSUME NEW f \in Seq(Symbols), NEW z \in Copy!Places, NEW m \in Nat,
         Len(f) + 1 + z + FieldSize = BlockSize * m
  PROVE  LET l == Len(f)
             s == Copy!MessageOf(f)
         IN  /\ s \in Seq(Written(f)) /\ Len(s) = BlockSize * m
             /\ \A p \in 1..l : s[p] = f[p]
             /\ s[l + 1] = Copy!Number(128)
             /\ \A p \in (l + 2)..(l + 1 + z) : s[p] = Copy!Number(0)
             /\ \A k \in 1..FieldSize : s[l + 1 + z + k] = Digit(8 * l, FieldSize - k)
<1> DEFINE l == Len(f)
           W == Written(f)
           s2 == <<Copy!Number(128)>>
           s3 == [i \in 1..z |-> Copy!Number(0)]
           s4 == [i \in 1..FieldSize |-> Digit(8 * l, FieldSize - i)]
           t2 == f \o s2
           t3 == t2 \o s3
           s == t3 \o s4
<1>0. l \in Nat /\ z \in Nat /\ FieldSize \in Nat
  BY SizesAre DEF Copy!Places
<1>1. (CHOOSE y \in Copy!Places : (l + 1 + y + FieldSize) % BlockSize = 0) = z
  BY <1>0, ZerosAre
<1>2. Copy!MessageOf(f) = s
  BY <1>1 DEF Copy!MessageOf, Digit
<1>3. /\ f \in Seq(W) /\ Copy!Number(128) \in W /\ Copy!Number(0) \in W
      /\ \A k \in 1..FieldSize : Digit(8 * l, FieldSize - k) \in W
  <2>1. Symbols \subseteq W
    BY DEF Written
  <2>2. Copy!Number(128) \in Symbols /\ Copy!Number(0) \in Symbols
    BY DEF Symbols
  <2>3. \A k \in 1..FieldSize : FieldSize - k \in Int
    BY <1>0
  <2>4. \A e \in Int : Digit(8 * l, e) \in W
    BY DEF Written
  <2> HIDE DEF W
  <2>5. f \in Seq(W)
    BY <2>1
  <2> QED BY <2>1, <2>2, <2>3, <2>4, <2>5
<1> HIDE DEF W
<1>4. /\ s2 \in Seq(W) /\ Len(s2) = 1 /\ s2[1] = Copy!Number(128)
      /\ s3 \in Seq(W) /\ Len(s3) = z /\ \A p \in 1..z : s3[p] = Copy!Number(0)
      /\ s4 \in Seq(W) /\ Len(s4) = FieldSize
      /\ \A k \in 1..FieldSize : s4[k] = Digit(8 * l, FieldSize - k)
  BY <1>0, <1>3
<1> HIDE DEF s2, s3, s4
<1>5. /\ s \in Seq(W) /\ Len(s) = l + 1 + z + FieldSize
      /\ \A p \in 1..l : s[p] = f[p]
      /\ \A p \in 1..1 : s[l + p] = s2[p]
      /\ \A p \in 1..z : s[(l + 1) + p] = s3[p]
      /\ \A p \in 1..FieldSize : s[((l + 1) + z) + p] = s4[p]
  <2>1. /\ t2 \in Seq(W) /\ Len(t2) = l + 1
        /\ \A p \in 1..l : t2[p] = f[p]
        /\ \A p \in 1..1 : t2[l + p] = s2[p]
    <3>1. f \in Seq(W) /\ s2 \in Seq(W)
      BY <1>3, <1>4
    <3>2. /\ f \o s2 \in Seq(W) /\ Len(f \o s2) = Len(f) + Len(s2)
          /\ \A p \in 1..Len(f) : (f \o s2)[p] = f[p]
          /\ \A p \in 1..Len(s2) : (f \o s2)[Len(f) + p] = s2[p]
      BY ONLY <3>1, TwoJoined
    <3>3. t2 = f \o s2
      OBVIOUS
    <3> HIDE DEF t2
    <3> QED BY <1>4, <3>2, <3>3
  <2> HIDE DEF t2, l
  <2>2. /\ t3 \in Seq(W) /\ Len(t3) = (l + 1) + z
        /\ \A p \in 1..(l + 1) : t3[p] = t2[p]
        /\ \A p \in 1..z : t3[(l + 1) + p] = s3[p]
    <3>1. t2 \in Seq(W) /\ s3 \in Seq(W)
      BY <1>3, <1>4, <2>1
    <3>2. /\ t2 \o s3 \in Seq(W) /\ Len(t2 \o s3) = Len(t2) + Len(s3)
          /\ \A p \in 1..Len(t2) : (t2 \o s3)[p] = t2[p]
          /\ \A p \in 1..Len(s3) : (t2 \o s3)[Len(t2) + p] = s3[p]
      BY ONLY <3>1, TwoJoined
    <3>3. t3 = t2 \o s3
      OBVIOUS
    <3> HIDE DEF t3
    <3> QED BY <1>4, <3>2, <3>3, <2>1
  <2> HIDE DEF t3
  <2>3. /\ s \in Seq(W) /\ Len(s) = ((l + 1) + z) + FieldSize
        /\ \A p \in 1..((l + 1) + z) : s[p] = t3[p]
        /\ \A p \in 1..FieldSize : s[((l + 1) + z) + p] = s4[p]
    <3>1. t3 \in Seq(W) /\ s4 \in Seq(W)
      BY <1>3, <1>4, <2>2
    <3>2. /\ t3 \o s4 \in Seq(W) /\ Len(t3 \o s4) = Len(t3) + Len(s4)
          /\ \A p \in 1..Len(t3) : (t3 \o s4)[p] = t3[p]
          /\ \A p \in 1..Len(s4) : (t3 \o s4)[Len(t3) + p] = s4[p]
      BY ONLY <3>1, TwoJoined
    <3>3. s = t3 \o s4
      OBVIOUS
    <3> HIDE DEF s
    <3> QED BY <1>4, <3>2, <3>3, <2>2
  <2> HIDE DEF s
  <2>4. /\ \A p \in 1..l : p \in 1..(l + 1) /\ p \in 1..((l + 1) + z)
        /\ \A p \in 1..1 : l + p \in 1..(l + 1) /\ l + p \in 1..((l + 1) + z)
        /\ \A p \in 1..z : (l + 1) + p \in 1..((l + 1) + z)
    BY <1>0
  <2>5. /\ \A p \in 1..l : s[p] = f[p]
        /\ \A p \in 1..1 : s[l + p] = s2[p]
        /\ \A p \in 1..z : s[(l + 1) + p] = s3[p]
    BY <2>1, <2>2, <2>3, <2>4
  <2> QED BY <2>3, <2>5
<1> HIDE DEF s
<1>6. s[l + 1] = Copy!Number(128)
  <2>1. 1 \in 1..1
    OBVIOUS
  <2> QED BY <1>4, <1>5, <2>1
<1>7. ASSUME NEW p \in (l + 2)..(l + 1 + z) PROVE s[p] = Copy!Number(0)
  <2> DEFINE k == p - (l + 1)
  <2>1. k \in 1..z /\ (l + 1) + k = p
    BY <1>0
  <2> HIDE DEF k, l
  <2>2. s[(l + 1) + k] = s3[k]
    BY <1>5, <2>1
  <2> QED BY <1>4, <2>1, <2>2
<1>8. ASSUME NEW k \in 1..FieldSize PROVE s[l + 1 + z + k] = Digit(8 * l, FieldSize - k)
  <2>1. s[((l + 1) + z) + k] = s4[k]
    BY <1>5
  <2> QED BY <1>4, <2>1
<1>9. Len(s) = BlockSize * m
  BY <1>0, <1>5
<1> QED BY <1>2, <1>5, <1>6, <1>7, <1>8, <1>9 DEF W

\* Blocks after blocks.
LEMMA BlocksAppended ==
  ASSUME NEW S, NEW bs \in Seq([Copy!Places -> S]), NEW x \in [Copy!Places -> S],
         NEW y \in [Copy!Places -> S]
  PROVE  /\ bs \o <<x>> \in Seq([Copy!Places -> S]) /\ Len(bs \o <<x>>) = Len(bs) + 1
         /\ \A b \in 1..Len(bs) : (bs \o <<x>>)[b] = bs[b]
         /\ (bs \o <<x>>)[Len(bs) + 1] = x
         /\ bs \o <<x, y>> \in Seq([Copy!Places -> S]) /\ Len(bs \o <<x, y>>) = Len(bs) + 2
         /\ \A b \in 1..Len(bs) : (bs \o <<x, y>>)[b] = bs[b]
         /\ (bs \o <<x, y>>)[Len(bs) + 1] = x /\ (bs \o <<x, y>>)[Len(bs) + 2] = y
<1> DEFINE T == [Copy!Places -> S]
<1>1. bs \in Seq(T) /\ <<x>> \in Seq(T) /\ <<x, y>> \in Seq(T)
  OBVIOUS
<1>2. /\ Len(<<x>>) = 1 /\ <<x>>[1] = x /\ Len(<<x, y>>) = 2 /\ <<x, y>>[1] = x /\ <<x, y>>[2] = y
      /\ 1 \in 1..1 /\ 1 \in 1..2 /\ 2 \in 1..2
  OBVIOUS
<1> DEFINE u == <<x>>
           v == <<x, y>>
<1> HIDE DEF T, u, v
<1>3. bs \in Seq(T) /\ u \in Seq(T) /\ v \in Seq(T)
  BY <1>1 DEF u, v
<1>4. /\ bs \o u \in Seq(T) /\ Len(bs \o u) = Len(bs) + Len(u)
      /\ \A p \in 1..Len(bs) : (bs \o u)[p] = bs[p]
      /\ \A p \in 1..Len(u) : (bs \o u)[Len(bs) + p] = u[p]
  BY ONLY <1>3, TwoJoined
<1>5. /\ bs \o v \in Seq(T) /\ Len(bs \o v) = Len(bs) + Len(v)
      /\ \A p \in 1..Len(bs) : (bs \o v)[p] = bs[p]
      /\ \A p \in 1..Len(v) : (bs \o v)[Len(bs) + p] = v[p]
  BY ONLY <1>3, TwoJoined
<1>6. /\ Len(u) = 1 /\ u[1] = x /\ Len(v) = 2 /\ v[1] = x /\ v[2] = y
  BY <1>2 DEF u, v
<1>7. (bs \o u)[Len(bs) + 1] = x /\ Len(bs \o u) = Len(bs) + 1
  BY <1>2, <1>4, <1>6
<1>8. (bs \o v)[Len(bs) + 1] = x /\ (bs \o v)[Len(bs) + 2] = y /\ Len(bs \o v) = Len(bs) + 2
  BY <1>2, <1>5, <1>6
<1> QED BY <1>4, <1>5, <1>7, <1>8 DEF T, u, v

\* Blocks that hold a message byte by byte are the message.
LEMMA SameMessage ==
  ASSUME NEW S, NEW bs \in Seq([Copy!Places -> S]), NEW s \in Seq(S), Len(s) = BlockSize * Len(bs),
         \A b \in 1..Len(bs) : \A i \in Copy!Places : bs[b][i] = s[BlockSize * (b - 1) + (i + 1)]
  PROVE  Copy!Joined(bs) = s
<1> DEFINE t == Copy!Joined(bs)
<1>1. /\ t \in Seq(S) /\ Len(t) = BlockSize * Len(bs)
      /\ \A b \in 1..Len(bs) : \A i \in Copy!Places : t[BlockSize * (b - 1) + (i + 1)] = bs[b][i]
  BY BlocksJoined
<1> HIDE DEF t
<1>2. ASSUME NEW p \in 1..Len(s) PROVE t[p] = s[p]
  <2>1. Len(bs) \in Nat
    OBVIOUS
  <2>2. PICK b \in 1..Len(bs) : \E i \in Copy!Places : p = BlockSize * (b - 1) + (i + 1)
    <3> DEFINE n == Len(bs)
    <3>1. n \in Nat /\ p \in 1..(BlockSize * n)
      BY <2>1
    <3> HIDE DEF n
    <3>2. \E b \in 1..n : \E i \in Copy!Places : p = BlockSize * (b - 1) + (i + 1)
      BY <3>1, PlaceInBlock
    <3> QED BY <3>2 DEF n
  <2>3. PICK i \in Copy!Places : p = BlockSize * (b - 1) + (i + 1)
    BY <2>2
  <2> QED BY <1>1, <2>3
<1>3. t = [p \in 1..Len(t) |-> t[p]] /\ s = [p \in 1..Len(s) |-> s[p]] /\ Len(t) = Len(s)
  BY <1>1
<1>4. t = s
  BY <1>2, <1>3
<1> QED BY <1>4 DEF t

\* The blocks that sha256_final leaves are the message of the standard.
LEMMA PaddingIsMessage ==
  ASSUME NEW f \in Seq(Symbols), Absorbed(f, Len(f), Copy!Context)
  PROVE  Copy!Joined(blocks \o Copy!LastBlocks) = Copy!MessageOf(f)
<1> DEFINE B == BlockSize
           F == FieldSize
           l == datalen
           n == Len(blocks)
           w == B * n
           W == Written(f)
           bits == 8 * Len(f)
           full == Copy!Padded(BlockSize)
           cut == Copy!Padded(BlockSize - FieldSize)
           none == [i \in Copy!Places |-> Copy!Number(0)]
           one == Copy!WithLength(cut, bits)
           two == Copy!WithLength(none, bits)
           s == Copy!MessageOf(f)
<1>1. /\ data \in Blocks /\ l \in 0..(B - 1) /\ bitlen = 8 * w /\ blocks \in Seq(Blocks)
      /\ Len(f) = w + l /\ n \in Nat /\ w \in Nat
      /\ \A b \in 1..n : \A i \in Copy!Places : blocks[b][i] = f[B * (b - 1) + (i + 1)]
      /\ \A i \in Copy!Places : i < l => data[i] = f[w + (i + 1)]
  <2>1. Copy!Context \in Contexts
    BY DEF Absorbed
  <2>2. /\ Copy!Context.data = data /\ Copy!Context.datalen = datalen
        /\ Copy!Context.bitlen = bitlen /\ Copy!Context.blocks = blocks
    BY DEF Copy!Context
  <2>3. data \in Blocks /\ l \in Copy!Places /\ blocks \in Seq(Blocks)
    BY <2>1, <2>2 DEF Contexts
  <2>4. n \in Nat /\ B \in Nat /\ w \in Nat
    BY <2>3, SizesAre
  <2> QED BY <2>2, <2>3, <2>4 DEF Absorbed, Copy!Places
<1>2. /\ B \in Nat \ {0} /\ F \in Nat \ {0} /\ F < B /\ l \in Nat /\ Len(f) \in Nat
      /\ B * (n + 1) = w + B /\ B * (n + 2) = w + B + B
  <2>1. B \in Nat /\ n \in Nat
    BY <1>1, SizesAre
  <2>2. B * (n + 1) = B * n + B /\ B * (n + 2) = B * n + B + B
    BY ONLY <2>1
  <2> QED BY <1>1, <2>2, SizesAre
<1>3. bitlen + 8 * datalen = bits
  <2> HIDE DEF w
  <2> QED BY <1>1
<1> HIDE DEF W
<1>4. /\ Symbols \subseteq W /\ Copy!Number(128) \in W /\ Copy!Number(0) \in W
      /\ \A e \in Int : Digit(bits, e) \in W
  BY DEF W, Written, Symbols
<1>5. ASSUME NEW i \in Copy!Places
      PROVE  /\ full[i] = IF i = l THEN Copy!Number(128) ELSE IF i > l THEN Copy!Number(0) ELSE data[i]
             /\ one[i] = IF i >= B - F THEN Digit(bits, B - 1 - i)
                         ELSE IF i = l THEN Copy!Number(128) ELSE IF i > l THEN Copy!Number(0) ELSE data[i]
             /\ two[i] = IF i >= B - F THEN Digit(bits, B - 1 - i) ELSE Copy!Number(0)
             /\ data[i] \in W /\ i \in 0..(B - 1)
  <2>1. i \in 0..(B - 1)
    BY DEF Copy!Places
  <2>2. full[i] = IF i = l THEN Copy!Number(128) ELSE IF i > l THEN Copy!Number(0) ELSE data[i]
    <3>1. full[i] = CASE i = l -> Copy!Number(128)
                      [] i > l /\ i < B -> Copy!Number(0)
                      [] OTHER -> data[i]
      BY DEF Copy!Padded
    <3>2. i \in Int /\ l \in Int /\ i < B
      BY <1>2, <2>1
    <3> HIDE DEF full
    <3> QED BY <3>1, <3>2
  <2>3. i < B - F => cut[i] = IF i = l THEN Copy!Number(128) ELSE IF i > l THEN Copy!Number(0) ELSE data[i]
    <3>1. cut[i] = CASE i = l -> Copy!Number(128)
                     [] i > l /\ i < B - F -> Copy!Number(0)
                     [] OTHER -> data[i]
      BY DEF Copy!Padded
    <3>2. i \in Int /\ l \in Int /\ B - F \in Int
      BY <1>2, <2>1
    <3> HIDE DEF cut
    <3> QED BY <3>1, <3>2
  <2>4. one[i] = IF i < B - F THEN cut[i] ELSE Digit(bits, B - 1 - i)
    <3> HIDE DEF cut, bits
    <3> QED BY DEF Copy!WithLength, Digit
  <2>5. two[i] = IF i < B - F THEN none[i] ELSE Digit(bits, B - 1 - i)
    <3> HIDE DEF none, bits
    <3> QED BY DEF Copy!WithLength, Digit
  <2>6. data[i] \in W /\ none[i] = Copy!Number(0)
    BY <1>1, <1>4 DEF Blocks
  <2> HIDE DEF full, one, two, cut, none, bits
  <2> QED BY <1>2, <2>1, <2>2, <2>3, <2>4, <2>5, <2>6
<1>6. /\ full \in [Copy!Places -> W] /\ one \in [Copy!Places -> W] /\ two \in [Copy!Places -> W]
      /\ blocks \in Seq([Copy!Places -> W])
  <2>1. /\ full = [i \in Copy!Places |-> full[i]] /\ one = [i \in Copy!Places |-> one[i]]
        /\ two = [i \in Copy!Places |-> two[i]]
    BY DEF Copy!Padded, Copy!WithLength
  <2>2. \A i \in Copy!Places : full[i] \in W /\ one[i] \in W /\ two[i] \in W
    <3> SUFFICES ASSUME NEW i \in Copy!Places PROVE full[i] \in W /\ one[i] \in W /\ two[i] \in W
      OBVIOUS
    <3>1. B - 1 - i \in Int
      BY <1>2, <1>5
    <3> HIDE DEF full, one, two, bits
    <3> QED BY <1>4, <1>5, <3>1
  <2>3. blocks \in Seq([Copy!Places -> W])
    <3>1. Blocks \subseteq [Copy!Places -> W]
      BY <1>4 DEF Blocks
    <3> QED BY <1>1, <3>1
  <2> HIDE DEF full, one, two
  <2> QED BY <2>1, <2>2, <2>3
<1>7. ASSUME NEW b \in 1..n, NEW i \in Copy!Places
      PROVE  /\ B * (b - 1) + (i + 1) \in 1..Len(f)
             /\ blocks[b][i] = f[B * (b - 1) + (i + 1)]
  <2>1. /\ B * (b - 1) \in Nat /\ B * (n - b) \in Nat
        /\ B * (b - 1) + B + B * (n - b) = B * n
    <3>1. B \in Nat /\ b \in Nat /\ n \in Nat /\ b - 1 \in Nat /\ n - b \in Nat
      BY <1>1, <1>2
    <3> HIDE DEF B, n
    <3> QED BY ONLY <3>1
  <2> DEFINE c == B * (b - 1)
             d == B * (n - b)
  <2>2. c \in Nat /\ d \in Nat /\ c + B + d = w /\ i \in 0..(B - 1)
    BY <1>5, <2>1
  <2> HIDE DEF c, d, w
  <2>3. c + (i + 1) \in 1..Len(f)
    BY <1>1, <1>2, <2>2
  <2> QED BY <1>1, <2>3 DEF c
<1>8. ASSUME NEW z \in Copy!Places, NEW m \in Nat, Len(f) + 1 + z + F = B * m
      PROVE  /\ s \in Seq(W) /\ Len(s) = B * m
             /\ \A p \in 1..Len(f) : s[p] = f[p]
             /\ s[Len(f) + 1] = Copy!Number(128)
             /\ \A p \in (Len(f) + 2)..(Len(f) + 1 + z) : s[p] = Copy!Number(0)
             /\ \A k \in 1..F : s[Len(f) + 1 + z + k] = Digit(bits, F - k)
  BY <1>8, MessageFacts DEF W
<1> HIDE DEF s, full, cut, one, two, none, bits, w, n, B, F
<1>9. CASE l < B - F
  <2> DEFINE z == B - F - 1 - l
             m == n + 1
             bs == blocks \o <<one>>
             g == Len(f)
  <2>1. z \in Copy!Places /\ m \in Nat /\ g + 1 + z + F = B * m /\ B * m = w + B /\ z \in Nat
    <3>1. B * m = w + B
      BY <1>2
    <3>2. z \in 0..(B - 1) /\ m \in Nat
      BY <1>1, <1>2, <1>9
    <3>3. g + 1 + z + F = w + B
      BY <1>1, <1>2
    <3> QED BY <3>1, <3>2, <3>3 DEF Copy!Places, B
  <2>2. Copy!LastBlocks = <<one>>
    BY <1>3, <1>9 DEF Copy!LastBlocks, one, cut, B, F
  <2>3. /\ bs \in Seq([Copy!Places -> W]) /\ Len(bs) = m /\ bs[m] = one
        /\ \A b \in 1..n : bs[b] = blocks[b]
    BY <1>6, BlocksAppended DEF n
  <2> HIDE DEF z
  <2>4. /\ s \in Seq(W) /\ Len(s) = B * m
        /\ \A p \in 1..g : s[p] = f[p]
        /\ s[g + 1] = Copy!Number(128)
        /\ \A p \in (g + 2)..(g + 1 + z) : s[p] = Copy!Number(0)
        /\ \A k \in 1..F : s[g + 1 + z + k] = Digit(bits, F - k)
    BY <1>8, <2>1
  <2> HIDE DEF bs
  <2>5. ASSUME NEW i \in Copy!Places
        PROVE  one[i] = s[w + (i + 1)]
    <3>1. i \in 0..(B - 1) /\ g = w + l /\ w \in Nat /\ l \in Nat /\ z = B - F - 1 - l
      BY <1>1, <1>2, <1>5 DEF z
    <3>2. CASE i < l
      <4>1. one[i] = data[i] /\ data[i] = f[w + (i + 1)]
        BY <1>1, <1>2, <1>5, <1>9, <3>1, <3>2
      <4>2. w + (i + 1) \in 1..g
        BY <3>1, <3>2
      <4> QED BY <2>4, <4>1, <4>2
    <3>3. CASE i = l
      <4>1. one[i] = Copy!Number(128) /\ w + (i + 1) = g + 1
        BY <1>2, <1>5, <1>9, <3>1, <3>3
      <4> QED BY <2>4, <4>1
    <3>4. CASE i > l /\ i < B - F
      <4>1. one[i] = Copy!Number(0)
        BY <1>2, <1>5, <3>1, <3>4
      <4>2. w + (i + 1) \in (g + 2)..(g + 1 + z)
        BY <1>2, <3>1, <3>4
      <4> QED BY <2>4, <4>1, <4>2
    <3>5. CASE i >= B - F
      <4> DEFINE k == i + 1 - (B - F)
      <4>1. one[i] = Digit(bits, B - 1 - i)
        BY <1>5, <3>5
      <4>2. k \in 1..F /\ w + (i + 1) = g + 1 + z + k /\ F - k = B - 1 - i
        BY <1>2, <3>1, <3>5
      <4> HIDE DEF k
      <4> QED BY <2>4, <4>1, <4>2
    <3> QED BY <1>2, <3>1, <3>2, <3>3, <3>4, <3>5
  <2>6. ASSUME NEW b \in 1..Len(bs), NEW i \in Copy!Places
        PROVE  bs[b][i] = s[B * (b - 1) + (i + 1)]
    <3>1. CASE b = m
      <4>1. B * (b - 1) = w
        BY <1>1, <3>1 DEF w
      <4> QED BY <2>3, <2>5, <3>1, <4>1
    <3>2. CASE b # m
      <4>1. b \in 1..n
        BY <1>1, <2>3, <3>2
      <4> DEFINE p == B * (b - 1) + (i + 1)
      <4>2. p \in 1..g /\ blocks[b][i] = f[p]
        BY <1>7, <4>1
      <4> HIDE DEF p
      <4>3. s[p] = f[p] /\ bs[b] = blocks[b]
        BY <2>3, <2>4, <4>1, <4>2
      <4> QED BY <4>2, <4>3 DEF p
    <3> QED BY <3>1, <3>2
  <2>7. Copy!Joined(bs) = s
    <3>1. Len(s) = BlockSize * Len(bs)
      BY <2>3, <2>4 DEF B
    <3>2. \A b \in 1..Len(bs) : \A i \in Copy!Places : bs[b][i] = s[BlockSize * (b - 1) + (i + 1)]
      BY <2>6 DEF B
    <3> QED BY <2>3, <2>4, <3>1, <3>2, SameMessage
  <2> QED BY <2>2, <2>7 DEF bs, s
<1>10. CASE ~(l < B - F)
  <2> DEFINE z == B + B - F - 1 - l
             m == n + 2
             bs == blocks \o <<full, two>>
             g == Len(f)
  <2>1. z \in Copy!Places /\ m \in Nat /\ g + 1 + z + F = B * m /\ B * m = w + B + B /\ z \in Nat
    <3>1. B * m = w + B + B
      BY <1>2
    <3>2. z \in 0..(B - 1) /\ m \in Nat
      BY <1>1, <1>2, <1>10
    <3>3. g + 1 + z + F = w + B + B
      BY <1>1, <1>2
    <3> QED BY <3>1, <3>2, <3>3 DEF Copy!Places, B
  <2>2. Copy!LastBlocks = <<full, two>>
    BY <1>3, <1>10 DEF Copy!LastBlocks, full, two, none, B, F
  <2>3. /\ bs \in Seq([Copy!Places -> W]) /\ Len(bs) = m /\ bs[n + 1] = full /\ bs[m] = two
        /\ \A b \in 1..n : bs[b] = blocks[b]
    BY <1>6, BlocksAppended DEF n
  <2> HIDE DEF z
  <2>4. /\ s \in Seq(W) /\ Len(s) = B * m
        /\ \A p \in 1..g : s[p] = f[p]
        /\ s[g + 1] = Copy!Number(128)
        /\ \A p \in (g + 2)..(g + 1 + z) : s[p] = Copy!Number(0)
        /\ \A k \in 1..F : s[g + 1 + z + k] = Digit(bits, F - k)
    BY <1>8, <2>1
  <2> HIDE DEF bs
  <2>5. ASSUME NEW i \in Copy!Places
        PROVE  full[i] = s[w + (i + 1)] /\ two[i] = s[w + B + (i + 1)]
    <3>1. i \in 0..(B - 1) /\ g = w + l /\ w \in Nat /\ l \in 0..(B - 1) /\ z = B + B - F - 1 - l
      BY <1>1, <1>2, <1>5 DEF z
    <3>2. full[i] = s[w + (i + 1)]
      <4>1. CASE i < l
        <5>1. full[i] = data[i] /\ data[i] = f[w + (i + 1)]
          BY <1>1, <1>2, <1>5, <3>1, <4>1
        <5>2. w + (i + 1) \in 1..g
          BY <3>1, <4>1
        <5> QED BY <2>4, <5>1, <5>2
      <4>2. CASE i = l
        <5>1. full[i] = Copy!Number(128) /\ w + (i + 1) = g + 1
          BY <1>2, <1>5, <3>1, <4>2
        <5> QED BY <2>4, <5>1
      <4>3. CASE i > l
        <5>1. full[i] = Copy!Number(0)
          BY <1>2, <1>5, <3>1, <4>3
        <5>2. w + (i + 1) \in (g + 2)..(g + 1 + z)
          BY <1>2, <3>1, <4>3
        <5> QED BY <2>4, <5>1, <5>2
      <4> QED BY <1>2, <3>1, <4>1, <4>2, <4>3
    <3>3. two[i] = s[w + B + (i + 1)]
      <4>1. CASE i < B - F
        <5>1. two[i] = Copy!Number(0)
          BY <1>2, <1>5, <3>1, <4>1
        <5>2. w + B + (i + 1) \in (g + 2)..(g + 1 + z)
          BY <1>2, <3>1, <4>1
        <5> QED BY <2>4, <5>1, <5>2
      <4>2. CASE i >= B - F
        <5> DEFINE k == i + 1 - (B - F)
        <5>1. two[i] = Digit(bits, B - 1 - i)
          BY <1>5, <4>2
        <5>2. k \in 1..F /\ w + B + (i + 1) = g + 1 + z + k /\ F - k = B - 1 - i
          BY <1>2, <3>1, <4>2
        <5> HIDE DEF k
        <5> QED BY <2>4, <5>1, <5>2
      <4> QED BY <1>2, <3>1, <4>1, <4>2
    <3> QED BY <3>2, <3>3
  <2>6. ASSUME NEW b \in 1..Len(bs), NEW i \in Copy!Places
        PROVE  bs[b][i] = s[B * (b - 1) + (i + 1)]
    <3>1. CASE b = n + 1
      <4>1. B * (b - 1) = w
        BY <1>1, <3>1 DEF w
      <4> QED BY <2>3, <2>5, <3>1, <4>1
    <3>2. CASE b = m
      <4>1. B * (b - 1) = w + B
        <5>1. b - 1 = n + 1
          BY <1>1, <3>2
        <5> QED BY <1>2, <5>1
      <4> QED BY <2>3, <2>5, <3>2, <4>1
    <3>3. CASE b # n + 1 /\ b # m
      <4>1. b \in 1..n
        BY <1>1, <2>3, <3>3
      <4> DEFINE p == B * (b - 1) + (i + 1)
      <4>2. p \in 1..g /\ blocks[b][i] = f[p]
        BY <1>7, <4>1
      <4> HIDE DEF p
      <4>3. s[p] = f[p] /\ bs[b] = blocks[b]
        BY <2>3, <2>4, <4>1, <4>2
      <4> QED BY <4>2, <4>3 DEF p
    <3> QED BY <3>1, <3>2, <3>3
  <2>7. Copy!Joined(bs) = s
    <3>1. Len(s) = BlockSize * Len(bs)
      BY <2>3, <2>4 DEF B
    <3>2. \A b \in 1..Len(bs) : \A i \in Copy!Places : bs[b][i] = s[BlockSize * (b - 1) + (i + 1)]
      BY <2>6 DEF B
    <3> QED BY <2>3, <2>4, <3>1, <3>2, SameMessage
  <2> QED BY <2>2, <2>7 DEF bs, s
<1> QED BY <1>9, <1>10

\* What has been copied is a beginning of the executable, with the rest of the buffer after it;
\* once the copy is whole, the context holds as much of it as has been read.  What is kept of the
\* hash is what was claimed of it.
CopyInv ==
  /\ exe \in Seq(Symbols) /\ from \in Nat
  /\ hashed => cpc = "done"
  /\ cpc = "copy" =>
       /\ dump \in Seq(Symbols) /\ chunk \in Seq(Symbols)
       /\ from <= Len(exe) /\ Len(dump) + Len(chunk) = from
       /\ \A i \in 1..Len(dump) : dump[i] = exe[i]
       /\ \A i \in 1..Len(chunk) : chunk[i] = exe[Len(dump) + i]
       /\ Absorbed(exe, 0, Copy!Context)
  /\ cpc = "hash" => dump = exe /\ from <= Len(exe) /\ Absorbed(exe, from, Copy!Context)
  /\ Copy!HashIsOfExecutable

LEMMA CopyInit == Copy!Init => CopyInv
<1> SUFFICES ASSUME Copy!Init PROVE CopyInv
  OBVIOUS
<1>1. /\ dump = <<>> /\ chunk = <<>> /\ from = 0 /\ cpc = "copy"
      /\ data = [i \in Copy!Places |-> Copy!Number(0)] /\ datalen = 0 /\ bitlen = 0
      /\ blocks = <<>> /\ hashed = FALSE
  BY DEF Copy!Init
<1>2. exe \in Seq(Symbols)
  <2>1. PICK n \in 0..MaxLength : exe = [i \in 1..n |-> Copy!Byte(i)]
    BY DEF Copy!Init
  <2>2. n \in Nat /\ \A i \in 1..n : Copy!Byte(i) \in Symbols
    BY SizesAre DEF Symbols
  <2> QED BY <2>1, <2>2
<1>3. Absorbed(exe, 0, Copy!Context)
  <2>1. /\ Copy!Context.data = data /\ Copy!Context.datalen = 0
        /\ Copy!Context.bitlen = 0 /\ Copy!Context.blocks = <<>>
    BY <1>1 DEF Copy!Context
  <2>2. Copy!Number(0) \in Symbols /\ 0 \in Copy!Places /\ <<>> \in Seq(Blocks)
    BY SizesAre DEF Symbols, Copy!Places
  <2>3. data \in Blocks
    BY <1>1, <2>2 DEF Blocks
  <2>4. Copy!Context \in Contexts
    BY <1>1, <2>2, <2>3 DEF Copy!Context, Contexts
  <2>5. Len(<<>>) = 0 /\ BlockSize * 0 = 0 /\ 1..0 = {}
    BY SizesAre
  <2>6. \A i \in Copy!Places : ~(i < 0)
    BY DEF Copy!Places
  <2> QED BY <2>1, <2>4, <2>5, <2>6 DEF Absorbed
<1>4. Len(<<>>) = 0 /\ <<>> \in Seq(Symbols) /\ 1..0 = {} /\ Len(exe) \in Nat
  BY <1>2
<1> QED BY <1>1, <1>2, <1>3, <1>4 DEF CopyInv, Copy!HashIsOfExecutable

LEMMA ReadKeeps == CopyInv /\ Copy!Read => CopyInv'
<1> SUFFICES ASSUME CopyInv, Copy!Read PROVE CopyInv'
  OBVIOUS
<1>1. /\ cpc = "copy" /\ chunk = <<>> /\ from < Len(exe)
      /\ UNCHANGED <<exe, dump, cpc, data, datalen, bitlen, blocks, hashed, readError>>
  BY DEF Copy!Read
<1>2. PICK n \in 1..CopySize : /\ n <= Copy!Least(CopySize, Len(exe) - from)
                               /\ chunk' = SubSeq(exe, from + 1, from + n) /\ from' = from + n
  BY DEF Copy!Read
<1>3. /\ exe \in Seq(Symbols) /\ from \in Nat /\ dump \in Seq(Symbols) /\ Len(dump) + Len(chunk) = from
      /\ (\A i \in 1..Len(dump) : dump[i] = exe[i]) /\ Absorbed(exe, 0, Copy!Context) /\ ~hashed
  BY <1>1 DEF CopyInv
<1>4. n \in Nat /\ from + n <= Len(exe) /\ Len(exe) \in Nat /\ Len(dump) = from
  <2>1. n \in Nat /\ n <= Len(exe) - from
    BY <1>2, <1>3, SizesAre, SMTT(30) DEF Copy!Least
  <2>2. Len(exe) \in Nat /\ Len(dump) = from
    BY <1>1, <1>3
  <2> QED BY <1>3, <2>1, <2>2
<1>5. /\ chunk' \in Seq(Symbols) /\ Len(chunk') = n
      /\ \A i \in 1..n : chunk'[i] = exe[from + i]
  <2> DEFINE c == SubSeq(exe, from + 1, from + n)
  <2>1. c \in Seq(Symbols) /\ Len(c) = n /\ \A i \in 1..n : c[i] = exe[from + i]
    BY <1>3, <1>4
  <2> QED BY <1>2, <2>1
<1>6. Copy!Context' = Copy!Context
  BY <1>1 DEF Copy!Context
<1>7. Absorbed(exe', 0, Copy!Context')
  BY <1>1, <1>3, <1>6
<1>8. Absorbed(exe, 0, Copy!Context)'
  BY <1>7 DEF Absorbed
<1> QED BY <1>1, <1>2, <1>3, <1>4, <1>5, <1>8 DEF CopyInv, Copy!HashIsOfExecutable

LEMMA WriteKeeps == CopyInv /\ Copy!Write => CopyInv'
<1> SUFFICES ASSUME CopyInv, Copy!Write PROVE CopyInv'
  OBVIOUS
<1>1. /\ cpc = "copy" /\ chunk # <<>>
      /\ UNCHANGED <<exe, from, cpc, data, datalen, bitlen, blocks, hashed, readError>>
  BY DEF Copy!Write
<1>2. PICK n \in 1..Len(chunk) : /\ dump' = dump \o SubSeq(chunk, 1, n)
                                 /\ chunk' = SubSeq(chunk, n + 1, Len(chunk))
  BY DEF Copy!Write
<1>3. /\ exe \in Seq(Symbols) /\ from \in Nat /\ dump \in Seq(Symbols) /\ chunk \in Seq(Symbols)
      /\ from <= Len(exe) /\ Len(dump) + Len(chunk) = from
      /\ (\A i \in 1..Len(dump) : dump[i] = exe[i])
      /\ (\A i \in 1..Len(chunk) : chunk[i] = exe[Len(dump) + i])
      /\ Absorbed(exe, 0, Copy!Context) /\ ~hashed
  BY <1>1 DEF CopyInv
<1> DEFINE a == Len(dump)
           l == Len(chunk)
           u == SubSeq(chunk, 1, n)
           v == SubSeq(chunk, n + 1, l)
<1>4. a \in Nat /\ l \in Nat /\ n \in Nat /\ 1 <= n /\ n <= l
  BY <1>3
<1>5. /\ u \in Seq(Symbols) /\ Len(u) = n /\ \A i \in 1..n : u[i] = chunk[i]
      /\ v \in Seq(Symbols) /\ Len(v) = l - n /\ \A i \in 1..(l - n) : v[i] = chunk[n + i]
  <2>1. chunk \in Seq(Symbols) /\ l \in Nat /\ l = Len(chunk) /\ n \in 1..l
    BY <1>3
  <2> HIDE DEF l
  <2>2. u \in Seq(Symbols) /\ Len(u) = n /\ \A i \in 1..n : u[i] = chunk[i]
    BY ONLY <2>1
  <2>3. v \in Seq(Symbols) /\ Len(v) = l - n /\ \A i \in 1..(l - n) : v[i] = chunk[n + i]
    <3>1. v = [i \in 1..(l - n) |-> chunk[n + i]]
      BY ONLY <2>1
    <3>2. \A i \in 1..(l - n) : chunk[n + i] \in Symbols
      BY ONLY <2>1
    <3>3. l - n \in Nat
      BY ONLY <2>1
    <3> HIDE DEF v
    <3> QED BY ONLY <3>1, <3>2, <3>3
  <2> QED BY <2>2, <2>3
<1> HIDE DEF u, v
<1>6. /\ dump' \in Seq(Symbols) /\ Len(dump') = a + n
      /\ \A i \in 1..a : dump'[i] = dump[i]
      /\ \A i \in 1..n : dump'[a + i] = u[i]
  <2>1. dump \in Seq(Symbols) /\ u \in Seq(Symbols)
    BY <1>3, <1>5
  <2>2. /\ dump \o u \in Seq(Symbols) /\ Len(dump \o u) = Len(dump) + Len(u)
        /\ \A p \in 1..Len(dump) : (dump \o u)[p] = dump[p]
        /\ \A p \in 1..Len(u) : (dump \o u)[Len(dump) + p] = u[p]
    BY ONLY <2>1, TwoJoined
  <2>3. dump' = dump \o u
    BY <1>2 DEF u
  <2> QED BY <1>5, <2>2, <2>3
<1>7. chunk' = v
  BY <1>2 DEF v
<1>8. ASSUME NEW i \in 1..(a + n) PROVE dump'[i] = exe[i]
  <2>1. CASE i <= a
    <3>1. i \in 1..a
      BY <1>4, <2>1
    <3> QED BY <1>3, <1>6, <3>1
  <2>2. CASE ~(i <= a)
    <3> DEFINE k == i - a
    <3>1. k \in 1..n /\ k \in 1..l /\ a + k = i
      BY <1>4, <2>2
    <3> HIDE DEF k
    <3>2. dump'[a + k] = chunk[k] /\ chunk[k] = exe[a + k]
      BY <1>3, <1>5, <1>6, <3>1
    <3> QED BY <3>1, <3>2
  <2> QED BY <2>1, <2>2
<1>9. ASSUME NEW i \in 1..(l - n) PROVE v[i] = exe[(a + n) + i]
  <2>1. n + i \in 1..l /\ a + (n + i) = (a + n) + i
    BY <1>4
  <2>2. v[i] = chunk[n + i] /\ chunk[n + i] = exe[a + (n + i)]
    BY <1>3, <1>5, <2>1
  <2> QED BY <2>1, <2>2
<1>10. (a + n) + (l - n) = from
  <2>1. a + l = from
    BY <1>3
  <2> HIDE DEF a, l
  <2> QED BY <1>4, <2>1
<1>11. Absorbed(exe, 0, Copy!Context)'
  <2>1. Copy!Context' = Copy!Context
    BY <1>1 DEF Copy!Context
  <2>2. Absorbed(exe', 0, Copy!Context')
    BY <1>1, <1>3, <2>1
  <2> QED BY <2>2 DEF Absorbed
<1> HIDE DEF a, l
<1> QED BY <1>1, <1>3, <1>5, <1>6, <1>7, <1>8, <1>9, <1>10, <1>11
        DEF CopyInv, Copy!HashIsOfExecutable

\* After a copy that failed there is no hash; other steps leave the copy as it is.
LEMMA OtherKeeps ==
  /\ CopyInv /\ Copy!CopyFails => CopyInv'
  /\ CopyInv /\ UNCHANGED Copy!evars => CopyInv'
<1>1. ASSUME CopyInv, Copy!CopyFails PROVE CopyInv'
  <2>1. cpc = "copy" /\ cpc' = "done" /\ UNCHANGED <<exe, from, hashed>>
    BY <1>1 DEF Copy!CopyFails
  <2>2. ~hashed
    BY <1>1, <2>1 DEF CopyInv
  <2> QED BY <1>1, <2>1, <2>2 DEF CopyInv, Copy!HashIsOfExecutable
<1>2. ASSUME CopyInv, UNCHANGED Copy!evars PROVE CopyInv'
  <2>1. UNCHANGED <<exe, dump, chunk, from, cpc, data, datalen, bitlen, blocks, hashed, readError>>
    BY <1>2 DEF Copy!evars
  <2>2. Copy!Context' = Copy!Context
    BY <2>1 DEF Copy!Context
  <2>3. Copy!HashIsOfExecutable'
    <3>1. Copy!HashIsOfExecutable
      BY <1>2 DEF CopyInv
    <3>2. Copy!Joined(blocks') = Copy!Joined(blocks) /\ Copy!MessageOf(exe') = Copy!MessageOf(exe)
      BY <2>1
    <3> QED BY <2>1, <3>1, <3>2 DEF Copy!HashIsOfExecutable
  <2>4. /\ Absorbed(exe, 0, Copy!Context) => Absorbed(exe, 0, Copy!Context)'
        /\ Absorbed(exe, from, Copy!Context) => Absorbed(exe, from, Copy!Context)'
    BY <2>1, <2>2 DEF Absorbed
  <2> QED BY <1>2, <2>1, <2>3, <2>4 DEF CopyInv
<1> QED BY <1>1, <1>2

LEMMA EndKeeps == CopyInv /\ Copy!CopyEnds => CopyInv'
<1> SUFFICES ASSUME CopyInv, Copy!CopyEnds PROVE CopyInv'
  OBVIOUS
<1>1. /\ cpc = "copy" /\ chunk = <<>> /\ from = Len(exe) /\ cpc' = "hash" /\ from' = 0
      /\ UNCHANGED <<exe, dump, chunk, data, datalen, bitlen, blocks, hashed, readError>>
  BY DEF Copy!CopyEnds
<1>2. /\ exe \in Seq(Symbols) /\ dump \in Seq(Symbols) /\ Len(dump) + Len(chunk) = from
      /\ (\A i \in 1..Len(dump) : dump[i] = exe[i]) /\ Absorbed(exe, 0, Copy!Context) /\ ~hashed
  BY <1>1 DEF CopyInv
<1>3. dump = exe
  <2>1. Len(dump) = Len(exe) /\ Len(exe) \in Nat
    BY <1>1, <1>2
  <2>2. dump = [i \in 1..Len(dump) |-> dump[i]] /\ exe = [i \in 1..Len(exe) |-> exe[i]]
    BY <1>2
  <2> QED BY <1>2, <2>1, <2>2
<1>4. Absorbed(exe, from, Copy!Context)'
  <2>1. Copy!Context' = Copy!Context
    BY <1>1 DEF Copy!Context
  <2>2. Absorbed(exe', from', Copy!Context')
    BY <1>1, <1>2, <2>1
  <2> QED BY <2>2 DEF Absorbed
<1>5. Len(exe) \in Nat
  BY <1>2
<1> QED BY <1>1, <1>2, <1>3, <1>4, <1>5 DEF CopyInv, Copy!HashIsOfExecutable

LEMMA UpdateKeeps == CopyInv /\ Copy!Update => CopyInv'
<1> SUFFICES ASSUME CopyInv, Copy!Update PROVE CopyInv'
  OBVIOUS
<1>1. /\ cpc = "hash" /\ from < Len(dump) /\ UNCHANGED <<exe, dump, chunk, cpc, hashed>>
  BY DEF Copy!Update
<1>2. PICK n \in 0..Copy!Least(HashSize, Len(dump) - from) :
        LET ctx == Copy!FoldLeft(Copy!Push, Copy!Context, SubSeq(dump, from + 1, from + n))
        IN  /\ from' = from + n
            /\ data' = ctx.data /\ datalen' = ctx.datalen
            /\ bitlen' = ctx.bitlen /\ blocks' = ctx.blocks
  BY DEF Copy!Update
<1>3. /\ exe \in Seq(Symbols) /\ from \in Nat /\ dump = exe /\ from <= Len(exe)
      /\ Absorbed(exe, from, Copy!Context) /\ ~hashed
  BY <1>1 DEF CopyInv
<1>4. n \in Nat /\ from + n \in Nat /\ from + n <= Len(exe)
  <2>1. Len(exe) \in Nat
    BY <1>3
  <2>2. n \in Nat /\ n <= Len(exe) - from
    BY <1>1, <1>2, <1>3, <2>1, SizesAre DEF Copy!Least
  <2> QED BY <1>3, <2>1, <2>2
<1> DEFINE c == Copy!FoldLeft(Copy!Push, Copy!Context, SubSeq(exe, from + 1, from + n))
<1>5. Absorbed(exe, from + n, c)
  <2> DEFINE x == Copy!Context
  <2>1. Absorbed(exe, from, x)
    BY <1>3
  <2> HIDE DEF x
  <2>2. Absorbed(exe, from + n, Copy!FoldLeft(Copy!Push, x, SubSeq(exe, from + 1, from + n)))
    BY <1>3, <1>4, <2>1, FoldAbsorbs
  <2> QED BY <2>2 DEF x
<1>6. /\ from' = from + n /\ data' = c.data /\ datalen' = c.datalen
      /\ bitlen' = c.bitlen /\ blocks' = c.blocks
  BY <1>2, <1>3
<1> HIDE DEF c
<1>7. Copy!Context' = c
  <2>1. c \in Contexts
    BY <1>5 DEF Absorbed
  <2>2. c = [data |-> c.data, datalen |-> c.datalen, bitlen |-> c.bitlen, blocks |-> c.blocks]
    BY <2>1 DEF Contexts
  <2>3. Copy!Context' = [data |-> data', datalen |-> datalen', bitlen |-> bitlen', blocks |-> blocks']
    BY DEF Copy!Context
  <2> QED BY <1>6, <2>2, <2>3
<1>8. Absorbed(exe, from, Copy!Context)'
  <2>1. Absorbed(exe', from', Copy!Context')
    BY <1>1, <1>5, <1>6, <1>7
  <2> QED BY <2>1 DEF Absorbed
<1> QED BY <1>1, <1>3, <1>4, <1>6, <1>8 DEF CopyInv, Copy!HashIsOfExecutable

LEMMA FinalKeeps == CopyInv /\ Copy!Final => CopyInv'
<1> SUFFICES ASSUME CopyInv, Copy!Final PROVE CopyInv'
  OBVIOUS
<1>1. /\ cpc = "hash" /\ cpc' = "done" /\ (from = Len(dump) \/ readError)
      /\ blocks' = blocks \o Copy!LastBlocks /\ UNCHANGED <<exe, dump, from, readError>>
  BY DEF Copy!Final
<1>2. /\ exe \in Seq(Symbols) /\ from \in Nat /\ dump = exe /\ Absorbed(exe, from, Copy!Context)
  BY <1>1 DEF CopyInv
<1>3. ASSUME ~readError PROVE Copy!Joined(blocks') = Copy!MessageOf(exe')
  <2>1. Absorbed(exe, Len(exe), Copy!Context)
    BY <1>1, <1>2, <1>3
  <2>2. Copy!Joined(blocks \o Copy!LastBlocks) = Copy!MessageOf(exe)
    BY <1>2, <2>1, PaddingIsMessage
  <2> QED BY <1>1, <2>2
<1>4. Copy!HashIsOfExecutable'
  BY <1>1, <1>2, <1>3 DEF Copy!HashIsOfExecutable
<1> QED BY <1>1, <1>2, <1>4 DEF CopyInv

\* The hash of a case is that of the whole executable, for every length of the file, of the buffers
\* and of the blocks and wherever reads and writes are cut short, unless reading the copy back
\* failed (rw_copy_file, rw_sha256_file, sha256_update, sha256_final).
THEOREM HashCoversExecutable == ServicesSpec => []HashIsOfExecutable
<1>1. CopyInv /\ [Copy!Next]_(Copy!evars) => CopyInv'
  BY ReadKeeps, WriteKeeps, OtherKeeps, EndKeeps, UpdateKeeps, FinalKeeps DEF Copy!Next
<1>2. CopyInv => HashIsOfExecutable
  BY DEF CopyInv, HashIsOfExecutable
<1> QED BY ServicesAreCopy, CopyInit, <1>1, <1>2, PTL DEF Copy!Spec
=============================================================================
