---------------------------- MODULE LineageProofs ----------------------------
(***************************************************************************)
(* What the lineage's table of nodes promises for any number of pids,      *)
(* nodes, children and queued events and any depth of the walks, with and  *)
(* without reused pids.                                                    *)
(***************************************************************************)
EXTENDS Lineage, FiniteSetTheorems, SequenceTheorems, TLAPS

-----------------------------------------------------------------------------
(***************************************************************************)
(* Induction and iteration                                                 *)
(***************************************************************************)
\* Induction over the numbers, with a set in the place of a predicate.
LEMMA NatInductionSet ==
  ASSUME NEW S, 0 \in S, \A n \in Nat : n \in S => n + 1 \in S
  PROVE  Nat \subseteq S
<1> SUFFICES ASSUME NEW m \in Nat, m \notin S PROVE FALSE
  OBVIOUS
<1> DEFINE T == {n \in 0..m : n \in S}
           f == [n \in T |-> n + 1]
<1>1. IsFiniteSet(T)
  <2>1. IsFiniteSet(0..m)
    BY FS_Interval
  <2> QED BY <2>1, FS_Subset
<1>2. \A n \in T : n + 1 \in T
  OBVIOUS
<1>3. f \in Injection(T, T)
  BY <1>2 DEF Injection, IsInjective
<1>4. f \in Surjection(T, T)
  BY <1>1, <1>3, FS_Injection
<1>5. 0 \in T
  OBVIOUS
<1>6. PICK n \in T : f[n] = 0
  BY <1>4, <1>5 DEF Surjection
<1> QED BY <1>6

\* What is computed step by step, each step[k] from the value before, exists.
Steps(step, n, D) == step \in [1..n -> [D -> D]]
Iterates(f, step, n, base, D) ==
  f \in [0..n -> D] /\ f[0] = base /\ \A k \in 1..n : f[k] = step[k][f[k - 1]]

LEMMA IterationExists ==
  ASSUME NEW D, NEW n \in Nat, NEW base \in D, NEW step, Steps(step, n, D)
  PROVE  \E f : Iterates(f, step, n, base, D)
<1> SUFFICES \E f \in [0..n -> D] : f[0] = base /\ \A k \in 1..n : f[k] = step[k][f[k - 1]]
  BY DEF Iterates
<1> USE DEF Steps
<1> DEFINE Computes(f, m) == f[0] = base /\ \A k \in 1..m : f[k] = step[k][f[k - 1]]
           S == {m \in Nat : m <= n => \E f \in [0..m -> D] : Computes(f, m)}
<1>1. 0 \in S
  <2> DEFINE g == [k \in 0..0 |-> base]
  <2>1. g \in [0..0 -> D] /\ Computes(g, 0)
    OBVIOUS
  <2> QED BY <2>1
<1>2. ASSUME NEW m \in Nat, m \in S PROVE m + 1 \in S
  <2> SUFFICES ASSUME m + 1 <= n PROVE \E f \in [0..(m + 1) -> D] : Computes(f, m + 1)
    OBVIOUS
  <2>1. PICK f \in [0..m -> D] : Computes(f, m)
    BY <1>2
  <2>2. m + 1 \in 1..n /\ f[m] \in D
    OBVIOUS
  <2>3. step[m + 1][f[m]] \in D
    BY <2>2
  <2> DEFINE g == [k \in 0..(m + 1) |-> IF k = m + 1 THEN step[m + 1][f[m]] ELSE f[k]]
  <2>4. g \in [0..(m + 1) -> D]
    BY <2>3
  <2>5. g[m + 1] = step[m + 1][f[m]] /\ \A k \in 0..m : g[k] = f[k]
    OBVIOUS
  <2> HIDE DEF g
  <2>6. ASSUME NEW k \in 1..(m + 1) PROVE g[k] = step[k][g[k - 1]]
    <3>1. CASE k = m + 1
      <4>1. k - 1 = m /\ m \in 0..m
        BY <3>1
      <4> QED BY <2>5, <3>1, <4>1
    <3>2. CASE k # m + 1
      <4>1. k \in 1..m /\ k \in 0..m /\ k - 1 \in 0..m
        BY <3>2
      <4> QED BY <2>1, <2>5, <4>1
    <3> QED BY <3>1, <3>2
  <2>7. g[0] = base
    BY <2>1, <2>5
  <2> QED BY <2>4, <2>6, <2>7
<1>3. Nat \subseteq S
  <2> HIDE DEF S
  <2> QED BY <1>1, <1>2, NatInductionSet
<1> QED BY <1>3

-----------------------------------------------------------------------------
(***************************************************************************)
(* The operations on the table                                             *)
(***************************************************************************)
\* A table within its sizes.
Table(ns) ==
  /\ DOMAIN ns \subseteq Pids /\ Cardinality(DOMAIN ns) <= MaxNodes
  /\ ns \in [DOMAIN ns -> Nodes]
  /\ \A p \in DOMAIN ns : Cardinality(ns[p].children) <= MaxChildren

\* The parent link of c is one that its parent knows of, unless a table was full.
LinkKnown(ns, c) ==
  LET p == ns[c].ppid IN
    \/ p \in {0, c}
    \/ p \notin DOMAIN ns /\ Full(ns)
    \/ p \in DOMAIN ns /\ (c \in ns[p].children \/ Cardinality(ns[p].children) >= MaxChildren)

\* What every operation keeps: init stays the root of all.
GoodTable(ns) ==
  /\ Table(ns)
  /\ \A c \in DOMAIN ns : LinkKnown(ns, c)
  /\ Init1 \in DOMAIN ns => ns[Init1].ppid = 0

\* What the daemon reads in /proc.
ProcInv ==
  /\ alive \subseteq Pids /\ Init1 \in alive /\ parent \in [Pids -> 0..MaxPid]
  /\ parent[Init1] = 0 /\ \A p \in alive \ {Init1} : parent[p] > 0

LEMMA PidFacts ==
  /\ IsFiniteSet(Pids) /\ MaxPid \in Nat /\ MaxNodes \in Nat /\ MaxChildren \in Nat
  /\ 0 \notin Pids /\ Pids \subseteq 0..MaxPid /\ Init1 \in Pids
  /\ \A S : S \subseteq Pids => IsFiniteSet(S) /\ Cardinality(S) \in Nat
<1>1. MaxPid \in Nat /\ MaxNodes \in Nat /\ MaxChildren \in Nat /\ MaxPid >= 2
  BY LineageAssumption
<1>2. IsFiniteSet(Pids)
  BY <1>1, FS_Interval DEF Pids
<1>3. ASSUME NEW S, S \subseteq Pids PROVE IsFiniteSet(S) /\ Cardinality(S) \in Nat
  BY <1>2, <1>3, FS_Subset, FS_CardinalityType
<1> QED BY <1>1, <1>2, <1>3 DEF Pids, Init1

\* A node has its fields.
LEMMA NodeFields ==
  ASSUME NEW ns, Table(ns), NEW p \in DOMAIN ns
  PROVE  /\ p \in Pids /\ ns[p] \in Nodes /\ ns[p].ppid \in 0..MaxPid /\ ns[p].children \subseteq Pids
         /\ ns[p].exited \in BOOLEAN
<1>1. p \in Pids /\ ns[p] \in Nodes
  BY DEF Table
<1> QED BY <1>1 DEF Nodes

\* A new node has no parent; nothing else changes.
LEMMA WithNodeKeeps ==
  ASSUME NEW ns, Table(ns), NEW pid \in Pids
  PROVE  /\ Table(WithNode(ns, pid))
         /\ DOMAIN ns \subseteq DOMAIN WithNode(ns, pid)
         /\ DOMAIN WithNode(ns, pid) \subseteq DOMAIN ns \union {pid}
         /\ \A p \in DOMAIN ns : WithNode(ns, pid)[p] = ns[p]
         /\ pid \in DOMAIN WithNode(ns, pid) \/ Full(WithNode(ns, pid))
         /\ pid \notin DOMAIN ns /\ pid \in DOMAIN WithNode(ns, pid) =>
              WithNode(ns, pid)[pid].ppid = 0
         /\ \A c \in DOMAIN ns : LinkKnown(ns, c) => LinkKnown(WithNode(ns, pid), c)
<1>1. CASE pid \in DOMAIN ns \/ Full(ns)
  BY <1>1 DEF WithNode
<1>2. CASE ~(pid \in DOMAIN ns \/ Full(ns))
  <2> DEFINE known == [p \in DOMAIN ns \union {pid} |-> IF p = pid THEN FreshNode ELSE ns[p]]
  <2>1. WithNode(ns, pid) = known
    BY <1>2 DEF WithNode
  <2>2. /\ DOMAIN known = DOMAIN ns \union {pid} /\ known[pid] = FreshNode
        /\ \A p \in DOMAIN ns : known[p] = ns[p]
    BY <1>2
  <2> HIDE DEF known
  <2>3. FreshNode \in Nodes /\ FreshNode.ppid = 0 /\ FreshNode.children = {}
    BY PidFacts DEF FreshNode, Nodes
  <2>4. DOMAIN ns \subseteq Pids /\ Cardinality(DOMAIN ns) \in Nat /\ IsFiniteSet(DOMAIN ns)
    BY PidFacts DEF Table
  <2>5. Cardinality(DOMAIN known) = Cardinality(DOMAIN ns) + 1
    BY <1>2, <2>2, <2>4, FS_AddElement
  <2>6. Cardinality(DOMAIN known) <= MaxNodes
    BY <1>2, <2>4, <2>5, PidFacts DEF Full
  <2>7. \A p \in DOMAIN known : known[p] \in Nodes /\ Cardinality(known[p].children) <= MaxChildren
    <3> SUFFICES ASSUME NEW p \in DOMAIN known
                 PROVE  known[p] \in Nodes /\ Cardinality(known[p].children) <= MaxChildren
      OBVIOUS
    <3>1. CASE p = pid
      BY <2>2, <2>3, <3>1, FS_EmptySet, PidFacts
    <3>2. CASE p # pid
      <4>1. p \in DOMAIN ns /\ known[p] = ns[p]
        BY <2>2, <3>2
      <4> QED BY <4>1, NodeFields DEF Table
    <3> QED BY <3>1, <3>2
  <2>8. Table(known)
    <3>1. known = [p \in DOMAIN known |-> known[p]]
      BY DEF known
    <3>2. known \in [DOMAIN known -> Nodes]
      BY <2>7, <3>1
    <3> QED BY <2>2, <2>4, <2>6, <2>7, <3>2 DEF Table
  <2>9. ASSUME NEW c \in DOMAIN ns, LinkKnown(ns, c) PROVE LinkKnown(known, c)
    <3>1. known[c] = ns[c] /\ ~Full(ns)
      BY <1>2, <2>2
    <3> QED BY <2>2, <2>9, <3>1 DEF LinkKnown
  <2> QED BY <2>1, <2>2, <2>3, <2>8, <2>9
<1> QED BY <1>1, <1>2

LEMMA WithNodeGood ==
  ASSUME NEW ns, GoodTable(ns), NEW pid \in Pids
  PROVE  GoodTable(WithNode(ns, pid))
<1> DEFINE known == WithNode(ns, pid)
<1>1. Table(ns) /\ Table(known)
  BY WithNodeKeeps DEF GoodTable
<1>2. /\ DOMAIN known \subseteq DOMAIN ns \union {pid} /\ \A p \in DOMAIN ns : known[p] = ns[p]
      /\ pid \notin DOMAIN ns /\ pid \in DOMAIN known => known[pid].ppid = 0
      /\ \A c \in DOMAIN ns : LinkKnown(ns, c) => LinkKnown(known, c)
  BY <1>1, WithNodeKeeps
<1> HIDE DEF known
<1>3. ASSUME NEW c \in DOMAIN known PROVE LinkKnown(known, c)
  <2>1. CASE c \in DOMAIN ns
    BY <1>2, <2>1 DEF GoodTable
  <2>2. CASE c \notin DOMAIN ns
    BY <1>2, <2>2 DEF LinkKnown
  <2> QED BY <2>1, <2>2
<1>4. Init1 \in DOMAIN known => known[Init1].ppid = 0
  BY <1>2 DEF GoodTable
<1>5. GoodTable(known)
  BY <1>1, <1>3, <1>4 DEF GoodTable
<1> QED BY <1>5 DEF known

\* A child is entered: the table keeps its size, and the parent knows the child.
LEMMA WithChildKeeps ==
  ASSUME NEW ns, Table(ns), NEW p \in Pids, NEW c \in Pids, c \in DOMAIN ns
  PROVE  /\ Table(WithChild(ns, p, c)) /\ DOMAIN ns \subseteq DOMAIN WithChild(ns, p, c)
         /\ DOMAIN WithChild(ns, p, c) \subseteq DOMAIN ns \union {p}
         /\ \A d \in DOMAIN ns : WithChild(ns, p, c)[d].ppid = ns[d].ppid
         /\ p \notin DOMAIN ns /\ p \in DOMAIN WithChild(ns, p, c) =>
              WithChild(ns, p, c)[p].ppid = 0
         /\ \A d \in DOMAIN ns : LinkKnown(ns, d) => LinkKnown(WithChild(ns, p, c), d)
         /\ ns[c].ppid = p => LinkKnown(WithChild(ns, p, c), c)
<1> DEFINE known == WithNode(ns, p)
<1>1. /\ Table(known) /\ DOMAIN ns \subseteq DOMAIN known
      /\ DOMAIN known \subseteq DOMAIN ns \union {p} /\ \A d \in DOMAIN ns : known[d] = ns[d]
      /\ p \in DOMAIN known \/ Full(known)
      /\ p \notin DOMAIN ns /\ p \in DOMAIN known => known[p].ppid = 0
      /\ \A d \in DOMAIN ns : LinkKnown(ns, d) => LinkKnown(known, d)
  BY WithNodeKeeps
<1>2. CASE p = c
  <2>1. WithChild(ns, p, c) = ns
    BY <1>2 DEF WithChild
  <2> QED BY <1>2, <2>1 DEF LinkKnown
<1>3. CASE /\ p # c
           /\ p \notin DOMAIN known \/ c \in known[p].children
                \/ Cardinality(known[p].children) >= MaxChildren
  <2>1. WithChild(ns, p, c) = known
    BY <1>3 DEF WithChild
  <2>2. ns[c].ppid = p => LinkKnown(known, c)
    <3> HIDE DEF known
    <3> QED BY <1>1, <1>3 DEF LinkKnown
  <2> HIDE DEF known
  <2> QED BY <1>1, <2>1, <2>2
<1>4. CASE /\ p # c /\ p \in DOMAIN known /\ c \notin known[p].children
           /\ ~(Cardinality(known[p].children) >= MaxChildren)
  <2> DEFINE new == [known EXCEPT ![p].children = @ \union {c}]
  <2>1. WithChild(ns, p, c) = new
    BY <1>4 DEF WithChild
  <2> HIDE DEF known
  <2>2. known = [d \in DOMAIN known |-> known[d]] /\ \A d \in DOMAIN known : known[d] \in Nodes
    BY <1>1 DEF Table
  <2>3. /\ DOMAIN new = DOMAIN known
        /\ new[p] = [known[p] EXCEPT !.children = @ \union {c}]
        /\ \A d \in DOMAIN known : d # p => new[d] = known[d]
    BY <1>4, <2>2
  <2>4. new = [d \in DOMAIN new |-> new[d]]
    BY <2>2
  <2> HIDE DEF new
  <2>5. known[p] \in Nodes /\ known[p].children \subseteq Pids
    BY <1>1, <1>4, NodeFields
  <2>6. /\ new[p] \in Nodes /\ new[p].ppid = known[p].ppid
        /\ new[p].children = known[p].children \union {c}
    BY <2>3, <2>5 DEF Nodes
  <2>7. Cardinality(new[p].children) <= MaxChildren
    <3>1. IsFiniteSet(known[p].children) /\ Cardinality(known[p].children) \in Nat /\ MaxChildren \in Nat
      BY <2>5, PidFacts
    <3>2. Cardinality(new[p].children) = Cardinality(known[p].children) + 1
      BY <1>4, <2>6, <3>1, FS_AddElement
    <3> QED BY <1>4, <3>1, <3>2
  <2>8. \A d \in DOMAIN new : new[d] \in Nodes /\ Cardinality(new[d].children) <= MaxChildren
    BY <1>1, <2>2, <2>3, <2>6, <2>7 DEF Table
  <2>9. Table(new)
    <3>1. new \in [DOMAIN new -> Nodes]
      BY <2>4, <2>8
    <3> QED BY <1>1, <2>3, <2>8, <3>1 DEF Table
  <2>10. \A d \in DOMAIN known : new[d].ppid = known[d].ppid
    BY <2>3, <2>6
  <2>11. ASSUME NEW d \in DOMAIN known, LinkKnown(known, d) PROVE LinkKnown(new, d)
    <3> DEFINE q == known[d].ppid
    <3>1. new[d].ppid = q /\ Full(known) = Full(new)
      BY <2>3, <2>10 DEF Full
    <3>2. q \in DOMAIN known => \/ new[q].children = known[q].children
                                \/ q = p
      BY <2>3
    <3>3. d \in known[p].children => d \in new[p].children
      BY <2>6
    <3> HIDE DEF q
    <3> QED BY <1>4, <2>3, <2>11, <3>1, <3>2, <3>3 DEF LinkKnown, q
  <2>12. ns[c].ppid = p => LinkKnown(new, c)
    BY ZenonT(60), <1>1, <1>4, <2>3, <2>6, <2>10 DEF LinkKnown
  <2> QED BY <1>1, <2>1, <2>3, <2>9, <2>10, <2>11, <2>12
<1> QED BY <1>2, <1>3, <1>4

\* A parent link and its entry among the children agree again when both were made.
LEMMA LinkedKeeps ==
  ASSUME NEW ns, GoodTable(ns), NEW p \in Pids, NEW c \in DOMAIN ns, c # Init1
  PROVE  /\ GoodTable(Linked(ns, p, c)) /\ DOMAIN ns \subseteq DOMAIN Linked(ns, p, c)
         /\ Linked(ns, p, c)[c].ppid = p
         /\ \A d \in DOMAIN ns : d # c => Linked(ns, p, c)[d].ppid = ns[d].ppid
<1> DEFINE moved == [ns EXCEPT ![c].ppid = p]
           linked == WithChild(moved, p, c)
<1>1. Linked(ns, p, c) = linked
  BY DEF Linked
<1>2. Table(ns) /\ c \in Pids
  BY NodeFields DEF GoodTable
<1>3. ns = [d \in DOMAIN ns |-> ns[d]] /\ \A d \in DOMAIN ns : ns[d] \in Nodes
  BY <1>2 DEF Table
<1>4. /\ DOMAIN moved = DOMAIN ns /\ moved[c] = [ns[c] EXCEPT !.ppid = p]
      /\ \A d \in DOMAIN ns : d # c => moved[d] = ns[d]
      /\ moved = [d \in DOMAIN moved |-> moved[d]]
  BY <1>3
<1> HIDE DEF moved, linked
<1>5. moved[c] \in Nodes /\ moved[c].ppid = p /\ moved[c].children = ns[c].children
  <2>1. ns[c] \in Nodes /\ p \in 0..MaxPid
    BY <1>3, PidFacts
  <2> QED BY <1>4, <2>1 DEF Nodes
<1>6. Table(moved)
  <2>1. \A d \in DOMAIN moved : moved[d] \in Nodes /\ Cardinality(moved[d].children) <= MaxChildren
    BY <1>2, <1>3, <1>4, <1>5 DEF Table
  <2>2. moved \in [DOMAIN moved -> Nodes]
    BY <1>4, <2>1
  <2> QED BY <1>2, <1>4, <2>1, <2>2 DEF Table
<1>7. \A d \in DOMAIN ns : d # c => LinkKnown(moved, d)
  <2> SUFFICES ASSUME NEW d \in DOMAIN ns, d # c PROVE LinkKnown(moved, d)
    OBVIOUS
  <2> DEFINE q == ns[d].ppid
  <2>1. LinkKnown(ns, d) /\ moved[d].ppid = q /\ (Full(moved) <=> Full(ns))
    BY <1>4 DEF GoodTable, Full
  <2>2. q \in DOMAIN ns => moved[q].children = ns[q].children
    BY <1>4, <1>5
  <2> HIDE DEF q
  <2> QED BY <1>4, <2>1, <2>2 DEF LinkKnown, q
<1>8. /\ Table(linked) /\ DOMAIN moved \subseteq DOMAIN linked
      /\ DOMAIN linked \subseteq DOMAIN moved \union {p}
      /\ \A d \in DOMAIN moved : linked[d].ppid = moved[d].ppid
      /\ p \notin DOMAIN moved /\ p \in DOMAIN linked => linked[p].ppid = 0
      /\ \A d \in DOMAIN moved : LinkKnown(moved, d) => LinkKnown(linked, d)
      /\ LinkKnown(linked, c)
  <2>1. c \in DOMAIN moved
    BY <1>4
  <2> QED BY <1>2, <1>5, <1>6, <2>1, WithChildKeeps DEF linked
<1>9. \A d \in DOMAIN linked : LinkKnown(linked, d)
  <2> SUFFICES ASSUME NEW d \in DOMAIN linked PROVE LinkKnown(linked, d)
    OBVIOUS
  <2>1. CASE d = c
    BY <1>8, <2>1
  <2>2. CASE d \in DOMAIN ns /\ d # c
    BY <1>4, <1>7, <1>8, <2>2
  <2>3. CASE d \notin DOMAIN ns
    <3>1. linked[d].ppid = 0
      BY <1>4, <1>8, <2>3
    <3> QED BY <3>1 DEF LinkKnown
  <2> QED BY <2>1, <2>2, <2>3
<1>10. Init1 \in DOMAIN linked => linked[Init1].ppid = 0
  BY <1>4, <1>8 DEF GoodTable
<1>11. GoodTable(linked)
  BY <1>8, <1>9, <1>10 DEF GoodTable
<1> QED BY <1>1, <1>4, <1>5, <1>8, <1>11

-----------------------------------------------------------------------------
(***************************************************************************)
(* What the daemon reads                                                   *)
(***************************************************************************)
\* A table that follows another one has its nodes, and no link that was that of the kernel differs.
Follows(ns, ms) ==
  /\ GoodTable(ms) /\ DOMAIN ns \subseteq DOMAIN ms
  /\ \A q \in DOMAIN ns \intersect alive : ns[q].ppid = parent[q] => ms[q].ppid = parent[q]

LEMMA FollowsTransitive ==
  ASSUME NEW ns, NEW ms, NEW ls, Follows(ns, ms), Follows(ms, ls)
  PROVE  Follows(ns, ls)
BY DEF Follows

LEMMA WithNodeFollows ==
  ASSUME NEW ns, GoodTable(ns), NEW pid \in Pids
  PROVE  Follows(ns, WithNode(ns, pid))
<1>1. Table(ns) /\ GoodTable(WithNode(ns, pid))
  BY WithNodeGood DEF GoodTable
<1>2. /\ DOMAIN ns \subseteq DOMAIN WithNode(ns, pid)
      /\ \A q \in DOMAIN ns : WithNode(ns, pid)[q] = ns[q]
  BY <1>1, WithNodeKeeps
<1> QED BY <1>1, <1>2 DEF Follows

\* To look at a process makes its link the kernel's, unless it is gone or the table is full.
LEMMA ObservedFollows ==
  ASSUME ProcInv, NEW ns, GoodTable(ns), NEW pid \in Pids
  PROVE  /\ Follows(ns, Observed(ns, pid))
         /\ \A q \in DOMAIN ns : q # pid => Observed(ns, pid)[q].ppid = ns[q].ppid
         /\ pid \in alive /\ pid \in DOMAIN ns => Observed(ns, pid)[pid].ppid = parent[pid]
<1> DEFINE known == WithNode(ns, pid)
           linked == Linked(known, parent[pid], pid)
<1>1. Table(ns)
  BY DEF GoodTable
<1>2. /\ Follows(ns, known) /\ GoodTable(known) /\ DOMAIN ns \subseteq DOMAIN known
      /\ \A q \in DOMAIN ns : known[q] = ns[q]
  BY <1>1, WithNodeFollows, WithNodeGood, WithNodeKeeps
<1> HIDE DEF known
<1>3. ASSUME pid = Init1, Init1 \in DOMAIN known
      PROVE  known[Init1].ppid = parent[Init1]
  BY <1>2, <1>3 DEF GoodTable, ProcInv
<1>4. CASE pid \notin DOMAIN known
  <2>1. Observed(ns, pid) = ns
    BY <1>4 DEF Observed, known
  <2>2. Follows(ns, ns)
    BY DEF Follows
  <2> QED BY <1>2, <1>4, <2>1, <2>2
<1>5. CASE pid \in DOMAIN known /\ pid \in alive /\ parent[pid] > 0
  <2>1. Observed(ns, pid) = linked
    BY <1>5 DEF Observed, known
  <2>2. pid # Init1 /\ parent[pid] \in Pids /\ parent[pid] \in 0..MaxPid
    <3>1. parent[pid] \in 0..MaxPid /\ parent[Init1] = 0 /\ MaxPid \in Nat
      BY PidFacts DEF ProcInv
    <3> QED BY <1>5, <3>1 DEF Pids
  <2>3. /\ GoodTable(linked) /\ DOMAIN known \subseteq DOMAIN linked /\ linked[pid].ppid = parent[pid]
        /\ \A d \in DOMAIN known : d # pid => linked[d].ppid = known[d].ppid
    BY <1>2, <1>5, <2>2, LinkedKeeps
  <2> HIDE DEF linked
  <2>4. Follows(known, linked)
    BY <2>3 DEF Follows
  <2> QED BY <1>2, <2>1, <2>3, <2>4, FollowsTransitive
<1>6. CASE pid \in DOMAIN known /\ ~(pid \in alive /\ parent[pid] > 0)
  <2>1. Observed(ns, pid) = known
    BY <1>6 DEF Observed, known
  <2>2. pid \in alive => pid = Init1
    BY <1>6 DEF ProcInv
  <2> QED BY <1>2, <1>3, <1>6, <2>1, <2>2
<1> QED BY <1>4, <1>5, <1>6

\* A look at all of /proc, one process after the other.
LEMMA RefreshedFollows ==
  ASSUME ProcInv, NEW ns, GoodTable(ns)
  PROVE  Follows(ns, Refreshed(ns))
<1> DEFINE D == {ms \in UNION {[S -> Nodes] : S \in SUBSET Pids} : Follows(ns, ms)}
           After(ms, p) == IF p \in alive THEN Observed(ms, p) ELSE ms
           step == [p \in 1..MaxPid |-> [ms \in D |-> After(ms, p)]]
           upTo == CHOOSE f : f = [p \in 0..MaxPid |->
                     IF p = 0 THEN ns ELSE IF p \in alive THEN Observed(f[p - 1], p) ELSE f[p - 1]]
<1>1. \A ms : Follows(ns, ms) => ms \in D
  BY DEF Follows, GoodTable, Table
<1>2. ns \in D
  <2>1. Follows(ns, ns)
    BY DEF Follows
  <2> QED BY <1>1, <2>1
<1>3. ASSUME NEW p \in 1..MaxPid, NEW ms \in D PROVE After(ms, p) \in D
  <2>1. GoodTable(ms) /\ Follows(ns, ms) /\ p \in Pids
    BY DEF Follows, Pids
  <2>2. Follows(ms, Observed(ms, p))
    BY <2>1, ObservedFollows
  <2>3. Follows(ns, Observed(ms, p))
    BY <2>1, <2>2, FollowsTransitive
  <2> QED BY <1>1, <2>3
<1> HIDE DEF D, After
<1>4. Steps(step, MaxPid, D)
  BY <1>3 DEF Steps
<1>5. MaxPid \in Nat
  BY PidFacts
<1>6. PICK f : Iterates(f, step, MaxPid, ns, D)
  <2> HIDE DEF step, upTo
  <2> QED BY <1>2, <1>4, <1>5, IterationExists
<1>7. \A p \in 1..MaxPid : f[p] = After(f[p - 1], p)
  <2> SUFFICES ASSUME NEW p \in 1..MaxPid PROVE f[p] = After(f[p - 1], p)
    OBVIOUS
  <2>1. p - 1 \in 0..MaxPid
    BY <1>5
  <2>2. f[p - 1] \in D /\ f[p] = step[p][f[p - 1]]
    BY <1>6, <2>1 DEF Iterates
  <2> QED BY <2>2
<1>8. f = [p \in 0..MaxPid |->
             IF p = 0 THEN ns ELSE IF p \in alive THEN Observed(f[p - 1], p) ELSE f[p - 1]]
  BY <1>5, <1>6, <1>7 DEF After, Iterates
<1>9. upTo = [p \in 0..MaxPid |->
                IF p = 0 THEN ns ELSE IF p \in alive THEN Observed(upTo[p - 1], p) ELSE upTo[p - 1]]
  BY <1>8
<1>10. Refreshed(ns) = upTo[MaxPid]
  BY DEF Refreshed
<1> HIDE DEF upTo
<1>11. \A p \in 0..MaxPid : upTo[p] \in D
  <2> DEFINE S == {p \in Nat : p <= MaxPid => upTo[p] \in D}
  <2>1. 0 \in S
    BY <1>2, <1>5, <1>9
  <2>2. ASSUME NEW p \in Nat, p \in S PROVE p + 1 \in S
    <3> SUFFICES ASSUME p + 1 <= MaxPid PROVE upTo[p + 1] \in D
      OBVIOUS
    <3>1. p + 1 \in 0..MaxPid /\ p + 1 \in 1..MaxPid /\ (p + 1) - 1 = p /\ upTo[p] \in D /\ p + 1 # 0
      BY <1>5, <2>2
    <3>2. upTo[p + 1] = IF p + 1 \in alive THEN Observed(upTo[p], p + 1) ELSE upTo[p]
      BY <1>9, <3>1
    <3> QED BY <1>3, <3>1, <3>2 DEF After
  <2>3. Nat \subseteq S
    <3> HIDE DEF S
    <3> QED BY <2>1, <2>2, NatInductionSet
  <2> QED BY <1>5, <2>3
<1>12. upTo[MaxPid] \in D
  BY <1>5, <1>11
<1> QED BY <1>10, <1>12 DEF D

\* A fork event enters its link, right or overtaken, and /proc corrects it.
LEMMA ForkFollows ==
  ASSUME ProcInv, NEW ns, GoodTable(ns), NEW p \in Pids, NEW c \in Pids, c # Init1
  PROVE  Follows(ns, ForkRecorded(ns, p, c))
<1> DEFINE known == WithNode(ns, c)
           linked == Linked(known, p, c)
           seen == Observed(linked, p)
           done == Observed(seen, c)
<1>1. Follows(ns, known) /\ GoodTable(known)
  BY WithNodeFollows, WithNodeGood
<1>2. CASE c \notin DOMAIN known
  <2>1. ForkRecorded(ns, p, c) = ns
    BY <1>2 DEF ForkRecorded
  <2> QED BY <2>1 DEF Follows
<1>3. CASE c \in DOMAIN known
  <2>1. ForkRecorded(ns, p, c) = done
    BY <1>3 DEF ForkRecorded
  <2> HIDE DEF known
  <2>2. /\ GoodTable(linked) /\ DOMAIN known \subseteq DOMAIN linked
        /\ \A d \in DOMAIN known : d # c => linked[d].ppid = known[d].ppid
    BY <1>1, <1>3, LinkedKeeps
  <2> HIDE DEF linked
  <2>3. Follows(linked, seen) /\ GoodTable(seen)
    BY <2>2, ObservedFollows DEF Follows
  <2> HIDE DEF seen
  <2>4. /\ Follows(seen, done)
        /\ c \in alive /\ c \in DOMAIN seen => done[c].ppid = parent[c]
    BY <2>3, ObservedFollows
  <2> HIDE DEF done
  <2>5. DOMAIN known \subseteq DOMAIN done /\ DOMAIN linked \subseteq DOMAIN seen /\ GoodTable(done)
    BY <2>2, <2>3, <2>4 DEF Follows
  <2>6. ASSUME NEW q \in DOMAIN known \intersect alive, known[q].ppid = parent[q]
        PROVE  done[q].ppid = parent[q]
    <3>1. CASE q = c
      BY <2>2, <2>4, <2>5, <2>6, <3>1
    <3>2. CASE q # c
      <4>1. q \in DOMAIN linked \intersect alive /\ linked[q].ppid = parent[q]
        BY <2>2, <2>6, <3>2
      <4>2. q \in DOMAIN seen \intersect alive /\ seen[q].ppid = parent[q]
        BY <2>3, <4>1 DEF Follows
      <4> QED BY <2>4, <4>2 DEF Follows
    <3> QED BY <3>1, <3>2
  <2>7. Follows(known, done)
    BY <2>5, <2>6 DEF Follows
  <2> QED BY <1>1, <2>1, <2>7, FollowsTransitive
<1> QED BY <1>2, <1>3

\* An exit event marks a node.
LEMMA ExitFollows ==
  ASSUME NEW ns, GoodTable(ns), NEW pid \in DOMAIN ns
  PROVE  Follows(ns, [ns EXCEPT ![pid].exited = TRUE])
<1> DEFINE marked == [ns EXCEPT ![pid].exited = TRUE]
<1>1. Table(ns) /\ ns = [d \in DOMAIN ns |-> ns[d]] /\ \A d \in DOMAIN ns : ns[d] \in Nodes
  BY DEF GoodTable, Table
<1>2. /\ DOMAIN marked = DOMAIN ns /\ marked[pid] = [ns[pid] EXCEPT !.exited = TRUE]
      /\ \A d \in DOMAIN ns : d # pid => marked[d] = ns[d]
      /\ marked = [d \in DOMAIN marked |-> marked[d]]
  BY <1>1
<1> HIDE DEF marked
<1>3. /\ marked[pid] \in Nodes /\ marked[pid].ppid = ns[pid].ppid
      /\ marked[pid].children = ns[pid].children
  <2>1. ns[pid] \in Nodes
    BY <1>1
  <2> QED BY <1>2, <2>1 DEF Nodes
<1>4. \A d \in DOMAIN ns : /\ marked[d] \in Nodes /\ marked[d].ppid = ns[d].ppid
                           /\ marked[d].children = ns[d].children
  BY <1>1, <1>2, <1>3
<1>5. Table(marked)
  <2>1. marked \in [DOMAIN marked -> Nodes]
    BY <1>2, <1>4
  <2> QED BY <1>1, <1>2, <1>4, <2>1 DEF Table
<1>6. ASSUME NEW c \in DOMAIN marked PROVE LinkKnown(marked, c)
  <2>1. LinkKnown(ns, c) /\ marked[c].ppid = ns[c].ppid /\ (Full(marked) <=> Full(ns))
    BY <1>2, <1>4 DEF GoodTable, Full
  <2> QED BY <1>2, <1>4, <2>1 DEF LinkKnown
<1>7. GoodTable(marked)
  BY <1>2, <1>4, <1>5, <1>6 DEF GoodTable
<1> QED BY <1>2, <1>4, <1>7 DEF Follows, marked

-----------------------------------------------------------------------------
(***************************************************************************)
(* The invariant                                                           *)
(***************************************************************************)
\* No fork creates init.
KernelEvents == {e \in Events : e.what = "fork" => e.child # Init1}

KernelInv ==
  /\ ProcInv /\ last \in Pids /\ forks \in 0..MaxForks
  /\ queue \in Seq(KernelEvents) /\ Len(queue) <= MaxQueue

\* A set of pids has a least one.
LEMMA MinIn ==
  ASSUME NEW u, u \subseteq Pids, u # {}
  PROVE  Min(u) \in u
<1> DEFINE S == {k \in Nat : \A y \in u : k <= y}
<1>1. u \subseteq Nat
  BY PidFacts DEF Pids
<1>2. 0 \in S
  BY <1>1
<1>3. PICK x \in u : x \in Nat
  BY <1>1
<1>4. x + 1 \in Nat /\ x + 1 \notin S
  BY <1>3
<1>5. PICK k \in Nat : k \in S /\ k + 1 \notin S
  <2> HIDE DEF S
  <2> QED BY <1>2, <1>4, NatInductionSet
<1>6. PICK y \in u : ~(k + 1 <= y)
  BY <1>5
<1>7. y = k /\ \A z \in u : y <= z
  BY <1>1, <1>5, <1>6
<1> QED BY <1>7 DEF Min

LEMMA IterationStays ==
  ASSUME NEW D, NEW n \in Nat, NEW g, g[0] \in D, \A k \in 1..n : g[k - 1] \in D => g[k] \in D
  PROVE  \A k \in 0..n : g[k] \in D
<1> DEFINE S == {k \in Nat : k <= n => g[k] \in D}
<1>1. 0 \in S
  OBVIOUS
<1>2. ASSUME NEW k \in Nat, k \in S PROVE k + 1 \in S
  <2> SUFFICES ASSUME k + 1 <= n PROVE g[k + 1] \in D
    OBVIOUS
  <2>1. k + 1 \in 1..n /\ (k + 1) - 1 = k /\ g[k] \in D
    BY <1>2
  <2> QED BY <2>1
<1>3. Nat \subseteq S
  <2> HIDE DEF S
  <2> QED BY <1>1, <1>2, NatInductionSet
<1> QED BY <1>3

\* The processes above one are pids.
LEMMA AboveTyped ==
  ASSUME ProcInv, NEW p \in Pids
  PROVE  Above(p) \subseteq Pids
<1> DEFINE D == 0..MaxPid
           step == [n \in 1..MaxPid |-> [q \in D |-> IF q = 0 THEN 0 ELSE parent[q]]]
           up == CHOOSE f : f = [n \in 0..MaxPid |->
                   IF n = 0 THEN p ELSE IF f[n - 1] = 0 THEN 0 ELSE parent[f[n - 1]]]
<1>1. MaxPid \in Nat /\ p \in D /\ Pids = D \ {0} /\ 0 \in D
  BY PidFacts DEF Pids
<1>2. \A q \in D : q # 0 => parent[q] \in D
  BY <1>1 DEF ProcInv
<1> HIDE DEF D
<1>3. Steps(step, MaxPid, D)
  BY <1>1, <1>2 DEF Steps
<1>4. PICK f : Iterates(f, step, MaxPid, p, D)
  <2> HIDE DEF step, up
  <2> QED BY <1>1, <1>3, IterationExists
<1>5. \A n \in 1..MaxPid : f[n] = IF f[n - 1] = 0 THEN 0 ELSE parent[f[n - 1]]
  <2> SUFFICES ASSUME NEW n \in 1..MaxPid PROVE f[n] = IF f[n - 1] = 0 THEN 0 ELSE parent[f[n - 1]]
    OBVIOUS
  <2>1. n - 1 \in 0..MaxPid
    BY <1>1
  <2>2. f[n - 1] \in D /\ f[n] = step[n][f[n - 1]]
    BY <1>4, <2>1 DEF Iterates
  <2> QED BY <2>2
<1>6. f = [n \in 0..MaxPid |-> IF n = 0 THEN p ELSE IF f[n - 1] = 0 THEN 0 ELSE parent[f[n - 1]]]
  BY SMTT(30), <1>1, <1>4, <1>5 DEF Iterates
<1>7. up = [n \in 0..MaxPid |-> IF n = 0 THEN p ELSE IF up[n - 1] = 0 THEN 0 ELSE parent[up[n - 1]]]
  BY <1>6
<1>8. Above(p) = {up[n] : n \in 1..MaxPid} \ {0}
  BY DEF Above
<1> HIDE DEF up
<1>9. \A n \in 0..MaxPid : up[n] \in D
  <2>1. up[0] \in D
    BY <1>1, <1>7
  <2>2. \A n \in 1..MaxPid : up[n] = IF up[n - 1] = 0 THEN 0 ELSE parent[up[n - 1]]
    BY <1>1, <1>7
  <2>3. \A n \in 1..MaxPid : up[n - 1] \in D => up[n] \in D
    BY <1>1, <1>2, <2>2
  <2> QED BY <1>1, <2>1, <2>3, IterationStays
<1> QED BY <1>1, <1>8, <1>9

\* An event more, or one less.
LEMMA QueuedTyped ==
  ASSUME KernelInv, NEW e \in KernelEvents
  PROVE  Queued(e) \in Seq(KernelEvents) /\ Len(Queued(e)) <= MaxQueue
<1>1. queue \in Seq(KernelEvents) /\ Len(queue) <= MaxQueue /\ MaxQueue \in Nat /\ Len(queue) \in Nat
  BY LineageAssumption DEF KernelInv
<1>2. Append(queue, e) \in Seq(KernelEvents) /\ Len(Append(queue, e)) = Len(queue) + 1
  BY <1>1, AppendProperties
<1> QED BY <1>1, <1>2 DEF Queued

LEMMA TailTyped ==
  ASSUME KernelInv, queue # <<>>
  PROVE  /\ Head(queue) \in KernelEvents
         /\ Tail(queue) \in Seq(KernelEvents) /\ Len(Tail(queue)) <= MaxQueue
<1>1. queue \in Seq(KernelEvents) /\ Len(queue) <= MaxQueue /\ MaxQueue \in Nat /\ Len(queue) \in Nat
  BY LineageAssumption DEF KernelInv
<1>2. /\ Head(queue) \in KernelEvents /\ Tail(queue) \in Seq(KernelEvents)
      /\ Len(Tail(queue)) = Len(queue) - 1
  BY <1>1, HeadTailProperties
<1> QED BY <1>1, <1>2

\* What an event carries.
LEMMA EventFields ==
  ASSUME NEW e \in KernelEvents
  PROVE  /\ e.what = "fork" => e.parent \in Pids /\ e.child \in Pids /\ e.child # Init1
         /\ e.what # "fork" => e.pid \in Pids
BY DEF KernelEvents, Events

LEMMA ForkKeepsKernel ==
  ASSUME KernelInv, NEW p \in Pids, Fork(p)
  PROVE  KernelInv'
<1> DEFINE c == Min(FreePids)
           e == [what |-> "fork", parent |-> p, child |-> c]
<1>1. /\ p \in alive /\ FreePids # {} /\ alive' = alive \union {c} /\ parent' = [parent EXCEPT ![c] = p]
      /\ queue' = Queued(e) /\ last' = c /\ forks < MaxForks /\ forks' = forks + 1
  BY DEF Fork
<1>2. FreePids \subseteq Pids \ alive
  BY DEF FreePids
<1>3. c \in Pids \ alive
  <2>1. FreePids \subseteq Pids
    BY <1>2
  <2>2. c \in FreePids
    BY <1>1, <2>1, MinIn
  <2> QED BY <1>2, <2>2
<1> HIDE DEF c
<1>4. c # Init1
  BY <1>3 DEF KernelInv, ProcInv
<1>5. e \in KernelEvents
  BY <1>3, <1>4 DEF KernelEvents, Events
<1> HIDE DEF e
<1>6. queue' \in Seq(KernelEvents) /\ Len(queue') <= MaxQueue
  BY <1>1, <1>5, QueuedTyped
<1>7. p \in 0..MaxPid /\ p > 0 /\ MaxPid \in Nat
  BY PidFacts DEF Pids
<1>8. parent' \in [Pids -> 0..MaxPid]
  BY <1>1, <1>3, <1>7 DEF KernelInv, ProcInv
<1>9. parent'[c] = p /\ \A q \in Pids : q # c => parent'[q] = parent[q]
  BY <1>1, <1>3 DEF KernelInv, ProcInv
<1>10. alive \subseteq Pids
  BY DEF KernelInv, ProcInv
<1>11. parent'[Init1] = 0 /\ \A q \in alive' \ {Init1} : parent'[q] > 0
  BY <1>1, <1>4, <1>7, <1>9, <1>10, PidFacts DEF KernelInv, ProcInv
<1>12. ProcInv'
  BY <1>1, <1>3, <1>8, <1>11 DEF KernelInv, ProcInv
<1>13. forks' \in 0..MaxForks
  <2>1. forks \in 0..MaxForks /\ MaxForks \in Nat
    BY LineageAssumption DEF KernelInv
  <2> QED BY <1>1, <2>1
<1>14. last' \in Pids
  BY <1>1, <1>3
<1> QED BY <1>6, <1>12, <1>13, <1>14 DEF KernelInv

LEMMA ExitKeepsKernel ==
  ASSUME KernelInv, NEW p \in Pids, Exit(p)
  PROVE  KernelInv'
<1> DEFINE e == [what |-> "exit", pid |-> p]
<1>1. /\ p \in alive \ {Init1} /\ alive' = alive \ {p} /\ queue' = Queued(e)
      /\ UNCHANGED <<last, forks>>
  BY DEF Exit
<1>2. PICK reaper \in Above(p) :
        parent' = [c \in Pids |-> IF c = p THEN 0 ELSE IF parent[c] = p THEN reaper ELSE parent[c]]
  BY DEF Exit
<1>3. reaper \in Pids /\ reaper \in 0..MaxPid /\ reaper > 0
  <2>1. reaper \in Pids /\ MaxPid \in Nat
    BY AboveTyped, PidFacts DEF KernelInv
  <2> QED BY <2>1 DEF Pids
<1>4. e \in KernelEvents
  BY DEF KernelEvents, Events
<1> HIDE DEF e
<1>5. queue' \in Seq(KernelEvents) /\ Len(queue') <= MaxQueue
  BY <1>1, <1>4, QueuedTyped
<1>6. alive \subseteq Pids /\ parent \in [Pids -> 0..MaxPid] /\ 0 \in 0..MaxPid /\ p # 0
  BY PidFacts DEF KernelInv, ProcInv
<1>7. parent' \in [Pids -> 0..MaxPid]
  BY <1>2, <1>3, <1>6
<1>8. parent'[Init1] = 0
  BY <1>1, <1>2, <1>6, PidFacts DEF KernelInv, ProcInv
<1>9. ASSUME NEW q \in alive' \ {Init1} PROVE parent'[q] > 0
  <2>1. q \in alive \ {Init1} /\ q # p /\ q \in Pids /\ parent[q] > 0
    BY <1>1, <1>6 DEF KernelInv, ProcInv
  <2>2. parent'[q] = IF parent[q] = p THEN reaper ELSE parent[q]
    BY <1>2, <2>1
  <2> QED BY <1>3, <2>1, <2>2
<1>10. ProcInv'
  BY <1>1, <1>6, <1>7, <1>8, <1>9 DEF KernelInv, ProcInv
<1> QED BY <1>1, <1>5, <1>10 DEF KernelInv

\* What the daemon does follows its table, and the kernel does not touch it.
LEMMA DaemonFollows ==
  ASSUME KernelInv, GoodTable(nodes), Daemon
  PROVE  Follows(nodes, nodes') /\ KernelInv' /\ UNCHANGED <<alive, parent>>
<1>1. ProcInv
  BY DEF KernelInv
<1>2. ASSUME UNCHANGED <<alive, parent, last, forks>>,
             queue' \in Seq(KernelEvents), Len(queue') <= MaxQueue
      PROVE  KernelInv'
  BY <1>2 DEF KernelInv, ProcInv
<1>3. ASSUME UNCHANGED kernel PROVE KernelInv' /\ UNCHANGED <<alive, parent>>
  BY <1>3 DEF kernel, KernelInv, ProcInv
<1>4. CASE RecordFork
  <2> DEFINE e == Head(queue)
  <2>1. /\ queue # <<>> /\ e.what = "fork" /\ nodes' = ForkRecorded(nodes, e.parent, e.child)
        /\ queue' = Tail(queue) /\ UNCHANGED <<alive, parent, last, forks>>
    BY <1>4 DEF RecordFork, Event
  <2>2. e.parent \in Pids /\ e.child \in Pids /\ e.child # Init1
    BY <2>1, TailTyped, EventFields
  <2> QED BY <1>1, <1>2, <2>1, <2>2, TailTyped, ForkFollows
<1>5. CASE RecordExec
  <2> DEFINE e == Head(queue)
  <2>1. /\ queue # <<>> /\ e.what = "exec" /\ nodes' = Observed(nodes, e.pid)
        /\ queue' = Tail(queue) /\ UNCHANGED <<alive, parent, last, forks>>
    BY <1>5 DEF RecordExec, Event
  <2>2. e.pid \in Pids
    BY <2>1, TailTyped, EventFields
  <2> QED BY <1>1, <1>2, <2>1, <2>2, TailTyped, ObservedFollows
<1>6. CASE RecordExit
  <2> DEFINE e == Head(queue)
             known == WithNode(nodes, e.pid)
  <2>1. /\ queue # <<>> /\ e.what = "exit"
        /\ nodes' = IF e.pid \in DOMAIN known THEN [known EXCEPT ![e.pid].exited = TRUE] ELSE nodes
        /\ queue' = Tail(queue) /\ UNCHANGED <<alive, parent, last, forks>>
    BY <1>6 DEF RecordExit, Event
  <2>2. e.pid \in Pids
    BY <2>1, TailTyped, EventFields
  <2>3. Follows(nodes, known) /\ GoodTable(known)
    BY <2>2, WithNodeFollows, WithNodeGood
  <2>4. Follows(nodes, nodes')
    <3>1. CASE e.pid \in DOMAIN known
      <4>1. Follows(known, nodes')
        BY <2>1, <2>3, <3>1, ExitFollows
      <4> QED BY <2>3, <4>1, FollowsTransitive
    <3>2. CASE e.pid \notin DOMAIN known
      BY <2>1, <3>2 DEF Follows
    <3> QED BY <3>1, <3>2
  <2> QED BY <1>2, <2>1, <2>4, TailTyped
<1>7. CASE Refresh
  BY <1>1, <1>3, <1>7, RefreshedFollows DEF Refresh
<1>8. ASSUME NEW pid \in Pids, WriteCase(pid) PROVE Follows(nodes, nodes') /\ UNCHANGED kernel
  <2>1. nodes' = Observed(Refreshed(nodes), pid) /\ UNCHANGED kernel
    BY <1>8 DEF WriteCase
  <2>2. Follows(nodes, Refreshed(nodes))
    BY <1>1, RefreshedFollows
  <2>3. Follows(Refreshed(nodes), nodes')
    BY <1>1, <2>1, <2>2, ObservedFollows DEF Follows
  <2> QED BY <2>1, <2>2, <2>3, FollowsTransitive
<1> QED BY <1>3, <1>4, <1>5, <1>6, <1>7, <1>8 DEF Daemon, ReadEvent

LineageInv == KernelInv /\ GoodTable(nodes)

LEMMA LineageInit == Init => LineageInv
<1> SUFFICES ASSUME Init PROVE LineageInv
  OBVIOUS
<1>1. /\ alive = {Init1, 2} /\ parent = [p \in Pids |-> IF p = 2 THEN Init1 ELSE 0]
      /\ queue = <<>> /\ last = 2 /\ forks = 0 /\ nodes = Refreshed(<<>>)
  BY DEF Init
<1>2. 2 \in Pids /\ MaxForks \in Nat /\ MaxQueue \in Nat
  BY LineageAssumption DEF Pids
<1>3. ProcInv
  BY <1>1, <1>2, PidFacts DEF ProcInv, Init1
<1>4. queue \in Seq(KernelEvents) /\ Len(queue) = 0
  BY <1>1
<1>5. KernelInv
  BY <1>1, <1>2, <1>3, <1>4 DEF KernelInv
<1>6. GoodTable(<<>>)
  <2>1. DOMAIN <<>> = {} /\ Cardinality({}) = 0
    BY FS_EmptySet
  <2>2. <<>> \in [DOMAIN <<>> -> Nodes]
    BY <2>1
  <2>3. Cardinality(DOMAIN <<>>) <= MaxNodes
    BY <2>1, PidFacts
  <2> QED BY <2>1, <2>2, <2>3 DEF GoodTable, Table
<1>7. GoodTable(Refreshed(<<>>))
  BY <1>3, <1>6, RefreshedFollows DEF Follows
<1> QED BY <1>1, <1>5, <1>7 DEF LineageInv

LEMMA LineageNext == LineageInv /\ [Next]_vars => LineageInv'
<1> SUFFICES ASSUME LineageInv, [Next]_vars PROVE LineageInv'
  OBVIOUS
<1>1. KernelInv /\ GoodTable(nodes)
  BY DEF LineageInv
<1>2. ASSUME NEW p \in Pids, Exec(p) PROVE KernelInv' /\ UNCHANGED nodes
  <2>1. [what |-> "exec", pid |-> p] \in KernelEvents
    BY DEF KernelEvents, Events
  <2> QED BY <1>1, <1>2, <2>1, QueuedTyped DEF Exec, KernelInv, ProcInv
<1>3. ASSUME NEW p \in Pids, Exit(p) PROVE KernelInv' /\ UNCHANGED nodes
  BY <1>1, <1>3, ExitKeepsKernel DEF Exit
<1>4. ASSUME NEW p \in Pids, Fork(p) PROVE KernelInv' /\ UNCHANGED nodes
  BY <1>1, <1>4, ForkKeepsKernel DEF Fork
<1>5. CASE Daemon
  BY <1>1, <1>5, DaemonFollows DEF Follows, LineageInv
<1>6. CASE UNCHANGED vars
  BY <1>1, <1>6 DEF vars, kernel, KernelInv, ProcInv, LineageInv
<1> QED BY <1>1, <1>2, <1>3, <1>4, <1>5, <1>6 DEF Next, Kernel, LineageInv

LEMMA LineageAlways == Spec => []LineageInv
BY LineageInit, LineageNext, PTL DEF Spec

-----------------------------------------------------------------------------
(***************************************************************************)
(* Theorems                                                                *)
(***************************************************************************)
\* The table of nodes, the lists of children and the queue stay within their sizes
\* (create_node, add_child).
THEOREM LineageTypeCorrect == Spec => []TypeOK
<1>1. LineageInv => TypeOK
  <2> SUFFICES ASSUME LineageInv PROVE TypeOK
    OBVIOUS
  <2>1. KernelEvents \subseteq Events
    BY DEF KernelEvents
  <2>2. queue \in Seq(Events)
    <3>1. queue \in Seq(KernelEvents)
      BY DEF LineageInv, KernelInv
    <3> QED BY <2>1, <3>1
  <2> QED BY <2>2 DEF LineageInv, KernelInv, ProcInv, GoodTable, Table, TypeOK
<1> QED BY <1>1, LineageAlways, PTL

\* A parent link is one that the parent knows of, unless a table was full (rw_lineage_observe_pid).
THEOREM ParentsKnowChildren == Spec => []ParentKnowsChild
<1>1. LineageInv => ParentKnowsChild
  BY DEF LineageInv, GoodTable, LinkKnown, ParentKnowsChild
<1> QED BY <1>1, LineageAlways, PTL

\* What the daemon does spoils no link that is right (rw_lineage_record_fork).
THEOREM LinksAreKept == Spec => LinksStayCurrent
<1>1. LineageInv /\ [Next]_vars =>
        [UNCHANGED <<alive, parent>> => \A p \in Pids : Current(p) => Current(p)']_vars
  <2> SUFFICES ASSUME LineageInv, Next, UNCHANGED <<alive, parent>>, NEW p \in Pids, Current(p)
               PROVE  Current(p)'
    OBVIOUS
  <2>1. CASE Kernel
    <3>1. UNCHANGED nodes
      BY <2>1 DEF Kernel, Exec, Exit, Fork
    <3> QED BY <3>1 DEF Current
  <2>2. CASE Daemon
    <3>1. Follows(nodes, nodes')
      BY <2>2, DaemonFollows DEF LineageInv
    <3> QED BY <3>1 DEF Follows, Current
  <2> QED BY <2>1, <2>2 DEF Next
<1> QED BY <1>1, LineageAlways, PTL DEF Spec, LinksStayCurrent

-----------------------------------------------------------------------------
(***************************************************************************)
(* The walks                                                               *)
(***************************************************************************)
\* One parent link, 0 where there is none.
LinkOf(q) ==
  LET r == IF q = 0 THEN 0 ELSE nodes[q].ppid IN IF r \in DOMAIN nodes THEN r ELSE 0

LEMMA UpSteps ==
  ASSUME Table(nodes), NEW pid
  PROVE  /\ Up(pid)[0] = IF pid \in DOMAIN nodes THEN pid ELSE 0
         /\ \A n \in 1..MaxDepth : Up(pid)[n] = LinkOf(Up(pid)[n - 1])
         /\ \A n \in 0..MaxDepth : Up(pid)[n] \in DOMAIN nodes \union {0}
<1> DEFINE D == DOMAIN nodes \union {0}
           start == IF pid \in DOMAIN nodes THEN pid ELSE 0
           step == [n \in 1..MaxDepth |-> [q \in D |-> LinkOf(q)]]
           up == CHOOSE f : f = [n \in 0..MaxDepth |->
                   IF n = 0 THEN (IF pid \in DOMAIN nodes THEN pid ELSE 0)
                   ELSE LET q == IF f[n - 1] = 0 THEN 0 ELSE nodes[f[n - 1]].ppid
                        IN  IF q \in DOMAIN nodes THEN q ELSE 0]
<1>1. MaxDepth \in Nat /\ start \in D
  BY LineageAssumption
<1>2. \A q : LinkOf(q) \in D
  BY DEF LinkOf
<1> HIDE DEF D
<1>3. Steps(step, MaxDepth, D)
  BY <1>2 DEF Steps
<1>4. PICK f : Iterates(f, step, MaxDepth, start, D)
  <2> HIDE DEF step, up, start
  <2> QED BY <1>1, <1>3, IterationExists
<1>5. \A n \in 1..MaxDepth : f[n] = LinkOf(f[n - 1])
  <2> SUFFICES ASSUME NEW n \in 1..MaxDepth PROVE f[n] = LinkOf(f[n - 1])
    OBVIOUS
  <2>1. n - 1 \in 0..MaxDepth
    BY <1>1
  <2>2. f[n - 1] \in D /\ f[n] = step[n][f[n - 1]]
    BY <1>4, <2>1 DEF Iterates
  <2> QED BY <2>2
<1>6. f = [n \in 0..MaxDepth |-> IF n = 0 THEN start ELSE LinkOf(f[n - 1])]
  BY SMTT(30), <1>1, <1>4, <1>5 DEF Iterates
<1>7. up = [n \in 0..MaxDepth |-> IF n = 0 THEN start ELSE LinkOf(up[n - 1])]
  BY <1>6 DEF LinkOf
<1>8. Up(pid) = up
  BY DEF Up
<1> HIDE DEF up, start
<1>9. up[0] = start /\ \A n \in 1..MaxDepth : up[n] = LinkOf(up[n - 1])
  <2>1. 0 \in 0..MaxDepth /\ \A n \in 1..MaxDepth : n \in 0..MaxDepth /\ n # 0
    BY <1>1
  <2> QED BY <1>7, <2>1
<1>10. \A n \in 0..MaxDepth : up[n] \in D
  <2>1. \A n \in 1..MaxDepth : up[n - 1] \in D => up[n] \in D
    BY <1>2, <1>9
  <2> QED BY <1>1, <1>9, <2>1, IterationStays
<1> QED BY <1>8, <1>9, <1>10 DEF D, start

\* Descendants of root, n entries below it.
Below(ps) == (UNION {nodes[p].children : p \in ps}) \intersect DOMAIN nodes

LEMMA BelowMember ==
  ASSUME NEW ps, NEW d
  PROVE  d \in Below(ps) <=> d \in DOMAIN nodes /\ \E p \in ps : d \in nodes[p].children
BY DEF Below

Level(root) ==
  CHOOSE f : f = [n \in 0..MaxDepth |->
    IF n = 0 THEN {root} \intersect DOMAIN nodes
    ELSE (UNION {nodes[p].children : p \in f[n - 1]}) \intersect DOMAIN nodes]

LEMMA LevelSteps ==
  ASSUME Table(nodes), NEW root
  PROVE  /\ Level(root)[0] = {root} \intersect DOMAIN nodes
         /\ \A n \in 1..MaxDepth : Level(root)[n] = Below(Level(root)[n - 1])
         /\ FamilyTree(root) = UNION {Level(root)[n] : n \in 0..MaxDepth}
<1> DEFINE D == SUBSET DOMAIN nodes
           start == {root} \intersect DOMAIN nodes
           step == [n \in 1..MaxDepth |-> [ps \in D |-> Below(ps)]]
           level == Level(root)
<1>1. MaxDepth \in Nat /\ start \in D
  BY LineageAssumption
<1>2. \A ps : Below(ps) \in D
  <2> SUFFICES ASSUME NEW ps PROVE Below(ps) \subseteq DOMAIN nodes
    OBVIOUS
  <2> QED BY BelowMember
<1> HIDE DEF D
<1>3. Steps(step, MaxDepth, D)
  BY <1>2 DEF Steps
<1>4. PICK f : Iterates(f, step, MaxDepth, start, D)
  <2> HIDE DEF step, level, start
  <2> QED BY <1>1, <1>3, IterationExists
<1>5. \A n \in 1..MaxDepth : f[n] = Below(f[n - 1])
  <2> SUFFICES ASSUME NEW n \in 1..MaxDepth PROVE f[n] = Below(f[n - 1])
    OBVIOUS
  <2>1. n - 1 \in 0..MaxDepth
    BY <1>1
  <2>2. f[n - 1] \in D /\ f[n] = step[n][f[n - 1]]
    BY <1>4, <2>1 DEF Iterates
  <2> QED BY <2>2
<1>6. f = [n \in 0..MaxDepth |-> IF n = 0 THEN start ELSE Below(f[n - 1])]
  BY <1>1, <1>4, <1>5 DEF Iterates
<1>7. level = [n \in 0..MaxDepth |-> IF n = 0 THEN start ELSE Below(level[n - 1])]
  BY <1>6 DEF Level, Below
<1>8. FamilyTree(root) = UNION {level[n] : n \in 0..MaxDepth}
  BY DEF FamilyTree, Level
<1> HIDE DEF level, start
<1>9. level[0] = start /\ \A n \in 1..MaxDepth : level[n] = Below(level[n - 1])
  <2>1. 0 \in 0..MaxDepth /\ \A n \in 1..MaxDepth : n \in 0..MaxDepth /\ n # 0
    BY <1>1
  <2> QED BY <1>7, <2>1
<1> QED BY <1>8, <1>9 DEF level, start

\* RootSteps exists: a walk stops below init, at a node without a parent, or at MaxDepth.
LEMMA RootStepsFacts ==
  ASSUME Table(nodes), NEW pid
  PROVE  /\ RootSteps(pid) \in 0..MaxDepth
         /\ \A i \in 1..RootSteps(pid) : Up(pid)[i] \notin {0, Init1}
         /\ RootSteps(pid) = MaxDepth \/ Up(pid)[RootSteps(pid) + 1] \in {0, Init1}
<1> DEFINE Stays(n) == \A i \in 1..n : Up(pid)[i] \notin {0, Init1}
           S == {n \in Nat : n <= MaxDepth /\ Stays(n)}
<1>1. MaxDepth \in Nat
  BY LineageAssumption
<1>2. 0 \in S
  BY <1>1
<1>3. MaxDepth + 1 \in Nat /\ MaxDepth + 1 \notin S
  BY <1>1
<1>4. PICK n \in Nat : n \in S /\ n + 1 \notin S
  <2> HIDE DEF S
  <2> QED BY <1>2, <1>3, NatInductionSet
<1>5. n \in 0..MaxDepth /\ Stays(n) /\ (n = MaxDepth \/ ~Stays(n + 1))
  BY <1>1, <1>4
<1>6. n = MaxDepth \/ Up(pid)[n + 1] \in {0, Init1}
  <2>1. \A i \in 1..(n + 1) : i \in 1..n \/ i = n + 1
    BY <1>4
  <2> QED BY <1>5, <2>1
<1> HIDE DEF S
<1>7. \E k \in 0..MaxDepth :
        /\ \A i \in 1..k : Up(pid)[i] \notin {0, Init1}
        /\ k = MaxDepth \/ Up(pid)[k + 1] \in {0, Init1}
  BY <1>5, <1>6
<1> QED BY <1>7 DEF RootSteps

\* The children of a node's children are one level further down.
LEMMA LevelBelow ==
  ASSUME Table(nodes), NEW q \in DOMAIN nodes, NEW b \in nodes[q].children, b \in DOMAIN nodes,
         NEW m \in Nat, m + 1 <= MaxDepth
  PROVE  Level(b)[m] \subseteq Level(q)[m + 1]
<1> DEFINE S == {k \in Nat : k + 1 <= MaxDepth => Level(b)[k] \subseteq Level(q)[k + 1]}
<1>0. MaxDepth \in Nat /\ MaxDepth >= 1
  BY LineageAssumption
<1>1. 0 \in S
  <2>1. Level(q)[1] = Below(Level(q)[0]) /\ Level(q)[0] = {q} /\ Level(b)[0] = {b}
    <3>1. 1 \in 1..MaxDepth /\ 1 - 1 = 0
      BY <1>0
    <3> QED BY <3>1, LevelSteps
  <2>2. b \in Level(q)[1]
    BY <2>1, BelowMember
  <2> QED BY <2>1, <2>2
<1>2. ASSUME NEW k \in Nat, k \in S PROVE k + 1 \in S
  <2> SUFFICES ASSUME (k + 1) + 1 <= MaxDepth PROVE Level(b)[k + 1] \subseteq Level(q)[(k + 1) + 1]
    OBVIOUS
  <2>1. /\ k + 1 \in 1..MaxDepth /\ (k + 1) - 1 = k /\ (k + 1) + 1 \in 1..MaxDepth
        /\ ((k + 1) + 1) - 1 = k + 1 /\ k + 1 <= MaxDepth
    BY <1>0
  <2>2. /\ Level(b)[k + 1] = Below(Level(b)[k])
        /\ Level(q)[(k + 1) + 1] = Below(Level(q)[k + 1])
    BY <2>1, LevelSteps
  <2>3. Level(b)[k] \subseteq Level(q)[k + 1]
    BY <1>2, <2>1
  <2>4. Below(Level(b)[k]) \subseteq Below(Level(q)[k + 1])
    BY <2>3, BelowMember
  <2> QED BY <2>2, <2>4
<1>3. Nat \subseteq S
  <2> HIDE DEF S
  <2> QED BY <1>1, <1>2, NatInductionSet
<1> QED BY <1>3

\* Whom a walk up from pid meets has pid in its tree, when no list of children is full.
LEMMA MetIsBelow ==
  ASSUME GoodTable(nodes),
         \A p \in DOMAIN nodes : Cardinality(nodes[p].children) < MaxChildren,
         NEW pid \in DOMAIN nodes, NEW n \in 0..MaxDepth, Up(pid)[n] # 0
  PROVE  pid \in FamilyTree(Up(pid)[n])
<1> DEFINE Found(k) == \E m \in 0..k : pid \in Level(Up(pid)[k])[m]
           S == {k \in Nat : k <= MaxDepth /\ Up(pid)[k] # 0 => Found(k)}
<1>0. MaxDepth \in Nat /\ Table(nodes) /\ 0 \notin DOMAIN nodes
  BY LineageAssumption, PidFacts DEF GoodTable, Table
<1>1. 0 \in S
  <2>1. Up(pid)[0] = pid
    BY <1>0, UpSteps
  <2>2. pid \in Level(pid)[0]
    BY <1>0, LevelSteps
  <2>3. 0 \in 0..0
    OBVIOUS
  <2> QED BY <2>1, <2>2, <2>3
<1>2. ASSUME NEW k \in Nat, k \in S PROVE k + 1 \in S
  <2> SUFFICES ASSUME k + 1 <= MaxDepth, Up(pid)[k + 1] # 0 PROVE Found(k + 1)
    OBVIOUS
  <2> DEFINE b == Up(pid)[k]
             q == Up(pid)[k + 1]
  <2>1. k + 1 \in 1..MaxDepth /\ (k + 1) - 1 = k /\ k \in 0..MaxDepth /\ k + 1 \in 0..MaxDepth
    BY <1>0
  <2>2. q = LinkOf(b) /\ q \in DOMAIN nodes /\ b \in DOMAIN nodes \union {0}
    BY <1>0, <2>1, UpSteps
  <2>3. b # 0 /\ q = nodes[b].ppid
    BY <1>0, <2>2 DEF LinkOf
  <2>4. PICK m \in 0..k : pid \in Level(b)[m]
    BY <1>2, <2>1, <2>3
  <2>5. CASE q = b
    <3>1. m \in 0..(k + 1)
      BY <2>4
    <3> QED BY <2>4, <2>5, <3>1
  <2>6. CASE q # b
    <3> HIDE DEF b, q
    <3>1. LinkKnown(nodes, b) /\ b \in DOMAIN nodes
      BY <2>2, <2>3 DEF GoodTable
    <3>2. ~(Cardinality(nodes[q].children) >= MaxChildren)
      <4>1. nodes[q].children \subseteq Pids /\ Cardinality(nodes[q].children) < MaxChildren
        BY <1>0, <2>2, NodeFields
      <4>2. Cardinality(nodes[q].children) \in Nat /\ MaxChildren \in Nat
        BY <4>1, PidFacts
      <4> QED BY <4>1, <4>2
    <3>3. b \in nodes[q].children
      BY <1>0, <2>2, <2>3, <2>6, <3>1, <3>2 DEF LinkKnown
    <3>4. m \in Nat /\ m + 1 <= MaxDepth /\ m + 1 \in 0..(k + 1)
      BY <1>0, <2>4, <2>1
    <3>5. pid \in Level(q)[m + 1]
      BY <1>0, <2>2, <2>4, <3>1, <3>3, <3>4, LevelBelow
    <3> QED BY <3>4, <3>5 DEF q
  <2> QED BY <2>5, <2>6
<1>3. Nat \subseteq S
  <2> HIDE DEF S
  <2> QED BY <1>1, <1>2, NatInductionSet
<1>4. PICK m \in 0..n : pid \in Level(Up(pid)[n])[m]
  BY <1>0, <1>3
<1>5. m \in 0..MaxDepth
  BY <1>0
<1>6. FamilyTree(Up(pid)[n]) = UNION {Level(Up(pid)[n])[k] : k \in 0..MaxDepth}
  BY <1>0, LevelSteps
<1> QED BY <1>4, <1>5, <1>6

\* The root of a case is met by the walk from it.
LEMMA RootIsMet ==
  ASSUME Table(nodes), NEW case \in DOMAIN nodes
  PROVE  CaseRoot(case) = Up(case)[RootSteps(case)] /\ CaseRoot(case) \in DOMAIN nodes
<1>1. /\ RootSteps(case) \in 0..MaxDepth /\ MaxDepth \in Nat
      /\ \A i \in 1..RootSteps(case) : Up(case)[i] \notin {0, Init1}
  BY LineageAssumption, RootStepsFacts
<1>2. CaseRoot(case) = Up(case)[RootSteps(case)]
  BY DEF CaseRoot
<1>3. Up(case)[RootSteps(case)] \in DOMAIN nodes \union {0}
  BY <1>1, UpSteps
<1>4. 0 \notin DOMAIN nodes
  BY PidFacts DEF Table
<1>5. CASE RootSteps(case) = 0
  BY <1>2, <1>5, UpSteps
<1>6. CASE RootSteps(case) # 0
  <2>1. RootSteps(case) \in 1..RootSteps(case)
    BY <1>1, <1>6
  <2> QED BY <1>1, <1>2, <1>3, <2>1
<1> QED BY <1>5, <1>6

\* The tree of a case shows the case and all that lineage.tsv lists below its root, unless a list
\* of children is full (write_family_tree, case_root_for_pid, is_ancestor_of).
THEOREM TreesAreComplete == Spec => []TreeComplete
<1>1. LineageInv => TreeComplete
  <2> SUFFICES ASSUME GoodTable(nodes),
                      \A p \in DOMAIN nodes : Cardinality(nodes[p].children) < MaxChildren,
                      NEW case \in DOMAIN nodes,
                      NEW pid \in {case} \union {d \in Manifest(case) : IsAncestorOf(CaseRoot(case), d)}
               PROVE  pid \in FamilyTree(CaseRoot(case))
    BY DEF LineageInv, TreeComplete
  <2>1. Table(nodes) /\ MaxDepth \in Nat /\ 0 \notin DOMAIN nodes
    BY LineageAssumption, PidFacts DEF GoodTable, Table
  <2>2. CaseRoot(case) = Up(case)[RootSteps(case)] /\ CaseRoot(case) \in DOMAIN nodes
    BY <2>1, RootIsMet
  <2>3. CASE pid = case
    <3>1. RootSteps(case) \in 0..MaxDepth
      BY <2>1, RootStepsFacts
    <3> QED BY <2>1, <2>2, <2>3, <3>1, MetIsBelow
  <2>4. CASE pid # case
    <3>1. pid \in DOMAIN nodes /\ IsAncestorOf(CaseRoot(case), pid)
      BY <2>4 DEF Manifest
    <3>2. PICK n \in 0..(MaxDepth - 1) : Up(pid)[n] = CaseRoot(case)
      BY <3>1 DEF IsAncestorOf
    <3>3. n \in 0..MaxDepth /\ Up(pid)[n] # 0
      BY <2>1, <2>2, <3>2
    <3> QED BY <3>1, <3>2, <3>3, MetIsBelow
  <2> QED BY <2>3, <2>4
<1> QED BY <1>1, LineageAlways, PTL

\* A walk that has come to init or past it does not come back.
LEMMA EndsStay ==
  ASSUME GoodTable(nodes), NEW pid, NEW k \in Nat, k <= MaxDepth, Up(pid)[k] \in {0, Init1},
         NEW n \in Nat, k <= n, n <= MaxDepth
  PROVE  Up(pid)[n] \in {0, Init1}
<1> DEFINE Ended(m) == Up(pid)[m] \in {0, Init1}
           S == {m \in Nat : k <= m /\ m <= MaxDepth => Ended(m)}
<1>1. MaxDepth \in Nat /\ Table(nodes) /\ 0 \notin DOMAIN nodes
  BY LineageAssumption, PidFacts DEF GoodTable, Table
<1>2. 0 \in S
  <2>1. k <= 0 => k = 0
    OBVIOUS
  <2> QED BY <2>1
<1>3. ASSUME NEW m \in Nat, m \in S PROVE m + 1 \in S
  <2> SUFFICES ASSUME k <= m + 1, m + 1 <= MaxDepth PROVE Ended(m + 1)
    OBVIOUS
  <2>1. CASE k = m + 1
    BY <2>1
  <2>2. CASE k # m + 1
    <3>1. k <= m /\ m <= MaxDepth /\ m + 1 \in 1..MaxDepth /\ (m + 1) - 1 = m /\ m \in 0..MaxDepth
      BY <1>1, <2>2
    <3>2. Up(pid)[m] \in {0, Init1}
      BY <1>3, <3>1
    <3>3. Up(pid)[m + 1] = LinkOf(Up(pid)[m]) /\ Up(pid)[m] \in DOMAIN nodes \union {0}
      BY <1>1, <3>1, UpSteps
    <3>4. \A q \in DOMAIN nodes \union {0} : q \in {0, Init1} => LinkOf(q) = 0
      BY <1>1 DEF LinkOf, GoodTable
    <3> QED BY <3>2, <3>3, <3>4
  <2> QED BY <2>1, <2>2
<1>4. Nat \subseteq S
  <2> HIDE DEF S
  <2> QED BY <1>2, <1>3, NatInductionSet
<1> QED BY <1>4

\* Two walks that meet go on together.
LEMMA WalksJoin ==
  ASSUME Table(nodes), NEW p, NEW q, NEW i \in Nat, NEW j \in Nat, Up(p)[i] = Up(q)[j],
         NEW t \in Nat, i + t <= MaxDepth, j + t <= MaxDepth
  PROVE  Up(p)[i + t] = Up(q)[j + t]
<1> DEFINE S == {m \in Nat : i + m <= MaxDepth /\ j + m <= MaxDepth => Up(p)[i + m] = Up(q)[j + m]}
<1>1. MaxDepth \in Nat
  BY LineageAssumption
<1>2. 0 \in S
  <2>1. i + 0 = i /\ j + 0 = j
    OBVIOUS
  <2> QED BY <2>1
<1>3. ASSUME NEW m \in Nat, m \in S PROVE m + 1 \in S
  <2> SUFFICES ASSUME i + (m + 1) <= MaxDepth, j + (m + 1) <= MaxDepth
               PROVE  Up(p)[i + (m + 1)] = Up(q)[j + (m + 1)]
    OBVIOUS
  <2>1. /\ i + m <= MaxDepth /\ j + m <= MaxDepth
        /\ i + (m + 1) \in 1..MaxDepth /\ (i + (m + 1)) - 1 = i + m
        /\ j + (m + 1) \in 1..MaxDepth /\ (j + (m + 1)) - 1 = j + m
    BY <1>1
  <2>2. Up(p)[i + m] = Up(q)[j + m]
    BY <1>3, <2>1
  <2>3. /\ Up(p)[i + (m + 1)] = LinkOf(Up(p)[i + m])
        /\ Up(q)[j + (m + 1)] = LinkOf(Up(q)[j + m])
    BY <2>1, UpSteps
  <2> QED BY <2>2, <2>3
<1>4. Nat \subseteq S
  <2> HIDE DEF S
  <2> QED BY <1>2, <1>3, NatInductionSet
<1> QED BY <1>4

\* The root of a case is an ancestor of every process that has an ancestor below init in common
\* with it, although one walk counts links and the other nodes (case_root_for_pid, is_ancestor_of).
THEOREM RelativesAreRelated == Spec => []RelativesRelated
<1>1. LineageInv => RelativesRelated
  <2> SUFFICES ASSUME GoodTable(nodes), NEW case \in DOMAIN nodes, NEW pid \in DOMAIN nodes,
                      NEW ancestor \in DOMAIN nodes, ancestor # Init1,
                      IsAncestorOf(ancestor, case), IsAncestorOf(ancestor, pid),
                      ~(RootSteps(pid) >= MaxDepth)
               PROVE  IsAncestorOf(CaseRoot(case), pid)
    BY DEF LineageInv, RelativesRelated, IsRelated
  <2> DEFINE R == RootSteps(case)
             Q == RootSteps(pid)
  <2>1. Table(nodes) /\ MaxDepth \in Nat /\ MaxDepth >= 1 /\ ancestor \notin {0, Init1}
    BY LineageAssumption, PidFacts DEF GoodTable, Table
  <2>2. PICK i \in 0..(MaxDepth - 1) : Up(case)[i] = ancestor
    BY DEF IsAncestorOf
  <2>3. PICK j \in 0..(MaxDepth - 1) : Up(pid)[j] = ancestor
    BY DEF IsAncestorOf
  <2>4. /\ R \in 0..MaxDepth /\ \A k \in 1..R : Up(case)[k] \notin {0, Init1}
        /\ R = MaxDepth \/ Up(case)[R + 1] \in {0, Init1}
    BY <2>1, RootStepsFacts
  <2>5. /\ Q \in 0..MaxDepth
        /\ Q = MaxDepth \/ Up(pid)[Q + 1] \in {0, Init1}
    BY <2>1, RootStepsFacts
  <2>6. CaseRoot(case) = Up(case)[R]
    BY <2>1, RootIsMet
  <2> HIDE DEF R
  <2>7. Q < MaxDepth /\ Up(pid)[Q + 1] \in {0, Init1}
    BY <2>1, <2>5
  <2> HIDE DEF Q
  <2>8. i <= R
    <3> SUFFICES ASSUME R < i PROVE FALSE
      BY <2>4
    <3>1. R + 1 \in Nat /\ R + 1 <= i /\ R + 1 <= MaxDepth /\ R # MaxDepth /\ i \in Nat /\ i <= MaxDepth
      BY <2>1, <2>4
    <3>2. Up(case)[i] \in {0, Init1}
      BY <2>4, <3>1, EndsStay
    <3> QED BY <2>1, <2>2, <3>2
  <2>9. j <= Q
    <3> SUFFICES ASSUME Q < j PROVE FALSE
      BY <2>5
    <3>1. Q + 1 \in Nat /\ Q + 1 <= j /\ Q + 1 <= MaxDepth /\ j \in Nat /\ j <= MaxDepth
      BY <2>1, <2>5
    <3>2. Up(pid)[j] \in {0, Init1}
      BY <2>7, <3>1, EndsStay
    <3> QED BY <2>1, <2>3, <3>2
  <2>10. j + (R - i) <= Q
    <3> SUFFICES ASSUME Q < j + (R - i) PROVE FALSE
      BY <2>4, <2>5
    <3> DEFINE t == (Q + 1) - j
    <3>1. /\ t \in Nat /\ i + t \in 1..R /\ i + t <= MaxDepth /\ j + t = Q + 1 /\ j + t <= MaxDepth
          /\ i \in Nat /\ j \in Nat
      BY <2>1, <2>4, <2>5, <2>7, <2>9
    <3> HIDE DEF t
    <3>2. Up(case)[i + t] = Up(pid)[j + t]
      BY <2>1, <2>2, <2>3, <3>1, WalksJoin
    <3> QED BY <2>4, <2>7, <3>1, <3>2
  <2> DEFINE s == R - i
  <2>11. /\ s \in Nat /\ i + s = R /\ i + s <= MaxDepth /\ j + s \in 0..(MaxDepth - 1)
         /\ j + s <= MaxDepth /\ i \in Nat /\ j \in Nat
    BY <2>1, <2>4, <2>5, <2>7, <2>8, <2>10
  <2> HIDE DEF s
  <2>12. Up(pid)[j + s] = CaseRoot(case)
    <3>1. Up(case)[i + s] = Up(pid)[j + s]
      BY <2>1, <2>2, <2>3, <2>11, WalksJoin
    <3>2. i + s = R
      BY <2>11
    <3> QED BY <2>6, <3>1, <3>2
  <2> QED BY <2>11, <2>12 DEF IsAncestorOf
<1> QED BY <1>1, LineageAlways, PTL
=============================================================================
