------------------------------- MODULE Lineage -------------------------------
(***************************************************************************)
(* The process lineage of src/src/core/lineage.c and the fork, exec and    *)
(* exit events of src/src/platform/proc_events.c that feed it, next to the *)
(* kernel they describe.                                                   *)
(*                                                                         *)
(* The daemon learns of processes from two sources that do not agree in    *)
(* time: the events, which are queued, read late and lost when the socket  *)
(* is full, and /proc, which is read now.  A node is never removed, so the *)
(* links of a process that is gone stay, also when its pid is used again.  *)
(***************************************************************************)
EXTENDS Integers, FiniteSets, SequencesExt

CONSTANTS
  MaxPid,       \* the pids are 1..MaxPid, 1 is init
  MaxNodes,     \* RW_LINEAGE_MAX_NODES
  MaxChildren,  \* RW_LINEAGE_MAX_CHILDREN
  MaxDepth,     \* RW_LINEAGE_MAX_DEPTH
  MaxQueue,     \* process events that the socket holds
  PidReuse,     \* whether the kernel gives the pid of a gone process to a new one
  MaxForks      \* bound: forks in a behaviour

\* Every constant has its type, and there is a first process besides init.
ASSUME LineageAssumption ==
  /\ MaxPid \in Nat /\ MaxPid >= 2 /\ MaxNodes \in Nat /\ MaxChildren \in Nat
  /\ MaxDepth \in Nat \ {0} /\ MaxQueue \in Nat /\ MaxForks \in Nat
  /\ PidReuse \in BOOLEAN

VARIABLES
  alive,   \* processes that have a directory in /proc
  parent,  \* PPid of each of them
  queue,   \* process events not yet read
  last,    \* the pid given out last; the kernel gives out pids in a circle
  forks,   \* forks so far (bounds the behaviour)
  nodes    \* g_nodes, as a function on the pids that have a node

kernel == <<alive, parent, queue, last, forks>>
vars == <<kernel, nodes>>

Pids == 1..MaxPid
Init1 == 1

Nodes  == [ppid : 0..MaxPid, children : SUBSET Pids, exited : BOOLEAN]
Events == [what : {"fork"}, parent : Pids, child : Pids] \union [what : {"exec", "exit"}, pid : Pids]

-----------------------------------------------------------------------------
(***************************************************************************)
(* The table of nodes                                                      *)
(***************************************************************************)
FreshNode == [ppid |-> 0, children |-> {}, exited |-> FALSE]

Full(ns) == Cardinality(DOMAIN ns) >= MaxNodes

\* get_or_create_node: the table is as before when it is full.
WithNode(ns, pid) ==
  IF pid \in DOMAIN ns \/ Full(ns) THEN ns
  ELSE [p \in DOMAIN ns \union {pid} |-> IF p = pid THEN FreshNode ELSE ns[p]]

\* Mutant of WithChild: the list of children has no end.
WithChildUnbounded(ns, p, c) ==
  LET known == WithNode(ns, p)
  IN  IF p = c THEN ns
      ELSE IF p \notin DOMAIN known \/ c \in known[p].children THEN known
      ELSE [known EXCEPT ![p].children = @ \union {c}]

\* add_child
WithChild(ns, p, c) ==
  LET known == WithNode(ns, p)
  IN  IF p = c THEN ns
      ELSE IF \/ p \notin DOMAIN known
              \/ c \in known[p].children
              \/ Cardinality(known[p].children) >= MaxChildren THEN known
      ELSE [known EXCEPT ![p].children = @ \union {c}]

\* Mutant of Linked: the child is entered without its parent link.
LinkedOneWay(ns, p, c) == [ns EXCEPT ![c].ppid = p]

\* A node's parent link, and its entry among the children of that parent.
Linked(ns, p, c) == WithChild([ns EXCEPT ![c].ppid = p], p, c)

\* Mutant of Observed: a node that is known is not looked at again.
ObservedOnce(ns, pid) ==
  LET known == WithNode(ns, pid)
  IN  IF pid \in DOMAIN ns \/ pid \notin DOMAIN known THEN ns
      ELSE IF pid \in alive /\ parent[pid] > 0 THEN Linked(known, parent[pid], pid)
      ELSE known

\* rw_lineage_observe_pid: a process that is gone has no status to read.
Observed(ns, pid) ==
  LET known == WithNode(ns, pid)
  IN  IF pid \notin DOMAIN known THEN ns
      ELSE IF pid \in alive /\ parent[pid] > 0 THEN Linked(known, parent[pid], pid)
      ELSE known

\* rw_lineage_refresh_procfs: the processes in the order of /proc, which is that of their pids.
Refreshed(ns) ==
  LET upTo[p \in 0..MaxPid] ==
        IF p = 0 THEN ns ELSE IF p \in alive THEN Observed(upTo[p - 1], p) ELSE upTo[p - 1]
  IN  upTo[MaxPid]

-----------------------------------------------------------------------------
(***************************************************************************)
(* The walks over the table                                                *)
(***************************************************************************)
\* The node reached from pid over n parent links, 0 when there is none.
Up(pid) ==
  LET up[n \in 0..MaxDepth] ==
        IF n = 0 THEN (IF pid \in DOMAIN nodes THEN pid ELSE 0)
        ELSE LET q == IF up[n - 1] = 0 THEN 0 ELSE nodes[up[n - 1]].ppid
             IN  IF q \in DOMAIN nodes THEN q ELSE 0
  IN  up

\* is_ancestor_of looks at MaxDepth nodes, the first of which is pid itself.
IsAncestorOf(ancestor, pid) == \E n \in 0..(MaxDepth - 1) : Up(pid)[n] = ancestor

\* Parent links that case_root_for_pid follows: it stops below init and at MaxDepth.
RootSteps(pid) ==
  CHOOSE n \in 0..MaxDepth :
    /\ \A i \in 1..n : Up(pid)[i] \notin {0, Init1}
    /\ n = MaxDepth \/ Up(pid)[n + 1] \in {0, Init1}

\* Mutant of CaseRoot: it stops one step early.
CaseRootEarly(pid) ==
  IF pid \in DOMAIN nodes /\ RootSteps(pid) > 0 THEN Up(pid)[RootSteps(pid) - 1] ELSE pid

\* case_root_for_pid
CaseRoot(pid) == IF pid \in DOMAIN nodes THEN Up(pid)[RootSteps(pid)] ELSE pid

\* rw_lineage_is_related
IsRelated(case, pid) ==
  \/ case = pid
  \/ CaseRoot(case) = pid
  \/ IsAncestorOf(pid, case)
  \/ IsAncestorOf(CaseRoot(case), pid)

\* The pids in lineage.tsv and tree_manifest.tsv of a case.
Manifest(case) == {pid \in DOMAIN nodes : IsRelated(case, pid)}

\* Mutant of FamilyTree: the depth limit is taken one level too early.
FamilyTreeShallow(root) ==
  LET level[n \in 0..(MaxDepth - 1)] ==
        IF n = 0 THEN {root} \intersect DOMAIN nodes
        ELSE (UNION {nodes[p].children : p \in level[n - 1]}) \intersect DOMAIN nodes
  IN  UNION {level[n] : n \in 0..(MaxDepth - 1)}

\* The pids that write_family_tree prints, down to depth MaxDepth.
FamilyTree(root) ==
  LET level[n \in 0..MaxDepth] ==
        IF n = 0 THEN {root} \intersect DOMAIN nodes
        ELSE (UNION {nodes[p].children : p \in level[n - 1]}) \intersect DOMAIN nodes
  IN  UNION {level[n] : n \in 0..MaxDepth}

-----------------------------------------------------------------------------
(***************************************************************************)
(* The kernel.  Processes have one thread, and leave /proc when they exit. *)
(***************************************************************************)
\* The socket drops what it cannot hold.
Queued(event) == IF Len(queue) < MaxQueue THEN Append(queue, event) ELSE queue

\* Pids wrap around only with PidReuse.
FreePids == LET later == {c \in Pids \ alive : c > last}
            IN  IF later # {} \/ ~PidReuse THEN later ELSE Pids \ alive

Fork(p) ==
  /\ forks < MaxForks
  /\ p \in alive
  /\ FreePids # {}
  /\ LET c == Min(FreePids) IN
       /\ alive' = alive \union {c}
       /\ parent' = [parent EXCEPT ![c] = p]
       /\ queue' = Queued([what |-> "fork", parent |-> p, child |-> c])
       /\ last' = c
  /\ forks' = forks + 1
  /\ UNCHANGED nodes

Exec(p) ==
  /\ p \in alive
  /\ queue' = Queued([what |-> "exec", pid |-> p])
  /\ UNCHANGED <<alive, parent, last, forks, nodes>>

\* The processes above p; orphans go to init or to one of them that asked for orphans.
Above(p) ==
  LET up[n \in 0..MaxPid] == IF n = 0 THEN p ELSE IF up[n - 1] = 0 THEN 0 ELSE parent[up[n - 1]]
  IN  {up[n] : n \in 1..MaxPid} \ {0}

Exit(p) ==
  /\ p \in alive \ {Init1}
  /\ \E reaper \in Above(p) :
       parent' = [c \in Pids |-> IF c = p THEN 0 ELSE IF parent[c] = p THEN reaper ELSE parent[c]]
  /\ alive' = alive \ {p}
  /\ queue' = Queued([what |-> "exit", pid |-> p])
  /\ UNCHANGED <<last, forks, nodes>>

-----------------------------------------------------------------------------
(***************************************************************************)
(* The daemon                                                              *)
(***************************************************************************)
Event(what) == queue # <<>> /\ Head(queue).what = what

\* Mutant of ForkRecorded: what the event says is entered last.
ForkRecordedLast(ns, p, c) ==
  LET known == WithNode(ns, c)
  IN  IF c \notin DOMAIN known THEN ns
      ELSE Linked(Observed(Observed(known, p), c), p, c)

\* rw_lineage_record_fork: what the event says, then what /proc says of both.
ForkRecorded(ns, p, c) ==
  LET known == WithNode(ns, c)
  IN  IF c \notin DOMAIN known THEN ns
      ELSE Observed(Observed(Linked(known, p, c), p), c)

RecordFork ==
  /\ Event("fork")
  /\ nodes' = ForkRecorded(nodes, Head(queue).parent, Head(queue).child)
  /\ queue' = Tail(queue)
  /\ UNCHANGED <<alive, parent, last, forks>>

RecordExec ==
  /\ Event("exec")
  /\ nodes' = Observed(nodes, Head(queue).pid)
  /\ queue' = Tail(queue)
  /\ UNCHANGED <<alive, parent, last, forks>>

\* rw_lineage_record_exit: the mark is never taken back.
RecordExit ==
  /\ Event("exit")
  /\ LET pid == Head(queue).pid
         known == WithNode(nodes, pid)
     IN  nodes' = IF pid \in DOMAIN known THEN [known EXCEPT ![pid].exited = TRUE] ELSE nodes
  /\ queue' = Tail(queue)
  /\ UNCHANGED <<alive, parent, last, forks>>

\* Once per round of the main loop.
Refresh ==
  /\ nodes' = Refreshed(nodes)
  /\ UNCHANGED kernel

\* rw_lineage_write_case, up to the files it writes.
WriteCase(pid) ==
  /\ nodes' = Observed(Refreshed(nodes), pid)
  /\ UNCHANGED kernel

ReadEvent == RecordFork \/ RecordExec \/ RecordExit
Daemon == ReadEvent \/ Refresh \/ \E pid \in Pids : WriteCase(pid)
Kernel == \E p \in Pids : Exec(p) \/ Exit(p) \/ Fork(p)

\* The daemon starts with a refresh, on a machine that runs init and one process of it.
Init ==
  /\ alive = {Init1, 2}
  /\ parent = [p \in Pids |-> IF p = 2 THEN Init1 ELSE 0]
  /\ queue = <<>>
  /\ last = 2
  /\ forks = 0
  /\ nodes = Refreshed(<<>>)

Next == Kernel \/ Daemon

Spec == Init /\ [][Next]_vars

\* The main loop comes round again: it refreshes, and reads the socket until it is empty.
Fairness == WF_vars(Refresh) /\ WF_vars(ReadEvent)
FairSpec == Spec /\ Fairness

-----------------------------------------------------------------------------
(***************************************************************************)
(* Properties                                                              *)
(***************************************************************************)
\* The tables stay within their sizes and every node is well formed.
TypeOK ==
  /\ alive \subseteq Pids /\ Init1 \in alive
  /\ parent \in [Pids -> 0..MaxPid] /\ last \in Pids /\ forks \in 0..MaxForks
  /\ queue \in Seq(Events) /\ Len(queue) <= MaxQueue
  /\ DOMAIN nodes \subseteq Pids /\ Cardinality(DOMAIN nodes) <= MaxNodes
  /\ nodes \in [DOMAIN nodes -> Nodes]
  /\ \A p \in DOMAIN nodes : Cardinality(nodes[p].children) <= MaxChildren

\* A parent link and the children of that parent agree, whatever events were lost, delayed or
\* contradicted by /proc, unless a table was full.  The converse is not true: an entry among
\* the children outlives the link.
ParentKnowsChild ==
  \A c \in DOMAIN nodes :
    LET p == nodes[c].ppid IN
      \/ p \in {0, c}
      \/ p \notin DOMAIN nodes /\ Full(nodes)
      \/ p \in DOMAIN nodes /\ c \in nodes[p].children
      \/ p \in DOMAIN nodes /\ Cardinality(nodes[p].children) >= MaxChildren

\* process_tree.txt, which follows children down, shows the suspicious process and every
\* process below the root that lineage.tsv, which follows parents up, lists for the case, also
\* when the table of nodes is full, unless the list of children of a process is.
TreeComplete ==
  (\A p \in DOMAIN nodes : Cardinality(nodes[p].children) < MaxChildren)
  => \A case \in DOMAIN nodes :
       LET root == CaseRoot(case) IN
         {case} \union {pid \in Manifest(case) : IsAncestorOf(root, pid)} \subseteq FamilyTree(root)

\* Two processes with a common ancestor below init are related, in spite of the different
\* conditions that end the two walks, unless the second is MaxDepth levels down.
RelativesRelated ==
  \A ancestor \in DOMAIN nodes \ {Init1} :
    LET below == {pid \in DOMAIN nodes : IsAncestorOf(ancestor, pid)} IN
      \A case, pid \in below : IsRelated(case, pid) \/ RootSteps(pid) >= MaxDepth

\* A parent link that agrees with the kernel.
Current(pid) == pid \in alive /\ pid \in DOMAIN nodes /\ nodes[pid].ppid = parent[pid]

\* What the daemon does never makes a link of a running process wrong that was right, also
\* when it reads events that are long overtaken.
LinksStayCurrent ==
  [][UNCHANGED <<alive, parent>> => \A p \in Pids : Current(p) => Current(p)']_vars

\* When no more processes start or end, the daemon's picture of the running ones is right for
\* good, whatever events were lost.
EventuallyCurrent ==
  <>[](\A p \in alive \ {Init1} : Current(p) \/ Full(nodes))
=============================================================================
