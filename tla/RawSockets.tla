------------------------------ MODULE RawSockets ------------------------------
(***************************************************************************)
(* The scan for raw and packet sockets of src/src/net/netmon.c.  A round   *)
(* of the daemon collects which process holds which socket, then reads     *)
(* three tables of the kernel, finds the owner of each row and alerts once *)
(* for an owner and a socket, as far as its cache remembers them.          *)
(***************************************************************************)
EXTENDS Integers, Sequences, FiniteSets

CONSTANTS
  Pids,        \* a set of numbers; /proc lists them in their order
  Sockets,     \* sockets, which have an inode each
  TableOf,     \* TableOf[s]: the table that lists s
  MaxOwners,   \* RW_MAX_ITEMS
  CacheSize,   \* RW_RAW_ALERT_CACHE
  MaxChanges   \* bound: sockets opened, inherited and closed

VARIABLES
  holders,   \* holders[s]: the processes that have a descriptor of s
  opened,    \* sockets that have been opened; an inode is not given again
  changes,   \* how often holders has changed
  owners,    \* the snapshot: pairs of a process and an inode
  tables,    \* tables the scan has still to read; <<>> between two scans
  rows,      \* the inodes read from the table at hand, its rows to come
  cache,     \* g_raw_alerts
  alerts     \* history: alerts for a process and a socket, 2 for two or more

rvars == <<holders, opened, changes, owners, tables, rows, cache, alerts>>

Tables  == <<"raw4", "raw6", "packet">>
NoInode == "reference count"

Init ==
  /\ holders = [s \in Sockets |-> {}]
  /\ opened = {} /\ changes = 0
  /\ owners = {} /\ tables = <<>> /\ rows = <<>>
  /\ cache = {}
  /\ alerts = [k \in Pids \X Sockets |-> 0]

-----------------------------------------------------------------------------
(***************************************************************************)
(* Processes                                                               *)
(***************************************************************************)
SetHolders(s, ps) ==
  /\ changes < MaxChanges
  /\ holders' = [holders EXCEPT ![s] = ps]
  /\ changes' = changes + 1
  /\ UNCHANGED <<owners, tables, rows, cache, alerts>>

OpenSocket(p, s) ==
  /\ s \notin opened
  /\ opened' = opened \union {s}
  /\ SetHolders(s, {p})

\* A child inherits a descriptor, or gets it by a message.
Inherit(p, s) ==
  /\ holders[s] # {} /\ p \notin holders[s]
  /\ SetHolders(s, holders[s] \union {p})
  /\ UNCHANGED opened

CloseSocket(p, s) ==
  /\ p \in holders[s]
  /\ SetHolders(s, holders[s] \ {p})
  /\ UNCHANGED opened

Environment == \E p \in Pids, s \in Sockets : OpenSocket(p, s) \/ Inherit(p, s) \/ CloseSocket(p, s)

-----------------------------------------------------------------------------
(***************************************************************************)
(* The scan                                                                *)
(***************************************************************************)
Holdings == {k \in Pids \X Sockets : k[1] \in holders[k[2]]}

\* rw_collect_inode_owners: the descriptors of one process after the other, until the buffer is
\* full.
Collected(own) ==
  /\ own \subseteq Holdings
  /\ Cardinality(own) = IF Cardinality(Holdings) < MaxOwners THEN Cardinality(Holdings) ELSE MaxOwners
  /\ \A k \in own, l \in Holdings \ own : k[1] <= l[1]

Snapshot ==
  /\ tables = <<>> /\ rows = <<>>
  /\ \E own \in SUBSET Holdings : Collected(own) /\ owners' = own
  /\ tables' = Tables
  /\ UNCHANGED <<holders, opened, changes, rows, cache, alerts>>

\* The number that the scan takes for the inode of a row.  scan_packet_file takes the last token,
\* which is the inode.  scan_raw_file takes the eleventh, which is the reference count that
\* follows the inode.
InodeRead(s) == IF TableOf[s] = "packet" THEN s ELSE NoInode

\* fopen and fgets of a table: the rows, in some order.
ReadTable ==
  /\ tables # <<>> /\ rows = <<>>
  /\ LET listed == {s \in Sockets : holders[s] # {} /\ TableOf[s] = Head(tables)}
         n == Cardinality(listed)
     IN  \E order \in [1..n -> listed] :
           /\ \A i, j \in 1..n : order[i] = order[j] => i = j
           /\ rows' = [i \in 1..n |-> InodeRead(order[i])]
  /\ tables' = Tail(tables)
  /\ UNCHANGED <<holders, opened, changes, owners, cache, alerts>>

\* find_owner_by_inode
OwnersOf(inode) == {p \in Pids : <<p, inode>> \in owners}
FirstOwner(inode) == CHOOSE p \in OwnersOf(inode) : \A q \in OwnersOf(inode) : p <= q

\* Mutant of Remembered: the oldest entry makes room.
RememberedRing(k) == IF Cardinality(cache) < CacheSize THEN cache \union {k}
                     ELSE (cache \ {CHOOSE l \in cache : TRUE}) \union {k}

\* raw_alert_seen for a key that is not in the cache.
Remembered(k) == IF Cardinality(cache) < CacheSize THEN cache \union {k} ELSE cache

\* Mutant of ScanRow: the socket is remembered before its owner is looked for.
ScanRowRemembersFirst ==
  /\ rows # <<>>
  /\ rows' = Tail(rows)
  /\ LET i == Head(rows)
     IN  IF i = NoInode \/ \E p \in Pids : <<p, i>> \in cache
         THEN UNCHANGED <<cache, alerts>>
         ELSE IF OwnersOf(i) = {}
              THEN cache' = cache \union {<<CHOOSE p \in Pids : TRUE, i>>} /\ UNCHANGED alerts
              ELSE /\ cache' = Remembered(<<FirstOwner(i), i>>)
                   /\ alerts' = [alerts EXCEPT ![<<FirstOwner(i), i>>] = IF @ < 2 THEN @ + 1 ELSE @]
  /\ UNCHANGED <<holders, opened, changes, owners, tables>>

\* The body of the loops of scan_raw_file and scan_packet_file.  What an alert does to the score
\* and the case is RawSocketAlert of ScoreCase.
ScanRow ==
  /\ rows # <<>>
  /\ rows' = Tail(rows)
  /\ LET k == <<FirstOwner(Head(rows)), Head(rows)>>
     IN  IF OwnersOf(Head(rows)) = {} \/ k \in cache
         THEN UNCHANGED <<cache, alerts>>
         ELSE /\ cache' = Remembered(k)
              /\ alerts' = [alerts EXCEPT ![k] = IF @ < 2 THEN @ + 1 ELSE @]
  /\ UNCHANGED <<holders, opened, changes, owners, tables>>

Scan == Snapshot \/ ReadTable \/ ScanRow
Next == Environment \/ Scan

Spec == Init /\ [][Next]_rvars /\ WF_rvars(Scan)

-----------------------------------------------------------------------------
(***************************************************************************)
(* Properties                                                              *)
(***************************************************************************)
\* A process is accused again of the same socket only when the cache has no room for it: then
\* every round accuses, scores and stops it.
RepeatOnlyWhenFull ==
  \A k \in DOMAIN alerts : alerts[k] = 2 => k \notin cache /\ Cardinality(cache) = CacheSize

\* A socket that stays open is alerted on in the end, although the snapshot and the table are
\* read at different times; as long as the descriptors of all processes fit into the snapshot.
StaysOpen(s) == <>[](holders[s] # {} /\ Cardinality(Holdings) <= MaxOwners)
IsAlerted(s) == <>(\E p \in Pids : alerts[<<p, s>>] > 0)

PacketSocketIsAlerted == \A s \in Sockets : TableOf[s] = "packet" => (StaysOpen(s) => IsAlerted(s))

\* The same of raw sockets, which the comment in scan_raw_file and the README promise.
RawSocketIsAlerted == \A s \in Sockets : TableOf[s] # "packet" => (StaysOpen(s) => IsAlerted(s))
=============================================================================
