------------------------------- MODULE LogRotate -------------------------------
(***************************************************************************)
(* One log file of src/src/core/util.c and its archives.  write_line       *)
(* rotates a file that has reached its size before it writes: the oldest   *)
(* archive is unlinked, the others are renamed one by one, and the file is *)
(* opened anew.  The process may crash between any two of these calls.     *)
(***************************************************************************)
EXTENDS Integers, SequencesExt

CONSTANTS
  ArchiveCounts, \* values of --log-archives
  MaxBytes,      \* g_log_max_bytes, greater than 0
  LineSize,      \* LineSize[n]: length of the nth line that is written
  MaxCrashes,    \* bound on the crashes
  MaxFailures    \* bound on the times a file cannot be opened

VARIABLES
  archives,  \* g_log_archives
  disk,      \* disk[i]: the lines of archive i, in 0 those of the log; only for files there are
  fp,        \* the file is open
  pc,        \* the next call of write_line; "down" without a process
  moving,    \* the archive that is renamed next
  written,   \* history: the number of lines that were written
  crashes, failures

vars == <<archives, disk, fp, pc, moving, written, crashes, failures>>

Files    == DOMAIN disk
MaxLines == Len(LineSize)
Size(f)  == FoldLeft(LAMBDA sum, l : sum + LineSize[l], 0, f)

Init ==
  /\ archives \in ArchiveCounts
  /\ disk = [i \in {} |-> <<>>]
  /\ fp = FALSE
  /\ pc = "down"
  /\ moving = 0
  /\ written = 0
  /\ crashes = 0 /\ failures = 0

Without(i)   == [f \in Files \ {i} |-> disk[f]]
\* rename replaces the file that has the new name; without the old one it fails and does nothing.
Renamed(i, j) ==
  IF i \in Files THEN [f \in (Files \ {i}) \union {j} |-> IF f = j THEN disk[i] ELSE disk[f]]
  ELSE disk

\* The log after fopen(path, "a"), and with one line more.
Opened        == [f \in Files \union {0} |-> IF f \in Files THEN disk[f] ELSE <<>>]
Extended(d)   == [d EXCEPT ![0] = Append(@, written + 1)]

\* Mutant of NeedsRotation: a file of exactly the size is not rotated.
NeedsRotationAbove == Size(disk[0]) > MaxBytes

\* The test of rotate_if_needed.
NeedsRotation == Size(disk[0]) >= MaxBytes

\* open_log_file, when the process starts.
Start ==
  /\ pc = "down"
  /\ pc' = "idle"
  /\ \/ disk' = Opened /\ fp' = TRUE /\ UNCHANGED failures
     \/ /\ failures < MaxFailures /\ failures' = failures + 1
        /\ UNCHANGED <<disk, fp>>
  /\ UNCHANGED <<archives, moving, written, crashes>>

\* A line into a file that is open and below its size; without an open file nothing happens.
WriteLine ==
  /\ pc = "idle" /\ fp /\ ~NeedsRotation
  /\ written < MaxLines
  /\ disk' = Extended(disk)
  /\ written' = written + 1
  /\ UNCHANGED <<archives, fp, pc, moving, crashes, failures>>

BeginRotation ==
  /\ pc = "idle" /\ fp /\ NeedsRotation
  /\ written < MaxLines
  /\ fp' = FALSE
  /\ pc' = IF archives < 1 THEN "truncate" ELSE "unlink"
  /\ UNCHANGED <<archives, disk, moving, written, crashes, failures>>

\* fopen(path, "w") and the line.
Truncate ==
  /\ pc = "truncate"
  /\ pc' = "idle"
  /\ \/ /\ fp' = TRUE
        /\ disk' = Extended([disk EXCEPT ![0] = <<>>])
        /\ written' = written + 1
        /\ UNCHANGED failures
     \/ /\ failures < MaxFailures /\ failures' = failures + 1
        /\ UNCHANGED <<fp, disk, written>>
  /\ UNCHANGED <<archives, moving, crashes>>

UnlinkOldest ==
  /\ pc = "unlink"
  /\ disk' = Without(archives)
  /\ pc' = "rename" /\ moving' = archives - 1
  /\ UNCHANGED <<archives, fp, written, crashes, failures>>

\* Mutant of Rename: the archives are renamed from the newest to the oldest.
RenameUpwards ==
  /\ pc = "rename" /\ moving >= 0
  /\ disk' = Renamed(archives - 1 - moving, archives - moving)
  /\ moving' = moving - 1
  /\ UNCHANGED <<archives, fp, pc, written, crashes, failures>>

\* One turn of the loop over the archives, and in the end the file itself.
Rename ==
  /\ pc = "rename" /\ moving >= 0
  /\ disk' = Renamed(moving, moving + 1)
  /\ moving' = moving - 1
  /\ UNCHANGED <<archives, fp, pc, written, crashes, failures>>

\* fopen(path, "a") and, when it succeeds, the line; else the sink stays silent.
Reopen ==
  /\ pc = "rename" /\ moving < 0
  /\ pc' = "idle"
  /\ \/ /\ fp' = TRUE
        /\ disk' = Extended(Opened)
        /\ written' = written + 1
        /\ UNCHANGED failures
     \/ /\ failures < MaxFailures /\ failures' = failures + 1
        /\ UNCHANGED <<fp, disk, written>>
  /\ UNCHANGED <<archives, moving, crashes>>

\* What was written is on the disk: every line is flushed.
Crash ==
  /\ pc # "down"
  /\ crashes < MaxCrashes
  /\ crashes' = crashes + 1
  /\ pc' = "down" /\ fp' = FALSE
  /\ UNCHANGED <<archives, disk, moving, written, failures>>

Next ==
  \/ Start \/ WriteLine \/ BeginRotation \/ Truncate
  \/ UnlinkOldest \/ Rename \/ Reopen \/ Crash

Spec == Init /\ [][Next]_vars

-----------------------------------------------------------------------------
(***************************************************************************)
(* Properties                                                              *)
(***************************************************************************)
\* Everything on the disk, the oldest archive first.
History == FlattenSeq([i \in 1..(archives + 1) |->
             IF archives + 1 - i \in Files THEN disk[archives + 1 - i] ELSE <<>>])

\* Read from the oldest archive to the log, the files hold the lines in the order in which they
\* were written, none twice, none missing between two others, wherever the process crashed; and
\* whatever is gone, the files that are left are worth all archives but one for each crash.
HistoryIsKept ==
  LET n == Len(History)
  IN  /\ History = [i \in 1..n |-> written - n + i]
      /\ n = written \/ Size(History) >= (archives - crashes) * MaxBytes

\* No file outgrows its size by more than the line that reached it, after any crash.
DiskIsBounded ==
  /\ Files \subseteq 0..archives
  /\ \A f \in Files : disk[f] # <<>> =>
       Size(disk[f]) - LineSize[disk[f][Len(disk[f])]] < MaxBytes
=============================================================================
