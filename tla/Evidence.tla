------------------------------- MODULE Evidence -------------------------------
(***************************************************************************)
(* The copy of an executable that a case or an inspection keeps, and its   *)
(* hash: rw_copy_file and rw_sha256_file of src/src/core/util.c, with the  *)
(* buffering and padding of src/src/crypto/sha256.c.  The compression      *)
(* function is left out: what is hashed is the sequence of blocks.         *)
(***************************************************************************)
EXTENDS Integers, Sequences, SequencesExt

CONSTANTS
  MaxLength,    \* bound: bytes of an executable
  CopySize,     \* RW_COPY_BUF_SIZE
  HashSize,     \* the 65536 bytes of the buffer of rw_sha256_file
  BlockSize,    \* the 64 bytes of a block
  FieldSize,    \* the 8 bytes of the length
  MaxShort      \* bound: short reads and short writes

\* The bytes of an executable are pairwise different: byte n stands in place n.  The numbers that
\* the padding writes are kept apart from them.
Byte(n)   == [byte |-> n]
Number(n) == [number |-> n]

VARIABLES
  exe,      \* the executable, which nobody can write while it runs
  dump,     \* its copy, a file of the case
  chunk,    \* what the buffer still holds to be written
  from,     \* bytes read from the file at hand
  pc,       \* "copy", "hash", "done"
  data,     \* ctx->data
  datalen,  \* ctx->datalen
  bitlen,   \* ctx->bitlen
  blocks,   \* the blocks that were given to sha256_transform
  hashed,   \* whether exe.sha256 has been written
  short,    \* number of short reads and writes
  readError \* whether reading the copy has failed

evars == <<exe, dump, chunk, from, pc, data, datalen, bitlen, blocks, hashed, short, readError>>

Places == 0..(BlockSize - 1)

Init ==
  /\ exe \in {[i \in 1..n |-> Byte(i)] : n \in 0..MaxLength}
  /\ dump = <<>> /\ chunk = <<>> /\ from = 0 /\ pc = "copy"
  /\ data = [i \in Places |-> Number(0)]
  /\ datalen = 0 /\ bitlen = 0 /\ blocks = <<>>
  /\ hashed = FALSE /\ short = 0 /\ readError = FALSE

Least(m, n) == IF m < n THEN m ELSE n

\* The call returns n bytes where full are possible.
Returns(n, full) ==
  /\ n < full => short < MaxShort
  /\ short' = IF n < full THEN short + 1 ELSE short

-----------------------------------------------------------------------------
(***************************************************************************)
(* rw_copy_file                                                            *)
(***************************************************************************)
Read ==
  /\ pc = "copy" /\ chunk = <<>> /\ from < Len(exe)
  /\ \E n \in 1..CopySize :
       LET full == Least(CopySize, Len(exe) - from)
       IN  /\ n <= full /\ Returns(n, full)
           /\ chunk' = SubSeq(exe, from + 1, from + n)
           /\ from' = from + n
  /\ UNCHANGED <<exe, dump, pc, data, datalen, bitlen, blocks, hashed, readError>>

Write ==
  /\ pc = "copy" /\ chunk # <<>>
  /\ \E n \in 1..Len(chunk) :
       /\ Returns(n, Len(chunk))
       /\ dump' = dump \o SubSeq(chunk, 1, n)
       /\ chunk' = SubSeq(chunk, n + 1, Len(chunk))
  /\ UNCHANGED <<exe, from, pc, data, datalen, bitlen, blocks, hashed, readError>>

\* A failing read or write ends the copy, and there is no hash.
CopyFails ==
  /\ pc = "copy"
  /\ pc' = "done"
  /\ UNCHANGED <<exe, dump, chunk, from, data, datalen, bitlen, blocks, hashed, short, readError>>

\* read returns 0; rw_sha256_file opens the copy.
CopyEnds ==
  /\ pc = "copy" /\ chunk = <<>> /\ from = Len(exe)
  /\ pc' = "hash" /\ from' = 0
  /\ UNCHANGED <<exe, dump, chunk, data, datalen, bitlen, blocks, hashed, short, readError>>

-----------------------------------------------------------------------------
(***************************************************************************)
(* rw_sha256_file                                                          *)
(***************************************************************************)
\* The state of sha256_update after one more byte.
Push(ctx, byte) ==
  LET full == [ctx.data EXCEPT ![ctx.datalen] = byte]
  IN  IF ctx.datalen + 1 = BlockSize
      THEN [data |-> full, datalen |-> 0, bitlen |-> ctx.bitlen + 8 * BlockSize,
            blocks |-> Append(ctx.blocks, full)]
      ELSE [ctx EXCEPT !.data = full, !.datalen = @ + 1]

Context == [data |-> data, datalen |-> datalen, bitlen |-> bitlen, blocks |-> blocks]

\* fread and sha256_update.  fread returns less than the buffer holds at the end of the file or
\* when reading fails.
Update ==
  /\ pc = "hash" /\ from < Len(dump) /\ ~readError
  /\ LET full == Least(HashSize, Len(dump) - from)
     IN  \E n \in 0..full :
           LET ctx == FoldLeft(Push, Context, SubSeq(dump, from + 1, from + n))
           IN  /\ readError' = (n < full)
               /\ from' = from + n
               /\ data' = ctx.data /\ datalen' = ctx.datalen
               /\ bitlen' = ctx.bitlen /\ blocks' = ctx.blocks
  /\ UNCHANGED <<exe, dump, chunk, pc, hashed, short>>

\* The buffer with the byte 0x80 at the place datalen and zeros after it, below the place upTo.
Padded(upTo) == [i \in Places |-> CASE i = datalen -> Number(128)
                                    [] i > datalen /\ i < upTo -> Number(0)
                                    [] OTHER -> data[i]]

\* The last bytes of a block hold the length in bits, its most significant byte first.
WithLength(block, bits) ==
  [i \in Places |-> IF i < BlockSize - FieldSize THEN block[i]
                    ELSE Number((bits \div 256 ^ (BlockSize - 1 - i)) % 256)]

\* Mutant of LastBlocks: the length is thought to fit when the byte 0x80 takes its first place.
LastBlocksTight ==
  IF datalen <= BlockSize - FieldSize
  THEN <<WithLength(Padded(BlockSize - FieldSize), bitlen + 8 * datalen)>>
  ELSE <<Padded(BlockSize), WithLength([i \in Places |-> Number(0)], bitlen + 8 * datalen)>>

\* What sha256_final transforms: one block, or two when the length does not fit into the first.
LastBlocks ==
  IF datalen < BlockSize - FieldSize
  THEN <<WithLength(Padded(BlockSize - FieldSize), bitlen + 8 * datalen)>>
  ELSE <<Padded(BlockSize), WithLength([i \in Places |-> Number(0)], bitlen + 8 * datalen)>>

\* fread has returned 0, be it at the end of the file or after an error; exe.sha256 is written.
Final ==
  /\ pc = "hash" /\ (from = Len(dump) \/ readError)
  /\ pc' = "done"
  /\ blocks' = blocks \o LastBlocks
  /\ hashed' = TRUE
  /\ UNCHANGED <<exe, dump, chunk, from, data, datalen, bitlen, short, readError>>

Next == Read \/ Write \/ CopyFails \/ CopyEnds \/ Update \/ Final

Spec == Init /\ [][Next]_evars

-----------------------------------------------------------------------------
(***************************************************************************)
(* Properties                                                              *)
(***************************************************************************)
\* The definition of the padding in FIPS 180-4: the message, the bit 1, the fewest zeros, and the
\* length fill whole blocks.
MessageOf(file) ==
  LET zeros == CHOOSE z \in Places : (Len(file) + 1 + z + FieldSize) % BlockSize = 0
      bits  == 8 * Len(file)
  IN  file \o <<Number(128)>> \o [i \in 1..zeros |-> Number(0)]
           \o [i \in 1..FieldSize |-> Number((bits \div 256 ^ (FieldSize - i)) % 256)]

Joined(bs) == FoldLeft(LAMBDA msg, block : msg \o [i \in 1..BlockSize |-> block[i - 1]], <<>>, bs)

\* The hash of a case is that of the whole executable, however the system cuts reads and writes
\* short and wherever the file ends in a block; unless reading the copy back failed, which
\* rw_sha256_file does not notice.
HashIsOfExecutable == hashed /\ ~readError => dump = exe /\ Joined(blocks) = MessageOf(exe)
=============================================================================
