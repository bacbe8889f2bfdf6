---------------------------- MODULE ShellcodeScan ----------------------------
(***************************************************************************)
(* The scan of a memory region for byte patterns of injected code:         *)
(* read_region of src/src/detect/memscan.c gets a part of the region, and  *)
(* sh_shellcode_scan of src/src/detect/shellcode.c looks for the patterns  *)
(* of four instruction sets in it.  The region holds machine code; its     *)
(* instructions are what the scan is to find.                              *)
(***************************************************************************)
EXTENDS Integers, Sequences, FiniteSets, SequencesExt

CONSTANTS
  ShortSled, LongSled,           \* the 16 and 32 bytes of x86 NOP sleds
  ArmSled, ThumbSled, MipsSled,  \* the 8, 12 and 8 instructions of the others
  MaxCode,                       \* bound: instructions in the region
  MaxRead                        \* SH_MEMSCAN_MAX_REGION_DUMP

\* Instructions, and their bytes in the order of a little-endian machine.
Bytes ==
  [nop |-> <<144>>, syscall |-> <<15, 5>>, int80 |-> <<205, 128>>, mov_rax |-> <<72, 199, 192>>,
   binsh |-> <<47, 98, 105, 110, 47, 115, 104>>,
   a64_nop |-> <<31, 32, 3, 213>>, a64_svc |-> <<1, 0, 0, 212>>,
   arm_nop |-> <<0, 240, 32, 227>>, arm_svc |-> <<0, 0, 0, 239>>,
   thumb_nop |-> <<0, 191>>, thumb_svc |-> <<5, 223>>,
   mips_nop |-> <<0, 0, 0, 0>>, mips_syscall |-> <<12, 0, 0, 0>>,
   other |-> <<1, 1, 1, 1>>]

X86   == {"nop", "syscall", "int80", "mov_rax", "binsh"}
Insns == DOMAIN Bytes

VARIABLES
  code,   \* the instructions of the region
  order,  \* the byte order of the machine
  report  \* the indicators the last scan has found

svars == <<code, order, report>>

Encoded(i) == IF order = "little" \/ i \in X86 THEN Bytes[i] ELSE Reverse(Bytes[i])
Region == FlattenSeq([i \in DOMAIN code |-> Encoded(code[i])])

Init == code = <<>> /\ order \in {"little", "big"} /\ report = {}

-----------------------------------------------------------------------------
(***************************************************************************)
(* The scan                                                                *)
(***************************************************************************)
\* Mutant of LongestRun: another element does not end the run.
LongestRunSum(s, v) == Len(SelectSeq(s, LAMBDA x : x = v))

\* has_run_byte and the count of zero words in scan_mips: the longest run of v in the sequence.
LongestRun(s, v) ==
  FoldLeft(LAMBDA r, x : LET n == IF x = v THEN r.run + 1 ELSE 0
                         IN  [run |-> n, max |-> IF n > r.max THEN n ELSE r.max],
           [run |-> 0, max |-> 0], s).max

\* Mutant of HasPattern: the last place where the pattern fits is left out.
HasPatternShort(buf, pat) ==
  \E i \in 0..(Len(buf) - Len(pat) - 1) : SubSeq(buf, i + 1, i + Len(pat)) = pat

\* has_pattern
HasPattern(buf, pat) ==
  \E i \in 0..(Len(buf) - Len(pat)) : SubSeq(buf, i + 1, i + Len(pat)) = pat

\* repeated_pattern: the pattern, so many times on end.
Repeated(pat, n) == FlattenSeq([i \in 1..n |-> pat])
InEitherOrder(buf, insn, n) ==
  \/ HasPattern(buf, Repeated(Bytes[insn], n))
  \/ HasPattern(buf, Repeated(Reverse(Bytes[insn]), n))

\* scan_mips reads the buffer in whole words from its start; what is left over is not looked at.
Words(buf) == [i \in 1..(Len(buf) \div 4) |-> SubSeq(buf, 4 * i - 3, 4 * i)]
IsSyscall(word) == word[1] % 64 = 12 \/ word[4] % 64 = 12
NopRun(buf)  == LongestRun(buf, 144)
ZeroRun(buf) == LongestRun(Words(buf), <<0, 0, 0, 0>>)

\* scan_x86, scan_arm64, scan_arm32_thumb and scan_mips: the indicators of a buffer.
Found(buf) ==
  {x \in {"syscall", "int80", "mov_rax", "binsh"} : HasPattern(buf, Bytes[x])}
  \union {x \in {"a64_svc", "arm_svc"} : InEitherOrder(buf, x, 1)}
  \union {x \in {"a64_nop", "arm_nop"} : InEitherOrder(buf, x, ArmSled)}
  \union {x \in {"thumb_nop"} : InEitherOrder(buf, x, ThumbSled)}
  \union {x \in {"nop"} : NopRun(buf) >= ShortSled}
  \union {x \in {"long_nop"} : NopRun(buf) >= LongSled}
  \union {x \in {"thumb_svc"} : \E i \in 1..(Len(buf) - 1) : buf[i] = 223}
  \union {x \in {"mips_nop"} : ZeroRun(buf) >= MipsSled}
  \union {x \in {"mips_syscall"} : \E i \in DOMAIN Words(buf) : IsSyscall(Words(buf)[i])}

\* The process writes its region, and the daemon reads and scans as much of it as it gets: up to
\* its limit, less when the region ends on the way.
Write(insn) ==
  /\ Len(code) < MaxCode
  /\ code' = Append(code, insn)
  /\ report' = {}
  /\ UNCHANGED order

Scan ==
  /\ report = {}
  /\ \E n \in 1..Len(Region) : n <= MaxRead /\ report' = Found(SubSeq(Region, 1, n))
  /\ UNCHANGED <<code, order>>

Next == Scan \/ \E insn \in Insns : Write(insn)

Spec == Init /\ [][Next]_svars

-----------------------------------------------------------------------------
(***************************************************************************)
(* Properties                                                              *)
(***************************************************************************)
SledOf(insn) == CASE insn = "nop" -> ShortSled
                  [] insn \in {"a64_nop", "arm_nop"} -> ArmSled
                  [] insn = "thumb_nop" -> ThumbSled
                  [] insn = "mips_nop" -> MipsSled
                  [] OTHER -> 1

Offset(i) == Len(FlattenSeq([j \in 1..(i - 1) |-> Bytes[code[j]]]))

\* Instruction insn stands n times on end in the code, on a word of its own where scan_mips looks.
Stands(insn, n) ==
  \E i \in 1..(Len(code) - n + 1) :
    /\ \A j \in i..(i + n - 1) : code[j] = insn
    /\ insn \in {"mips_nop", "mips_syscall"} => Offset(i) % 4 = 0

\* Whatever instructions stand in a region are found, in either byte order and at either end of
\* the region, when the whole region is read; "endian-aware", as sh_shellcode_scan says.  The
\* last byte is not looked at for the opcode of a Thumb svc.
CodeIsFound ==
  LET found == Found(Region)
  IN  /\ \A insn \in Insns \ {"other", "thumb_svc"} : Stands(insn, SledOf(insn)) => insn \in found
      /\ Stands("nop", LongSled) => "long_nop" \in found
      /\ \A i \in 1..(Len(code) - 1) : code[i] = "thumb_svc" => "thumb_svc" \in found

\* A sled that is reported is one: as many instructions as the limit asks for stand on end in the
\* memory of the process, also when only a part of the region was read.
SledsAreContiguous ==
  LET words == Words(Region)
      Run(s, x, n) == \E i \in 0..(Len(s) - n) : \A j \in (i + 1)..(i + n) : s[j] = x
  IN  /\ "nop" \in report => Run(Region, 144, ShortSled)
      /\ "long_nop" \in report => Run(Region, 144, LongSled)
      /\ "mips_nop" \in report => Run(words, <<0, 0, 0, 0>>, MipsSled)
=============================================================================
