------------------------------- MODULE Build --------------------------------
(***************************************************************************)
(* build.c: makes the disk image out of the boot sector, the system and    *)
(* the user program, each in its file, and then goes back to write the     *)
(* lengths the boot sector and main() read.  Any read, write, seek or open *)
(* may fail; the program then exits with 1 and leaves what it has written. *)
(*                                                                         *)
(* A cell of the image says which cell of which file it is, or holds a     *)
(* number the build wrote over it.  The fields of four bytes are one cell. *)
(***************************************************************************)
EXTENDS Cpu

CONSTANTS
  BUF,          \* sizeof(buf), in cells
  PARA, SEG,    \* cells of a paragraph (16 bytes) and of a segment (64 KB)
  IM_FIELD,     \* what the two bytes of the image length can count (2^16)
  LEN_FIELD,    \* what the three bytes of a file length can count (2^24)
  SysSizes, UsrSizes   \* sizes of the two files

ASSUME BuildAssumption ==
  /\ {BUF, PARA, SEG, IM_FIELD, LEN_FIELD} \subseteq Nat \ {0}
  /\ SEG % PARA = 0
\* build tests no size.  The system begins with the three words the lengths are
\* written over, and the fields can count what the makefile links.
ASSUME SizesAssumption ==
  /\ SysSizes \subseteq 3 .. LEN_FIELD - 1 /\ UsrSizes \subseteq 0 .. LEN_FIELD - 1
  /\ \A s \in SysSizes, u \in UsrSizes : (s + u + PARA - 1) \div PARA < IM_FIELD

SECT == 4                 \* cells of the boot sector
IM_OFF == 2               \* 500: the image length, in the boot sector
Kernels == {"GAME", "Ex2", "E1", "base"}

VARIABLES
  kernel,    \* whose build.c and whose main() this is
  files,     \* sizes of the system and of the user program, as fstat gives them
  step,      \* where build is
  out, pos,  \* standard output: what was written, and where the next write goes
  left       \* sz, uz: cells of the current file still to copy; then lengths to write

bvars == << kernel, files, step, out, pos, left >>

Cell(f, i) == [file |-> f, at |-> i]
Number(n) == [file |-> "number", at |-> n]

\* write(1, ...) of a sequence of cells at the current offset.
Written(cells) ==
  [i \in 1 .. Len(out) + (IF pos + Len(cells) > Len(out) THEN pos + Len(cells) - Len(out) ELSE 0) |->
     IF i \in pos + 1 .. pos + Len(cells) THEN cells[i - pos] ELSE out[i]]

die == step' = "died" /\ UNCHANGED << kernel, files, out, pos, left >>

\* The boot sector has a Minix header, no data, no bss, no symbols, exactly 512
\* bytes and the boot flag, or build dies before it writes anything.
CopyBoot ==
  /\ step = "boot"
  /\ \/ /\ out' = Written([i \in 1 .. SECT |-> Cell("boot", i)])
        /\ pos' = pos + SECT
        /\ step' = "sys" /\ left' = files.sys
        /\ UNCHANGED << kernel, files >>
     \/ die

\* One turn of the loop that copies a file by buffers.
CopyChunkBug(f) ==
  LET l == IF left > BUF THEN BUF ELSE left IN
  /\ left > 0
  /\ out' = Written([i \in 1 .. l |-> Cell(f, i)])
  /\ pos' = pos + l /\ left' = left - l
  /\ UNCHANGED << kernel, files, step >>
CopyChunk(f) ==
  LET l == IF left > BUF THEN BUF ELSE left IN
  /\ left > 0
  /\ out' = Written([i \in 1 .. l |-> Cell(f, files[f] - left + i)])
  /\ pos' = pos + l /\ left' = left - l
  /\ UNCHANGED << kernel, files, step >>

CopySystem ==
  /\ step = "sys"
  /\ \/ CopyChunk("sys")
     \/ left = 0 /\ step' = "usr" /\ left' = files.usr /\ UNCHANGED << kernel, files, out, pos >>
     \/ die

CopyUser ==
  /\ step = "usr"
  /\ \/ CopyChunk("usr")
     \/ left = 0 /\ step' = "lengths" /\ left' = 4 /\ UNCHANGED << kernel, files, out, pos >>
     \/ die

(***************************************************************************)
(* The lengths, at 500 (the image, in paragraphs), 512 (the system), 516   *)
(* (the user program) and 520 (the address p_rdtr points to).              *)
(***************************************************************************)
im_size == (files.sys + files.usr + PARA - 1) \div PARA
Header(rdtr) == << [off |-> IM_OFF, val |-> im_size % IM_FIELD],
                   [off |-> SECT, val |-> files.sys % LEN_FIELD],
                   [off |-> SECT + 1, val |-> files.usr % LEN_FIELD],
                   [off |-> SECT + 2, val |-> rdtr] >>
HeaderGame == Header(32282)     \* 0x7E1A
HeaderEx2 == Header(32282)
HeaderE1 == Header(32362)       \* 0x7E6A
HeaderBase == Header(32362)

WriteHeader(header) ==
  /\ step = "lengths"
  /\ \/ LET h == header[5 - left] IN
        /\ out' = [out EXCEPT ![h.off + 1] = Number(h.val)]
        /\ pos' = h.off + 1
        /\ left' = left - 1
        /\ step' = IF left = 1 THEN "exit0" ELSE step
        /\ UNCHANGED << kernel, files >>
     \/ die

BuildInit ==
  /\ kernel \in Kernels
  /\ files \in [sys : SysSizes, usr : UsrSizes]
  /\ step = "boot" /\ out = << >> /\ pos = 0 /\ left = 0

\* main() of build.c; every kernel has a build.c of its own.
build(k, header) ==
  /\ kernel = k
  /\ CopyBoot \/ CopySystem \/ CopyUser \/ WriteHeader(header)
BuildGame == build("GAME", HeaderGame)
BuildEx2 == build("Ex2", HeaderEx2)
BuildE1 == build("E1", HeaderE1)
BuildBase == build("base", HeaderBase)
BuildNext == BuildGame \/ BuildEx2 \/ BuildE1 \/ BuildBase

(***************************************************************************)
(* bootsect.S loads whole segments behind KERNEL_START until it is past    *)
(* the image length; main() finds the two file lengths in the first words. *)
(***************************************************************************)
LoadedCells ==
  LET n == ((out[IM_OFF + 1].at * PARA) \div SEG + 1) * SEG
  IN [i \in 1 .. (IF n < Len(out) - SECT THEN n ELSE Len(out) - SECT) |-> out[SECT + i]]

\* Pages of the user program that are in memory, at the place main() expects.
LoadedImage(mem, sys, usr) ==
  {i \in 0 .. (usr + PAGE - 1) \div PAGE - 1 :
     \A a \in i * PAGE .. i * PAGE + PAGE - 1 :
        a < usr => /\ sys + a + 1 \in DOMAIN mem
                   /\ mem[sys + a + 1] = Cell("usr", a + 1)}

(***************************************************************************)
(* When build exits with 0, the image is the boot sector, the system and   *)
(* the user program, each complete and in order, with nothing overwritten  *)
(* but the four length cells, and the lengths are those of the files; what *)
(* bootsect.S then loads holds all of it.                                  *)
(***************************************************************************)
Patched == {IM_OFF + 1, SECT + 1, SECT + 2, SECT + 3}
ImageFaithful ==
  step = "exit0" =>
    /\ Len(out) = SECT + files.sys + files.usr
    /\ \A i \in DOMAIN out \ Patched :
         out[i] = IF i <= SECT THEN Cell("boot", i)
                  ELSE IF i <= SECT + files.sys THEN Cell("sys", i - SECT)
                  ELSE Cell("usr", i - SECT - files.sys)
    /\ out[SECT + 1] = Number(files.sys) /\ out[SECT + 2] = Number(files.usr)
    /\ Len(LoadedCells) = files.sys + files.usr
=============================================================================
