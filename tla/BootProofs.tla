----------------------------- MODULE BootProofs -----------------------------
(***************************************************************************)
(* Proofs about Build and Boot: the image is the files, whatever their     *)
(* sizes, and main() of every kernel takes the machine the boot sector     *)
(* leaves to user mode without a fault, with every frame accounted for.    *)
(* The invariant of the boot has a part for every stage of main(), that    *)
(* is for the call that comes next; the kernels with paging share one      *)
(* invariant, with the layout as a parameter, and the base kernel has its  *)
(* own.                                                                    *)
(***************************************************************************)
EXTENDS Boot, FiniteSetTheorems, TLAPS

-----------------------------------------------------------------------------
(* Build. *)

Total == SECT + files.sys + files.usr

\* The cell of the three files that belongs at place i of the image.
Origin(i) == IF i <= SECT THEN Cell("boot", i)
             ELSE IF i <= SECT + files.sys THEN Cell("sys", i - SECT)
             ELSE Cell("usr", i - SECT - files.sys)

\* What the first k lengths written leave at place i.
WithLengths(k, i) ==
  IF k >= 1 /\ i = IM_OFF + 1 THEN Number(im_size)
  ELSE IF k >= 2 /\ i = SECT + 1 THEN Number(files.sys)
  ELSE IF k >= 3 /\ i = SECT + 2 THEN Number(files.usr)
  ELSE IF k >= 4 /\ i = SECT + 3 THEN out[SECT + 3]
  ELSE Origin(i)

\* The copying has come to place n.
CopiedTo(n) == pos = n /\ out = [i \in 1 .. n |-> Origin(i)]

Lengths(k) ==
  /\ DOMAIN out = 1 .. Total /\ out = [i \in 1 .. Total |-> out[i]]
  /\ \A i \in 1 .. Total : out[i] = WithLengths(k, i)

FilesOK ==
  /\ kernel \in Kernels
  /\ files.sys \in SysSizes /\ files.usr \in UsrSizes
  /\ files = [sys |-> files.sys, usr |-> files.usr]

BuildInv ==
  /\ FilesOK
  /\ step \in {"boot", "sys", "usr", "lengths", "exit0", "died"}
  /\ step = "boot" => CopiedTo(0)
  /\ step = "sys" => left \in 0 .. files.sys /\ CopiedTo(SECT + files.sys - left)
  /\ step = "usr" => left \in 0 .. files.usr /\ CopiedTo(Total - left)
  /\ step = "lengths" => left \in 1 .. 4 /\ Lengths(4 - left)
  /\ step = "exit0" => Lengths(4)

\* What the assumptions on the sizes of the files give.
LEMMA FileSizes ==
  ASSUME FilesOK
  PROVE  /\ files.sys \in Nat /\ files.sys >= 3 /\ files.sys < LEN_FIELD
         /\ files.usr \in Nat /\ files.usr < LEN_FIELD
         /\ im_size < IM_FIELD /\ LEN_FIELD \in Nat /\ IM_FIELD \in Nat
         /\ Total \in Nat /\ Total >= SECT + 3 /\ Total = SECT + files.sys + files.usr /\ SECT = 4
BY SizesAssumption, BuildAssumption DEF FilesOK, Total, SECT, im_size

\* Division with remainder.
LEMMA DivMod ==
  ASSUME NEW a \in Nat, NEW d \in Nat \ {0}
  PROVE  /\ a \div d \in Nat /\ a = d * (a \div d) + (a % d) /\ (a % d) \in 0 .. d - 1
OBVIOUS

LEMMA ModSmall ==
  ASSUME NEW n \in Nat \ {0}, NEW x \in Nat, x < n
  PROVE  (x % n) = x
OBVIOUS

\* The image length counts all of the image, in paragraphs.
LEMMA ImageLength ==
  ASSUME FilesOK
  PROVE  /\ im_size \in Nat /\ im_size * PARA >= files.sys + files.usr
         /\ (im_size % IM_FIELD) = im_size
         /\ (files.sys % LEN_FIELD) = files.sys /\ (files.usr % LEN_FIELD) = files.usr
<1> DEFINE t == files.sys + files.usr
<1>1. t \in Nat /\ PARA \in Nat \ {0} /\ t + PARA - 1 \in Nat /\ LEN_FIELD \in Nat \ {0} /\ IM_FIELD \in Nat \ {0}
  BY FileSizes, BuildAssumption
<1>2. im_size = (t + PARA - 1) \div PARA
  BY DEF im_size
<1> HIDE DEF t
<1>3. /\ im_size \in Nat /\ t + PARA - 1 = PARA * im_size + ((t + PARA - 1) % PARA)
      /\ ((t + PARA - 1) % PARA) \in 0 .. PARA - 1
  BY <1>1, <1>2, DivMod
<1>4. PARA * im_size >= t
  <2> DEFINE z == PARA * im_size
             r == (t + PARA - 1) % PARA
  <2>1. z \in Int /\ r \in 0 .. PARA - 1 /\ t + PARA - 1 = z + r
    BY <1>1, <1>3
  <2> HIDE DEF z, r
  <2>2. z >= t
    BY <1>1, <2>1
  <2> QED BY <2>2 DEF z
<1>5. im_size * PARA = PARA * im_size
  BY <1>1, <1>3
<1>6. im_size < IM_FIELD
  BY FileSizes
<1>7. (im_size % IM_FIELD) = im_size
  BY <1>1, <1>3, <1>6, ModSmall
<1>8. (files.sys % LEN_FIELD) = files.sys /\ (files.usr % LEN_FIELD) = files.usr
  BY <1>1, FileSizes, ModSmall
<1> QED BY <1>3, <1>4, <1>5, <1>7, <1>8 DEF t

LEMMA BuildInitInv == BuildInit => BuildInv
<1> SUFFICES ASSUME BuildInit PROVE BuildInv
  OBVIOUS
<1>1. out = [i \in 1 .. 0 |-> Origin(i)]
  BY DEF BuildInit
<1> QED BY <1>1 DEF BuildInit, BuildInv, FilesOK, CopiedTo

\* A write at the end of what has been copied.
LEMMA WrittenAtEnd ==
  ASSUME NEW n \in Nat, CopiedTo(n), NEW l \in Nat, NEW c, c = [i \in 1 .. l |-> Origin(n + i)]
  PROVE  Written(c) = [i \in 1 .. n + l |-> Origin(i)]
<1>1. pos = n /\ Len(out) = n /\ Len(c) = l /\ \A i \in 1 .. n : out[i] = Origin(i)
  BY DEF CopiedTo
<1>2. Written(c) = [i \in 1 .. n + l |-> IF i \in n + 1 .. n + l THEN c[i - n] ELSE out[i]]
  <2>1. (n + (IF n + l > n THEN n + l - n ELSE 0)) = n + l
    OBVIOUS
  <2> QED BY <1>1, <2>1 DEF Written
<1>3. ASSUME NEW i \in 1 .. n + l
      PROVE  (IF i \in n + 1 .. n + l THEN c[i - n] ELSE out[i]) = Origin(i)
  <2>1. CASE i \in n + 1 .. n + l
    <3>1. i - n \in 1 .. l /\ n + (i - n) = i
      BY <2>1
    <3> QED BY <2>1, <3>1
  <2>2. CASE i \notin n + 1 .. n + l
    <3>1. i \in 1 .. n
      BY <2>2
    <3> QED BY <1>1, <2>2, <3>1
  <2> QED BY <2>1, <2>2
<1> QED BY <1>2, <1>3

\* One turn of a copying loop.
LEMMA ChunkCopied ==
  ASSUME FilesOK, NEW f \in {"sys", "usr"}, CopyChunk(f), left \in 0 .. files[f],
         NEW b \in Nat, b = (IF f = "sys" THEN SECT ELSE SECT + files.sys),
         CopiedTo(b + files[f] - left)
  PROVE  /\ left' \in 0 .. files[f] /\ UNCHANGED << kernel, files, step >>
         /\ pos' = b + files[f] - left'
         /\ out' = [i \in 1 .. b + files[f] - left' |-> Origin(i)]
<1> DEFINE l == IF left > BUF THEN BUF ELSE left
           n == b + files[f] - left
           c == [i \in 1 .. l |-> Cell(f, files[f] - left + i)]
<1>1. files[f] \in Nat /\ left \in Nat /\ left <= files[f] /\ BUF \in Nat \ {0} /\ SECT = 4
      /\ files.sys \in Nat /\ files[f] = IF f = "sys" THEN files.sys ELSE files.usr
  BY FileSizes, BuildAssumption DEF FilesOK, SECT
<1>2. l \in 0 .. left /\ l \in Nat /\ n \in Nat
  BY <1>1
<1> HIDE DEF n
<1>9. n = b + files[f] - left
  BY DEF n
<1>3. /\ out' = Written(c) /\ pos' = pos + l /\ left' = left - l
      /\ UNCHANGED << kernel, files, step >>
  BY DEF CopyChunk
<1> HIDE DEF l
<1>4. ASSUME NEW i \in 1 .. l PROVE Cell(f, files[f] - left + i) = Origin(n + i)
  <2>1. CASE f = "sys"
    <3>1. n + i = SECT + (files.sys - left + i) /\ files.sys - left + i \in 1 .. files.sys
      BY <1>1, <1>2, <1>9, <2>1
    <3>2. n + i > SECT /\ n + i <= SECT + files.sys /\ n + i - SECT = files.sys - left + i
      BY <1>1, <1>2, <3>1
    <3>3. Origin(n + i) = Cell("sys", files.sys - left + i)
      <4> DEFINE k == n + i
      <4>1. ~(k <= SECT) /\ k <= SECT + files.sys /\ k - SECT = files.sys - left + i
        BY <1>1, <1>2, <3>2
      <4> HIDE DEF k
      <4>2. Origin(k) = Cell("sys", k - SECT)
        BY <4>1 DEF Origin
      <4> QED BY <4>1, <4>2 DEF k
    <3> QED BY <1>1, <2>1, <3>3
  <2>2. CASE f = "usr"
    <3>1. n + i = SECT + files.sys + (files.usr - left + i) /\ files.usr - left + i \in 1 .. files.usr
          /\ files[f] = files.usr /\ files.usr \in Nat
      BY <1>1, <1>2, <1>9, <2>2
    <3>2. n + i > SECT /\ n + i > SECT + files.sys /\ n + i - SECT - files.sys = files.usr - left + i
      BY <1>1, <1>2, <3>1
    <3>3. ~(n + i <= SECT) /\ ~(n + i <= SECT + files.sys)
      BY <1>1, <1>2, <3>2
    <3>4. Origin(n + i) = Cell("usr", files.usr - left + i)
      <4> DEFINE k == n + i
      <4>1. ~(k <= SECT) /\ ~(k <= SECT + files.sys) /\ k - SECT - files.sys = files.usr - left + i
        BY <1>1, <1>2, <3>1, <3>2, <3>3
      <4> HIDE DEF k
      <4>2. Origin(k) = Cell("usr", k - SECT - files.sys)
        BY <4>1 DEF Origin
      <4> QED BY <4>1, <4>2 DEF k
    <3> QED BY <2>2, <3>1, <3>4
  <2> QED BY <2>1, <2>2
<1>5. c = [i \in 1 .. l |-> Origin(n + i)]
  BY <1>4
<1> HIDE DEF c
<1>6. Written(c) = [i \in 1 .. n + l |-> Origin(i)]
  BY <1>2, <1>5, <1>9, WrittenAtEnd
<1>7. n + l = b + files[f] - left' /\ left' \in 0 .. files[f]
  BY <1>1, <1>2, <1>3, <1>9
<1> QED BY <1>1, <1>2, <1>3, <1>6, <1>7, <1>9 DEF CopiedTo

LEMMA BuildBoot == ASSUME BuildInv, CopyBoot PROVE BuildInv'
<1>1. CASE die
  BY <1>1 DEF die, BuildInv, FilesOK
<1>2. CASE ~die
  <2>1. /\ out' = Written([i \in 1 .. SECT |-> Cell("boot", i)]) /\ pos' = pos + SECT
        /\ step = "boot" /\ step' = "sys" /\ left' = files.sys /\ UNCHANGED << kernel, files >>
    BY <1>2 DEF CopyBoot
  <2>2. FilesOK /\ CopiedTo(0) /\ 0 \in Nat /\ SECT \in Nat /\ files.sys \in Nat
    BY <2>1, FileSizes DEF BuildInv
  <2>3. [i \in 1 .. SECT |-> Cell("boot", i)] = [i \in 1 .. SECT |-> Origin(0 + i)]
    BY DEF Origin, SECT
  <2>4. out' = [i \in 1 .. 0 + SECT |-> Origin(i)]
    BY <2>1, <2>2, <2>3, WrittenAtEnd
  <2>5. /\ 0 + SECT = SECT + files.sys - files.sys /\ pos' = SECT + files.sys - files.sys
        /\ files.sys \in 0 .. files.sys
    BY <2>1, <2>2 DEF CopiedTo
  <2> QED BY <2>1, <2>2, <2>4, <2>5 DEF BuildInv, FilesOK, CopiedTo, Origin
<1> QED BY <1>1, <1>2

LEMMA BuildSystem == ASSUME BuildInv, CopySystem PROVE BuildInv'
<1>1. FilesOK /\ step = "sys" /\ left \in 0 .. files.sys /\ CopiedTo(SECT + files.sys - left)
  BY DEF CopySystem, BuildInv
<1>2. files.sys \in Nat /\ files.usr \in Nat /\ SECT \in Nat /\ Total = SECT + files.sys + files.usr
  BY <1>1, FileSizes
<1>3. CASE CopyChunk("sys")
  <2>1. /\ left' \in 0 .. files.sys /\ UNCHANGED << kernel, files, step >>
        /\ pos' = SECT + files.sys - left'
        /\ out' = [i \in 1 .. SECT + files.sys - left' |-> Origin(i)]
    BY <1>1, <1>2, <1>3, ChunkCopied
  <2> QED BY <1>1, <2>1 DEF BuildInv, FilesOK, CopiedTo, Origin
<1>4. CASE left = 0 /\ step' = "usr" /\ left' = files.usr /\ UNCHANGED << kernel, files, out, pos >>
  <2>1. SECT + files.sys - left = Total - left' /\ left' \in 0 .. files.usr
    BY <1>1, <1>2, <1>4
  <2> QED BY <1>1, <1>4, <2>1 DEF BuildInv, FilesOK, CopiedTo, Origin, Total
<1>5. CASE die
  BY <1>5 DEF die, BuildInv, FilesOK
<1> QED BY <1>3, <1>4, <1>5 DEF CopySystem

LEMMA BuildUser == ASSUME BuildInv, CopyUser PROVE BuildInv'
<1>1. FilesOK /\ step = "usr" /\ left \in 0 .. files.usr /\ CopiedTo(Total - left)
  BY DEF CopyUser, BuildInv
<1>2. files.sys \in Nat /\ files.usr \in Nat /\ SECT \in Nat /\ Total = SECT + files.sys + files.usr
  BY <1>1, FileSizes
<1>3. CASE CopyChunk("usr")
  <2>1. /\ left' \in 0 .. files.usr /\ UNCHANGED << kernel, files, step >>
        /\ pos' = (SECT + files.sys) + files.usr - left'
        /\ out' = [i \in 1 .. (SECT + files.sys) + files.usr - left' |-> Origin(i)]
    <3> DEFINE b == SECT + files.sys
    <3>1. b \in Nat /\ b + files["usr"] - left = Total - left /\ files["usr"] = files.usr
      BY <1>1, <1>2
    <3>2. CopiedTo(b + files["usr"] - left)
      BY <1>1, <3>1
    <3>3. b = (IF "usr" = "sys" THEN SECT ELSE SECT + files.sys)
      OBVIOUS
    <3> HIDE DEF b
    <3>4. /\ left' \in 0 .. files["usr"] /\ UNCHANGED << kernel, files, step >>
          /\ pos' = b + files["usr"] - left'
          /\ out' = [i \in 1 .. b + files["usr"] - left' |-> Origin(i)]
      BY <1>1, <1>3, <3>1, <3>2, <3>3, ChunkCopied
    <3> QED BY <3>1, <3>4 DEF b
  <2> QED BY <1>1, <1>2, <2>1 DEF BuildInv, FilesOK, CopiedTo, Origin, Total
<1>4. CASE left = 0 /\ step' = "lengths" /\ left' = 4 /\ UNCHANGED << kernel, files, out, pos >>
  <2>1. out = [i \in 1 .. Total |-> Origin(i)] /\ Total - 0 = Total
    BY <1>1, <1>2, <1>4 DEF CopiedTo
  <2>2. Lengths(0)
    BY <2>1 DEF Lengths, WithLengths
  <2>3. Lengths(0)'
    BY <1>4, <2>2 DEF Lengths, WithLengths, Origin, Total, im_size
  <2>4. 4 - left' = 0 /\ left' \in 1 .. 4
    BY <1>4
  <2>5. (Lengths(4 - left))'
    BY <2>3, <2>4 DEF Lengths, WithLengths
  <2> QED BY <1>1, <1>4, <2>4, <2>5 DEF BuildInv, FilesOK
<1>5. CASE die
  BY <1>5 DEF die, BuildInv, FilesOK
<1> QED BY <1>3, <1>4, <1>5 DEF CopyUser

\* The k-th length, k from 1 on, over its cell.
LEMMA BuildLengths ==
  ASSUME BuildInv, NEW rdtr, WriteHeader(Header(rdtr))
  PROVE  BuildInv'
<1>1. CASE die
  BY <1>1 DEF die, BuildInv, FilesOK
<1> SUFFICES ASSUME ~die PROVE BuildInv'
  BY <1>1
<1> DEFINE h == Header(rdtr)[5 - left]
<1>2. /\ step = "lengths" /\ out' = [out EXCEPT ![h.off + 1] = Number(h.val)]
      /\ left' = left - 1 /\ step' = (IF left = 1 THEN "exit0" ELSE step)
      /\ UNCHANGED << kernel, files >>
  BY DEF WriteHeader
<1>3. FilesOK /\ left \in 1 .. 4 /\ Lengths(4 - left)
  BY <1>2 DEF BuildInv
<1>4. Total \in Nat /\ Total >= 7 /\ SECT = 4 /\ IM_OFF = 2
  BY <1>3, FileSizes DEF IM_OFF
<1>5. PICK k \in 1 .. 4 : k = 5 - left
  BY <1>3
<1> DEFINE at == IF k = 1 THEN IM_OFF + 1 ELSE SECT + k - 1
<1>6. /\ h.off + 1 = at /\ at \in 1 .. Total
      /\ k = 1 => h.val = im_size
      /\ k = 2 => h.val = files.sys
      /\ k = 3 => h.val = files.usr
  <2>0. h = Header(rdtr)[k]
    BY <1>5
  <2>1. /\ Header(rdtr)[1] = [off |-> IM_OFF, val |-> im_size]
        /\ Header(rdtr)[2] = [off |-> SECT, val |-> files.sys]
        /\ Header(rdtr)[3] = [off |-> SECT + 1, val |-> files.usr]
        /\ Header(rdtr)[4] = [off |-> SECT + 2, val |-> rdtr]
    BY <1>3, ImageLength DEF Header
  <2>2. CASE k = 1
    BY <1>4, <2>0, <2>1, <2>2
  <2>3. CASE k = 2
    BY <1>4, <2>0, <2>1, <2>3
  <2>4. CASE k = 3
    BY <1>4, <2>0, <2>1, <2>4
  <2>5. CASE k = 4
    BY <1>4, <2>0, <2>1, <2>5
  <2> QED BY <2>2, <2>3, <2>4, <2>5
<1> HIDE DEF h
<1>7. /\ DOMAIN out = 1 .. Total /\ out' = [out EXCEPT ![at] = Number(h.val)]
      /\ \A i \in 1 .. Total : out[i] = WithLengths(k - 1, i)
  <2>1. 4 - left = k - 1
    BY <1>3, <1>5
  <2> QED BY <1>2, <1>3, <1>6, <2>1 DEF Lengths
<1>8. Lengths(k)'
  <2>1. /\ DOMAIN out' = 1 .. Total /\ out' = [i \in 1 .. Total |-> out'[i]] /\ Total' = Total
        /\ out'[at] = Number(h.val) /\ \A i \in 1 .. Total : i # at => out'[i] = out[i]
    BY <1>2, <1>6, <1>7 DEF Total
  <2>2. ASSUME NEW i \in 1 .. Total PROVE out'[i] = WithLengths(k, i)'
    <3>1. Origin(i)' = Origin(i) /\ im_size' = im_size /\ files' = files
      BY <1>2 DEF Origin, im_size
    <3>2. CASE k = 1
      BY <1>4, <1>6, <1>7, <2>1, <3>1, <3>2 DEF WithLengths
    <3>3. CASE k = 2
      BY <1>4, <1>6, <1>7, <2>1, <3>1, <3>3 DEF WithLengths
    <3>4. CASE k = 3
      BY <1>4, <1>6, <1>7, <2>1, <3>1, <3>4 DEF WithLengths
    <3>5. CASE k = 4
      BY <1>4, <1>6, <1>7, <2>1, <3>1, <3>5 DEF WithLengths
    <3> QED BY <3>2, <3>3, <3>4, <3>5
  <2> QED BY <2>1, <2>2 DEF Lengths
<1>9. CASE left = 1
  <2>1. k = 4 /\ step' = "exit0"
    BY <1>2, <1>5, <1>9
  <2>2. Lengths(4)'
    BY <1>8, <2>1
  <2> QED BY <1>2, <1>3, <2>1, <2>2 DEF BuildInv, FilesOK
<1>10. CASE left # 1
  <2>1. left' \in 1 .. 4 /\ k = 4 - left' /\ step' = "lengths"
    BY <1>2, <1>3, <1>5, <1>10
  <2>2. (Lengths(4 - left))'
    BY <1>8, <2>1 DEF Lengths, WithLengths
  <2> QED BY <1>2, <1>3, <2>1, <2>2 DEF BuildInv, FilesOK
<1> QED BY <1>9, <1>10

LEMMA BuildSteps == ASSUME BuildInv, BuildNext PROVE BuildInv'
<1>1. ASSUME NEW k, NEW rdtr, build(k, Header(rdtr)) PROVE BuildInv'
  BY <1>1, BuildBoot, BuildSystem, BuildUser, BuildLengths DEF build
<1> QED BY <1>1 DEF BuildNext, BuildGame, BuildEx2, BuildE1, BuildBase,
                    HeaderGame, HeaderEx2, HeaderE1, HeaderBase

LEMMA BuildFrame == ASSUME BuildInv, UNCHANGED bvars PROVE BuildInv'
BY DEF bvars, BuildInv, FilesOK, CopiedTo, Lengths, WithLengths, Origin, Total, im_size

LEMMA BuildAlways == Spec => []BuildInv
<1>1. Init => BuildInv
  BY BuildInitInv DEF Init
<1>2. BuildInv /\ [Next]_vars => BuildInv'
  <2>1. ASSUME BuildInv, [Next]_vars PROVE BuildInv'
    <3>1. [Next]_vars => BuildNext \/ UNCHANGED bvars
      BY DEF Next, vars, bvars, Building, Load, Main, MainGame, MainEx2, MainE1, MainBase, Running, Tick, Key
    <3> QED BY <2>1, <3>1, BuildSteps, BuildFrame
  <2> QED BY <2>1
<1> QED BY <1>1, <1>2, PTL DEF Spec

\* What bootsect.S loads is all that follows the boot sector.
LEMMA Loaded ==
  ASSUME FilesOK, Lengths(4)
  PROVE  LoadedCells = [i \in 1 .. files.sys + files.usr |-> out[SECT + i]]
<1> DEFINE t == files.sys + files.usr
           x == im_size * PARA
           n == (x \div SEG + 1) * SEG
<1>1. /\ t \in Nat /\ Total = SECT + t /\ SECT = 4 /\ IM_OFF = 2 /\ SEG \in Nat \ {0} /\ PARA \in Nat
      /\ Total \in Nat /\ Total >= 7
  BY FileSizes, BuildAssumption DEF IM_OFF
<1>2. x \in Nat /\ x >= t
  BY ImageLength, <1>1
<1>3. out[IM_OFF + 1].at = im_size /\ Len(out) = Total
  <2>1. out[IM_OFF + 1] = Number(im_size)
    BY <1>1 DEF Lengths, WithLengths
  <2>2. Len(out) = Total
    BY <1>1 DEF Lengths
  <2> QED BY <2>1, <2>2 DEF Number
<1> HIDE DEF x, t
<1>4. n > x
  <2> DEFINE q == x \div SEG
  <2>1. q \in Nat /\ x = SEG * q + (x % SEG) /\ (x % SEG) \in 0 .. SEG - 1
    BY <1>1, <1>2, DivMod
  <2>2. n = SEG * q + SEG
    BY <1>1, <2>1
  <2> DEFINE y == SEG * q
             z == x % SEG
  <2>3. y \in Int /\ z \in 0 .. SEG - 1 /\ x = y + z /\ n = y + SEG
    BY <1>1, <2>1, <2>2
  <2> HIDE DEF y, z
  <2> QED BY <1>1, <2>3
<1>5. n \in Int
  BY <1>1, <1>2, DivMod
<1>6. LoadedCells = [i \in 1 .. (IF n < Len(out) - SECT THEN n ELSE Len(out) - SECT) |-> out[SECT + i]]
  BY <1>3 DEF LoadedCells, x
<1> HIDE DEF n
<1>7. (IF n < Len(out) - SECT THEN n ELSE Len(out) - SECT) = t
  BY <1>1, <1>2, <1>3, <1>4, <1>5
<1> QED BY <1>6, <1>7 DEF t

\* For files of any size the fields can count: the image is complete and in
\* order, only the length cells are overwritten, and bootsect.S loads all of it.
THEOREM ImageCorrect == Spec => []ImageFaithful
<1>1. BuildInv => ImageFaithful
  <2> SUFFICES ASSUME BuildInv, step = "exit0" PROVE ImageFaithful
    BY DEF ImageFaithful
  <2>1. FilesOK /\ Lengths(4)
    BY DEF BuildInv
  <2>2. /\ files.sys \in Nat /\ files.usr \in Nat /\ files.sys >= 3 /\ SECT = 4 /\ IM_OFF = 2
        /\ Total = SECT + files.sys + files.usr /\ Total \in Nat /\ Total >= 7
    BY <2>1, FileSizes DEF IM_OFF
  <2>3. Len(out) = Total
    BY <2>1, <2>2 DEF Lengths
  <2>4. ASSUME NEW i \in DOMAIN out \ Patched PROVE out[i] = Origin(i)
    BY <2>1, <2>2 DEF Lengths, WithLengths, Patched
  <2>5. out[SECT + 1] = Number(files.sys) /\ out[SECT + 2] = Number(files.usr)
    <3>1. 5 \in 1 .. Total /\ 6 \in 1 .. Total /\ SECT + 1 = 5 /\ SECT + 2 = 6 /\ IM_OFF + 1 = 3
      BY <2>2
    <3>2. out[5] = WithLengths(4, 5) /\ out[6] = WithLengths(4, 6)
      BY <2>1, <3>1 DEF Lengths
    <3> QED BY <3>1, <3>2 DEF WithLengths
  <2>6. Len(LoadedCells) = files.sys + files.usr
    BY <2>1, <2>2, Loaded
  <2> QED BY <2>2, <2>3, <2>4, <2>5, <2>6 DEF ImageFaithful, Origin
<1> QED BY <1>1, BuildAlways, PTL

-----------------------------------------------------------------------------
(* Arithmetic of pages, and frames taken one after the other. *)

K == NUM_PAG_KERNEL
U == NUM_PAG_CODE + NUM_PAG_DATA

\* What the assumptions say of the sizes, in the names used here.
LEMMA Sizes ==
  /\ PAGE \in Nat /\ PAGE > 1 /\ TOTAL_PAGES \in Nat /\ K \in Nat /\ U \in Nat /\ U > 1
  /\ NUM_PAG_CODE \in Nat \ {0} /\ NUM_PAG_DATA \in Nat \ {0} /\ U = NUM_PAG_CODE + NUM_PAG_DATA
  /\ K > 17 /\ GDT_PAGE \in 17 .. K - 1 /\ SCREEN_PAGE \in 1 .. K - 1
  /\ K + 4 * U <= TOTAL_PAGES /\ K + 7 + U <= TOTAL_PAGES
  /\ None \notin Int
BY LayoutAssumption, ImageAssumption DEF K, U, FirstTaskPage, NR_TASKS

\* A quotient is what leaves a remainder below the divisor.
LEMMA DivUnique ==
  ASSUME NEW d \in Nat \ {0}, NEW n \in Nat, NEW r \in 0 .. d - 1, NEW a \in Nat, a = n * d + r
  PROVE  a \div d = n
<1> DEFINE q == a \div d
           s == a % d
<1>1. q \in Nat /\ a = d * q + s /\ s \in 0 .. d - 1
  BY DivMod
<1> HIDE DEF q, s
<1>2. q = n
  <2>1. ASSUME q < n PROVE FALSE
    <3>1. d * q + d <= n * d
      <4>1. q + 1 <= n /\ n - (q + 1) \in Nat
        BY <1>1, <2>1
      <4>2. n = q + 1 + (n - (q + 1))
        BY <1>1, <2>1
      <4>3. n * d = q * d + d + (n - (q + 1)) * d
        BY <1>1, <4>1, <4>2
      <4>4. (n - (q + 1)) * d \in Nat
        BY <4>1
      <4>5. q * d = d * q /\ q * d \in Nat
        BY <1>1
      <4> QED BY <4>3, <4>4, <4>5
    <3>2. n * d \in Nat /\ d * q \in Nat
      BY <1>1
    <3> QED BY <1>1, <3>1, <3>2
  <2>2. ASSUME q > n PROVE FALSE
    <3>1. n * d + d <= d * q
      <4>1. q - (n + 1) \in Nat
        BY <1>1, <2>2
      <4>3. d * q = n * d + d + (q - (n + 1)) * d
        BY <1>1, <4>1
      <4>4. (q - (n + 1)) * d \in Nat
        BY <4>1
      <4>5. n * d \in Nat /\ d * q \in Nat
        BY <1>1
      <4> QED BY <4>3, <4>4, <4>5
    <3>2. n * d \in Nat /\ d * q \in Nat
      BY <1>1
    <3> QED BY <1>1, <3>1, <3>2
  <2> QED BY <1>1, <2>1, <2>2
<1> QED BY <1>2 DEF q

\* The page of a cell.
LEMMA PageOf ==
  ASSUME NEW n \in Nat, NEW r \in 0 .. PAGE - 1
  PROVE  PH_PAGE(n * PAGE + r) = n
<1>1. PAGE \in Nat \ {0} /\ n * PAGE + r \in Nat
  <2>1. PAGE \in Nat \ {0}
    BY Sizes
  <2>2. n * PAGE \in Nat
    BY <2>1
  <2> QED BY <2>1, <2>2
<1> QED BY <1>1, DivUnique DEF PH_PAGE

Below(S, f) == {g \in S : g < f}

\* A finite set has elements with 0, 1, ... smaller ones, so that as many calls of
\* alloc_frame as it has elements get one each.
LEMMA RankOnto ==
  ASSUME NEW S, S \subseteq Int, IsFiniteSet(S), NEW i \in 0 .. Cardinality(S) - 1
  PROVE  \E f \in S : Cardinality(Below(S, f)) = i
<1> DEFINE c == Cardinality(S)
           T == 0 .. c - 1
           r == [f \in S |-> Cardinality(Below(S, f))]
<1>1. c \in Nat
  BY FS_CardinalityType
<1>2. ASSUME NEW f \in S PROVE IsFiniteSet(Below(S, f)) /\ Cardinality(Below(S, f)) \in T
  <2>1. Below(S, f) \in SUBSET S /\ f \notin Below(S, f)
    BY DEF Below
  <2>2. /\ IsFiniteSet(Below(S, f)) /\ Cardinality(Below(S, f)) <= c
        /\ (c = Cardinality(Below(S, f)) => S = Below(S, f))
    BY <2>1, FS_Subset
  <2>3. Cardinality(Below(S, f)) \in Nat
    BY <2>2, FS_CardinalityType
  <2>4. Cardinality(Below(S, f)) # c
    BY <2>1, <2>2
  <2> QED BY <1>1, <2>2, <2>3, <2>4
<1>3. ASSUME NEW f \in S, NEW g \in S, f < g
      PROVE  Cardinality(Below(S, f)) < Cardinality(Below(S, g))
  <2>1. f \in Int /\ g \in Int
    OBVIOUS
  <2>2. Below(S, f) \in SUBSET Below(S, g) /\ f \in Below(S, g) /\ f \notin Below(S, f)
    <3>1. ASSUME NEW h \in Below(S, f) PROVE h \in Below(S, g)
      <4>1. h \in S /\ h \in Int /\ h < f
        BY DEF Below
      <4>2. h < g
        BY <1>3, <2>1, <4>1
      <4> QED BY <4>1, <4>2 DEF Below
    <3>2. f \in Below(S, g) /\ f \notin Below(S, f)
      BY <1>3, <2>1 DEF Below
    <3> QED BY <3>1, <3>2
  <2>3. /\ Cardinality(Below(S, f)) <= Cardinality(Below(S, g))
        /\ (Cardinality(Below(S, g)) = Cardinality(Below(S, f)) => Below(S, g) = Below(S, f))
    BY <1>2, <2>2, FS_Subset
  <2>4. Cardinality(Below(S, f)) # Cardinality(Below(S, g))
    BY <2>2, <2>3
  <2> QED BY <1>1, <1>2, <2>3, <2>4
<1>4. r \in Injection(S, T)
  <2>1. r \in [S -> T]
    BY <1>2
  <2>2. ASSUME NEW f \in S, NEW g \in S, r[f] = r[g] PROVE f = g
    <3>1. r[f] = Cardinality(Below(S, f)) /\ r[g] = Cardinality(Below(S, g)) /\ r[f] \in Int
      BY <1>1, <1>2
    <3>2. f \in Int /\ g \in Int
      OBVIOUS
    <3>3. ~(f < g) /\ ~(g < f)
      BY <1>2, <1>3, <2>2, <3>1
    <3> QED BY <3>2, <3>3
  <2> HIDE DEF r
  <2>3. DOMAIN r = S
    BY <2>1
  <2> QED BY <2>1, <2>2, <2>3 DEF Injection, IsInjective
<1>5. IsFiniteSet(T) /\ Cardinality(T) = c
  <2>1. 0 \in Int /\ c - 1 \in Int
    BY <1>1
  <2>2. IsFiniteSet(T) /\ Cardinality(T) = IF 0 > c - 1 THEN 0 ELSE c - 1 - 0 + 1
    BY <2>1, FS_Interval
  <2> QED BY <1>1, <2>2
<1>6. r \in Surjection(S, T)
  <2> HIDE DEF r, T
  <2> QED BY <1>4, <1>5, FS_Injection
<1>7. \E f \in S : r[f] = i
  <2>1. i \in T
    OBVIOUS
  <2> HIDE DEF r, T
  <2> QED BY <1>6, <2>1 DEF Surjection
<1> QED BY <1>7

\* The i-th free frame is free and has i - 1 free frames below it.
LEMMA NthFreeTaken ==
  ASSUME NEW S, S \subseteq Int, IsFiniteSet(S), NEW i \in 1 .. Cardinality(S)
  PROVE  NthFree(S, i) \in S /\ Cardinality(Below(S, NthFree(S, i))) = i - 1
<1>1. Cardinality(S) \in Nat
  BY FS_CardinalityType
<1>2. i - 1 \in 0 .. Cardinality(S) - 1
  BY <1>1
<1>3. \E f \in S : Cardinality({g \in S : g < f}) = i - 1
  BY <1>2, RankOnto DEF Below
<1> QED BY <1>3 DEF NthFree, Below

\* n calls of alloc_frame get n frames.
LEMMA FramesTaken ==
  ASSUME NEW S, S \subseteq Int, IsFiniteSet(S), NEW n \in Nat, n <= Cardinality(S)
  PROVE  /\ \A i \in 1 .. n : NthFree(S, i) \in S
         /\ \A i, j \in 1 .. n : NthFree(S, i) = NthFree(S, j) => i = j
<1>1. Cardinality(S) \in Nat
  BY FS_CardinalityType
<1>2. \A i \in 1 .. n : i \in 1 .. Cardinality(S) /\ i \in Int
  BY <1>1
<1>3. \A i \in 1 .. n : NthFree(S, i) \in S /\ Cardinality(Below(S, NthFree(S, i))) = i - 1
  BY <1>2, NthFreeTaken
<1>4. ASSUME NEW i \in 1 .. n, NEW j \in 1 .. n, NthFree(S, i) = NthFree(S, j) PROVE i = j
  <2>1. i - 1 = j - 1
    BY <1>3, <1>4
  <2> QED BY <1>2, <2>1
<1> QED BY <1>3, <1>4

\* Every other frame from the first one after the kernel.
Even == {i \in K .. TOTAL_PAGES - 1 : (i - K) % 2 = 0}

\* There is room for two address spaces in every other frame.
LEMMA EvenFrames ==
  /\ IsFiniteSet(Even) /\ Even \subseteq Nat /\ Cardinality(Even) >= 2 * U
<1>1. IsFiniteSet(Even) /\ Even \subseteq Nat
  <2>1. K \in Int /\ TOTAL_PAGES - 1 \in Int
    BY Sizes
  <2>2. IsFiniteSet(K .. TOTAL_PAGES - 1)
    BY <2>1, FS_Interval
  <2>3. Even \in SUBSET (K .. TOTAL_PAGES - 1)
    BY DEF Even
  <2>4. IsFiniteSet(Even)
    BY <2>2, <2>3, FS_Subset
  <2> QED BY <2>3, <2>4, Sizes
<1> DEFINE J == 0 .. 2 * U - 1
           h == [j \in J |-> K + 2 * j]
<1>2. h \in Injection(J, Even)
  <2>1. ASSUME NEW j \in J PROVE K + 2 * j \in Even
    <3>1. j \in Nat /\ j <= 2 * U - 1
      BY Sizes
    <3>2. K + 2 * j \in K .. TOTAL_PAGES - 1
      BY <3>1, Sizes
    <3>3. ((K + 2 * j) - K) = 2 * j
      BY <3>1, Sizes
    <3>4. (2 * j) % 2 = 0
      BY <3>1
    <3> QED BY <3>2, <3>3, <3>4 DEF Even
  <2>2. h \in [J -> Even]
    BY <2>1
  <2>3. ASSUME NEW i \in J, NEW j \in J, h[i] = h[j] PROVE i = j
    BY <2>3, Sizes
  <2> HIDE DEF h
  <2>4. DOMAIN h = J
    BY <2>2
  <2> QED BY <2>2, <2>3, <2>4 DEF Injection, IsInjective
<1>3. Cardinality(J) = 2 * U
  <2>1. 0 \in Int /\ 2 * U - 1 \in Int /\ ~(0 > 2 * U - 1)
    BY Sizes
  <2>2. Cardinality(J) = IF 0 > 2 * U - 1 THEN 0 ELSE 2 * U - 1 - 0 + 1
    BY <2>1, FS_Interval
  <2> QED BY <2>1, <2>2, Sizes
<1>4. Cardinality(J) <= Cardinality(Even)
  <2> HIDE DEF h, J
  <2> QED BY <1>1, <1>2, FS_Injection
<1>5. Cardinality(Even) \in Nat
  BY <1>1, FS_CardinalityType
<1> QED BY <1>1, <1>3, <1>4, <1>5, Sizes

-----------------------------------------------------------------------------
(* The machine at each stage of main(), in the three kernels that turn     *)
(* paging on.  The second exam kernel goes through the stages of the game  *)
(* kernel; a stage is the call that comes next, and 15 is user mode.       *)

PagedKernels == {"GAME", "E1"}
Like(k) == IF k = "E1" THEN "E1" ELSE "GAME"
StageOf(k, n) == IF n <= 6 THEN n
                 ELSE CASE k = "E1" -> n
                        [] k = "GAME" -> n + 1
                        [] OTHER -> IF n <= 9 THEN n + 1 ELSE n + 2

Pages == K .. K + U - 1
Tasks == 0 .. 9
Idle(k) == IF k = "E1" THEN 9 ELSE 0
Task(k) == IF k = "E1" THEN 8 ELSE 1
PcbAt(k, t) == IF k = "E1" THEN t + 4 ELSE t + 5
BootPage(k) == IF k = "E1" THEN 7 ELSE 8
BootEsp(k) == (BootPage(k) + 1) * PAGE - 1
Top(k) == (PcbAt(k, Task(k)) + 1) * PAGE
Holes(k) == IF k = "E1" THEN {} ELSE {4, 15}
Writable(k, p) == IF k = "E1" THEN p < K + NUM_PAG_DATA ELSE p >= K + NUM_PAG_CODE

\* The tasks whose tables hold user pages.
Spaces(k, s) == IF k = "E1" THEN (IF s <= 7 THEN {} ELSE IF s <= 10 THEN {0} ELSE {0, 8})
                ELSE (IF s <= 10 THEN {} ELSE {1})
Directory(k, s) == IF s <= 10 THEN 0 ELSE Task(k)

Machine(x) == DOMAIN x = DOMAIN Off /\ x = [f \in DOMAIN Off |-> x[f]]

Regs(k, x, s) ==
  /\ x.fault = FALSE
  /\ x.mode = IF s = 15 THEN "user" ELSE "kernel"
  /\ s <= 2 => x.esp = 0
  /\ s \in 3 .. 14 => x.esp = BootEsp(k)
  /\ x.irqs \subseteq {0, 1}
  /\ s <= 13 => x.IF = FALSE
  /\ s >= 5 => x.idtr = TRUE /\ {32, 33} \subseteq DOMAIN x.gates
  /\ s >= 6 => x.tr = TRUE
  /\ s >= 11 => x.esp0 = Top(k) /\ x.msr[373] = Top(k)

Dirs == [i \in Tasks |-> << [table |-> i, user |-> TRUE, rw |-> TRUE] >>]
KernelEntry(k, p) ==
  IF p \in 1 .. K - 1 THEN [PTE(p, FALSE, TRUE) EXCEPT !.present = p \notin Holes(k)] ELSE ZeroEntry
FrameAt(x, t, p) == x.tabs[t][p].frame
Entry(k, x, S, t, p) ==
  IF t \in S /\ p \in Pages THEN PTE(FrameAt(x, t, p), TRUE, Writable(k, p)) ELSE KernelEntry(k, p)

Tables(k, x, S) ==
  /\ x.dirs = Dirs /\ DOMAIN x.tabs = Tasks
  /\ \A t \in Tasks : DOMAIN x.tabs[t] = 0 .. TOTAL_PAGES - 1
  /\ \A t \in Tasks : \A p \in 0 .. TOTAL_PAGES - 1 : x.tabs[t][p] = Entry(k, x, S, t, p)

Frames(x, S) ==
  /\ \A t \in S : \A p \in Pages : FrameAt(x, t, p) \in Even
  /\ \A t, u \in S : \A p, q \in Pages : FrameAt(x, t, p) = FrameAt(x, u, q) => t = u /\ p = q
  /\ x.phys_mem = (0 .. K - 1) \cup {FrameAt(x, s[1], s[2]) : s \in S \X Pages}

Paging(k, x, s) ==
  /\ s <= 6 => x.pg = FALSE /\ x.phys_mem = {}
  /\ s >= 7 => /\ x.pg = TRUE /\ x.cr3 = Directory(k, s)
               /\ Tables(k, x, Spaces(k, s)) /\ Frames(x, Spaces(k, s))

FreeQueue(k) == [i \in 1 .. 10 |-> IF k = "E1" THEN 10 - i ELSE i - 1]

Procs(k, x, s) ==
  /\ DOMAIN x.pcb = Tasks
  /\ \A t \in Tasks : DOMAIN x.pcb[t] = DOMAIN ZeroPcb
  /\ s >= 7 => x.pcb[0].dir = 0
  /\ s = 9 => x.freequeue = FreeQueue(k)
  /\ s = 10 => x.freequeue = Tail(FreeQueue(k))
  /\ x.idle_task = IF s <= 9 THEN None ELSE Idle(k)
  /\ x.task1 = IF s <= 10 THEN None ELSE Task(k)
  /\ s >= 11 => x.pcb[Task(k)].dir = Task(k) /\ x.pcb[Task(k)].PID = 1

Image(k, x, s) ==
  /\ x.sys_size \in SysSizes /\ x.usr_size \in UsrSizes
  /\ x.image = ImagePages(x)
  /\ s >= (IF k = "E1" THEN 12 ELSE 13) =>
       \A i \in ImagePages(x) : x.mem[FrameAt(x, Task(k), K + i)] = i

PagedInv(k, x, s) ==
  Machine(x) /\ Regs(k, x, s) /\ Paging(k, x, s) /\ Procs(k, x, s) /\ Image(k, x, s)

PagedBoot ==
  pc > 0 /\ kernel # "base" =>
    PagedInv(Like(kernel), m, StageOf(kernel, pc)) /\ StageOf(kernel, pc) \in 1 .. 15

\* The fields of the machine.
LEMMA Fields ==
  {"IF", "irqs", "idtr", "gdtr", "tr", "gates", "esp", "mode", "cr3", "pg", "msr", "esp0", "dirs",
   "tabs", "phys_mem", "first_kernel", "last_kernel", "pcb", "freequeue", "readyqueue", "idle_task",
   "task1", "quantum", "ticks", "kbuf", "sys_size", "usr_size", "image", "mem", "fault", "wild"}
    = DOMAIN Off
BY DEF Off, ResetMachine

\* Touching mapped pages changes nothing.
LEMMA AccessSame ==
  ASSUME NEW x, Machine(x), x.fault = FALSE, NEW ps, \A p \in ps : Mapped(x, p)
  PROVE  Access(x, ps) = x
<1>1. "fault" \in DOMAIN x
  BY Fields DEF Machine
<1>2. Access(x, ps) = [x EXCEPT !.fault = FALSE]
  BY DEF Access
<1> QED BY <1>1, <1>2 DEF Machine

\* The instances of Cpu.
LEMMA AccessGame == ASSUME NEW x, NEW ps PROVE Game!Access(x, ps) = Access(x, ps)
BY DEF Game!Access, Access, Game!Mapped, Mapped, Game!ActiveEntry, ActiveEntry, Game!ZeroEntry, ZeroEntry

LEMMA AccessE1 == ASSUME NEW x, NEW ps PROVE E1!Access(x, ps) = Access(x, ps)
BY DEF E1!Access, Access, E1!Mapped, Mapped, E1!ActiveEntry, ActiveEntry, E1!ZeroEntry, ZeroEntry

LEMMA AccessEx2 == ASSUME NEW x, NEW ps PROVE Ex2!Access(x, ps) = Access(x, ps)
BY DEF Ex2!Access, Access, Ex2!Mapped, Mapped, Ex2!ActiveEntry, ActiveEntry, Ex2!ZeroEntry, ZeroEntry

\* The copy of the image is the same operation in every kernel.
LEMMA CopyGame == ASSUME NEW x, NEW f PROVE Game!CopyImage(x, f) = CopyImage(x, f)
BY DEF Game!CopyImage, CopyImage, Game!ImagePages, ImagePages, Game!PH_PAGE, PH_PAGE, Game!Frame, Frame,
   Game!ActiveEntry, ActiveEntry, Game!ZeroEntry, ZeroEntry, Game!Over, Over, Game!KERNEL_START, KERNEL_START,
   Game!Access, Access, Game!Mapped, Mapped

LEMMA CopyE1 == ASSUME NEW x, NEW f PROVE E1!CopyImage(x, f) = CopyImage(x, f)
BY DEF E1!CopyImage, CopyImage, E1!ImagePages, ImagePages, E1!PH_PAGE, PH_PAGE, E1!Frame, Frame, E1!ActiveEntry,
   ActiveEntry, E1!ZeroEntry, ZeroEntry, E1!Over, Over, E1!KERNEL_START, KERNEL_START, E1!Access, Access,
   E1!Mapped, Mapped

\* The layout of the two kernels in pages.
LEMMA PageOfMultiple == ASSUME NEW n \in Nat PROVE PH_PAGE(n * PAGE) = n
<1>1. 0 \in 0 .. PAGE - 1 /\ n * PAGE + 0 = n * PAGE
  <2>1. PAGE \in Nat /\ PAGE > 1
    BY Sizes
  <2>2. n * PAGE \in Nat
    BY <2>1
  <2> QED BY <2>1, <2>2
<1> QED BY <1>1, PageOf

\* The page below the end of a page, as a stack pointer or one cell further down.
LEMMA PageBelow ==
  ASSUME NEW n \in Nat, NEW r \in {1, 2}
  PROVE  PH_PAGE((n + 1) * PAGE - r) = n
<1>1. PAGE \in Nat /\ PAGE > 1
  BY Sizes
<1>2. PAGE - r \in 0 .. PAGE - 1
  BY <1>1
<1>3. (n + 1) * PAGE - r = n * PAGE + (PAGE - r)
  <2>1. (n + 1) * PAGE = n * PAGE + PAGE /\ n * PAGE \in Nat
    BY <1>1
  <2> QED BY <1>1, <2>1
<1> QED BY <1>2, <1>3, PageOf

\* The pages of the boot stack and of the system stack of task 1.
LEMMA StackPages ==
  ASSUME NEW k \in PagedKernels
  PROVE  /\ StackPage(BootEsp(k)) = BootPage(k) /\ StackPage(Top(k)) = PcbAt(k, Task(k)) /\ BootEsp(k) # 0
         /\ BootPage(k) \in {7, 8} /\ PcbAt(k, Task(k)) \in {6, 12}
<1>1. BootPage(k) \in {7, 8} /\ PcbAt(k, Task(k)) \in {6, 12}
  BY DEF BootPage, PcbAt, Task
<1>2. StackPage(Top(k)) = PcbAt(k, Task(k))
  BY <1>1, PageBelow DEF StackPage, Top
<1>3. BootEsp(k) - 1 = (BootPage(k) + 1) * PAGE - 2 /\ BootEsp(k) # 0
  BY <1>1, Sizes DEF BootEsp
<1>4. StackPage(BootEsp(k)) = BootPage(k)
  BY <1>1, <1>3, PageBelow DEF StackPage
<1> QED BY <1>1, <1>2, <1>3, <1>4

\* The addresses of the game kernel, in pages.
LEMMA GameLayout ==
  /\ Game!Guards = Holes("GAME")
  /\ \A t \in Tasks : Game!PcbPage(t) = PcbAt("GAME", t)
  /\ Game!KERNEL_ESP(1) = Top("GAME") /\ Game!PAG_LOG_INIT_CODE = K
  /\ Game!PAG_LOG_INIT_DATA = K + NUM_PAG_CODE
  /\ Game!PH_PAGE(Game!USER_ESP) = K + U - 1
  /\ Game!protected_tasks(5) - 1 = BootEsp("GAME")
<1>1. \A a : Game!PH_PAGE(a) = PH_PAGE(a)
  BY DEF Game!PH_PAGE, PH_PAGE
<1>2. Game!Guards = Holes("GAME")
  <2>1. Game!protected_tasks(0) = 4 * PAGE /\ Game!protected_tasks(11) = 15 * PAGE
    BY Sizes DEF Game!protected_tasks, Game!FirstTaskPage
  <2> QED BY <1>1, <2>1, PageOfMultiple DEF Game!Guards, Holes
<1>3. ASSUME NEW t \in Tasks PROVE Game!PcbPage(t) = PcbAt("GAME", t)
  <2>1. Game!protected_tasks(t + 1) = (t + 5) * PAGE /\ t + 5 \in Nat
    <3>1. 4 + (t + 1) = t + 5 /\ t + 5 \in Nat
      BY DEF Tasks
    <3> QED BY <3>1 DEF Game!protected_tasks, Game!FirstTaskPage
  <2> QED BY <1>1, <2>1, PageOfMultiple DEF Game!PcbPage, PcbAt
<1>4. Game!KERNEL_ESP(1) = Top("GAME") /\ Game!protected_tasks(5) - 1 = BootEsp("GAME")
  BY Sizes DEF Game!KERNEL_ESP, Game!protected_tasks, Game!FirstTaskPage, Top, PcbAt, Task, BootEsp, BootPage
<1>5. Game!PAG_LOG_INIT_CODE = K
  BY <1>1, Sizes, PageOfMultiple DEF Game!PAG_LOG_INIT_CODE, Game!L_USER_START, K
<1>6. Game!PAG_LOG_INIT_DATA = K + NUM_PAG_CODE
  BY <1>5 DEF Game!PAG_LOG_INIT_DATA
<1>7. Game!PH_PAGE(Game!USER_ESP) = K + U - 1
  <2>1. K + U - 1 \in Nat /\ (K + U - 1) + 1 = K + U
    BY Sizes
  <2>2. K * PAGE + U * PAGE = (K + U) * PAGE
    BY Sizes
  <2>3. Game!USER_ESP = K * PAGE + U * PAGE - 1
    BY DEF Game!USER_ESP, Game!L_USER_START, K, U
  <2>4. Game!USER_ESP = ((K + U - 1) + 1) * PAGE - 1
    <3>1. ((K + U - 1) + 1) * PAGE = (K + U) * PAGE
      BY <2>1
    <3> QED BY <2>2, <2>3, <3>1, Sizes
  <2> QED BY <1>1, <2>1, <2>4, PageBelow
<1> QED BY <1>2, <1>3, <1>4, <1>5, <1>6, <1>7

\* The addresses of the E1_E2 kernel, in pages.
LEMMA E1Layout ==
  /\ \A t \in Tasks : E1!PcbPage(t) = PcbAt("E1", t)
  /\ E1!KERNEL_ESP(8) = Top("E1") /\ E1!PAG_LOG_INIT_DATA = K
  /\ E1!PAG_LOG_INIT_CODE = K + NUM_PAG_DATA
  /\ E1!PH_PAGE(E1!USER_ESP) = K + NUM_PAG_DATA - 1
  /\ E1!task(4) - 1 = BootEsp("E1")
<1>1. \A a : E1!PH_PAGE(a) = PH_PAGE(a)
  BY DEF E1!PH_PAGE, PH_PAGE
<1>3. ASSUME NEW t \in Tasks PROVE E1!PcbPage(t) = PcbAt("E1", t)
  <2>1. E1!task(t) = (t + 4) * PAGE /\ t + 4 \in Nat
    <3>1. 4 + t = t + 4 /\ t + 4 \in Nat
      BY DEF Tasks
    <3> QED BY <3>1 DEF E1!task, E1!FirstTaskPage
  <2> QED BY <1>1, <2>1, PageOfMultiple DEF E1!PcbPage, PcbAt
<1>4. E1!KERNEL_ESP(8) = Top("E1") /\ E1!task(4) - 1 = BootEsp("E1")
  BY Sizes DEF E1!KERNEL_ESP, E1!task, E1!FirstTaskPage, Top, PcbAt, Task, BootEsp, BootPage
<1>5. E1!PAG_LOG_INIT_DATA = K
  BY <1>1, Sizes, PageOfMultiple DEF E1!PAG_LOG_INIT_DATA, E1!L_USER_START, K
<1>6. E1!PAG_LOG_INIT_CODE = K + NUM_PAG_DATA
  BY <1>5 DEF E1!PAG_LOG_INIT_CODE
<1>7. E1!PH_PAGE(E1!USER_ESP) = K + NUM_PAG_DATA - 1
  <2>1. K + NUM_PAG_DATA - 1 \in Nat /\ (K + NUM_PAG_DATA - 1) + 1 = K + NUM_PAG_DATA
    BY Sizes
  <2>2. K * PAGE + NUM_PAG_DATA * PAGE = (K + NUM_PAG_DATA) * PAGE
    BY Sizes
  <2>3. E1!USER_ESP = K * PAGE + NUM_PAG_DATA * PAGE - 1
    BY DEF E1!USER_ESP, E1!L_USER_START, K
  <2>4. E1!USER_ESP = ((K + NUM_PAG_DATA - 1) + 1) * PAGE - 1
    <3>1. ((K + NUM_PAG_DATA - 1) + 1) * PAGE = (K + NUM_PAG_DATA) * PAGE
      BY <2>1
    <3> QED BY <2>2, <2>3, <3>1, Sizes
  <2> QED BY <1>1, <2>1, <2>4, PageBelow
<1> QED BY <1>3, <1>4, <1>5, <1>6, <1>7

\* With a directory of this form active, a page goes through its table.
LEMMA ActiveAt ==
  ASSUME NEW x, x.pg = TRUE, x.dirs = Dirs, x.cr3 \in Tasks, NEW p \in 0 .. TOTAL_PAGES - 1
  PROVE  /\ Mapped(x, p) <=> x.tabs[x.cr3][p].present
         /\ Frame(x, p) = x.tabs[x.cr3][p].frame
         /\ ActiveEntry(x, p) = x.tabs[x.cr3][p]
<1>1. p \in Nat /\ TOTAL_PAGES \in Nat \ {0} /\ p < TOTAL_PAGES
  BY Sizes
<1>2. p \div TOTAL_PAGES = 0 /\ p % TOTAL_PAGES = p
  BY <1>1
<1> DEFINE e == [table |-> x.cr3, user |-> TRUE, rw |-> TRUE]
<1>3. x.dirs[x.cr3] = << e >> /\ x.cr3 \in DOMAIN x.dirs
  BY DEF Dirs
<1>4. 1 \in DOMAIN << e >> /\ << e >>[1].table = x.cr3
  OBVIOUS
<1>5. 0 + 1 = 1
  OBVIOUS
<1> HIDE DEF e
<1>6. ActiveEntry(x, p) = x.tabs[x.cr3][p]
  BY <1>2, <1>3, <1>4, <1>5 DEF ActiveEntry
<1> QED BY <1>3, <1>6 DEF Mapped, Frame

\* The active directory is one of the tasks'.
LEMMA DirectoryType ==
  ASSUME NEW k \in PagedKernels, NEW s \in 7 .. 15
  PROVE  Directory(k, s) \in Tasks
BY DEF Directory, Task, Tasks

\* The pages of the kernel but the guards are mapped at every stage.
LEMMA KernelMapped ==
  ASSUME NEW k \in PagedKernels, NEW s \in 1 .. 15, NEW x, PagedInv(k, x, s),
         NEW p \in (1 .. K - 1) \ Holes(k)
  PROVE  Mapped(x, p)
<1>1. CASE s <= 6
  BY <1>1 DEF PagedInv, Paging, Mapped
<1>2. CASE s > 6
  <2>1. s \in 7 .. 15 /\ s >= 7
    BY <1>2
  <2>2. x.pg = TRUE /\ x.cr3 = Directory(k, s) /\ Tables(k, x, Spaces(k, s))
    BY <2>1 DEF PagedInv, Paging
  <2>3. x.cr3 \in Tasks
    BY <2>1, <2>2, DirectoryType
  <2>4. p \in 0 .. TOTAL_PAGES - 1 /\ p \notin Pages
    BY Sizes DEF Pages
  <2>5. x.tabs[x.cr3][p] = KernelEntry(k, p)
    BY <2>2, <2>3, <2>4 DEF Tables, Entry
  <2>6. KernelEntry(k, p).present
    BY DEF KernelEntry, PTE
  <2> QED BY <2>2, <2>3, <2>4, <2>5, <2>6, ActiveAt DEF Tables
<1> QED BY <1>1, <1>2

\* So are the user's own pages, once the active directory has them.
LEMMA UserMapped ==
  ASSUME NEW k \in PagedKernels, NEW s \in 7 .. 15, NEW x, PagedInv(k, x, s),
         Directory(k, s) \in Spaces(k, s), NEW p \in Pages
  PROVE  Mapped(x, p) /\ Frame(x, p) = FrameAt(x, Directory(k, s), p)
<1>1. x.pg = TRUE /\ x.cr3 = Directory(k, s) /\ Tables(k, x, Spaces(k, s))
  BY DEF PagedInv, Paging
<1>2. x.cr3 \in Tasks
  BY <1>1, DirectoryType
<1>3. p \in 0 .. TOTAL_PAGES - 1
  BY Sizes DEF Pages
<1>4. x.tabs[x.cr3][p] = PTE(FrameAt(x, x.cr3, p), TRUE, Writable(k, p))
  BY <1>1, <1>2, <1>3 DEF Tables, Entry
<1>5. x.tabs[x.cr3][p].present
  BY <1>4 DEF PTE
<1>6. x.dirs = Dirs
  BY <1>1 DEF Tables
<1>7. Mapped(x, p) /\ Frame(x, p) = x.tabs[x.cr3][p].frame
  BY <1>1, <1>2, <1>3, <1>5, <1>6, ActiveAt
<1> QED BY <1>1, <1>7 DEF FrameAt

\* Touching pages of the kernel that are no guards changes nothing.
LEMMA KernelAccess ==
  ASSUME NEW k \in PagedKernels, NEW s \in 1 .. 15, NEW x, PagedInv(k, x, s),
         NEW ps, ps \subseteq (1 .. K - 1) \ Holes(k)
  PROVE  Access(x, ps) = x
BY KernelMapped, AccessSame DEF PagedInv, Regs

\* A call of main() finds its code and its stack mapped.
LEMMA BeforeSame ==
  ASSUME NEW k \in PagedKernels, NEW s \in 1 .. 14, NEW x, PagedInv(k, x, s)
  PROVE  Access(x, {TextPage} \cup Stack(x)) = x
<1>1. Stack(x) \subseteq {BootPage(k)}
  BY StackPages DEF PagedInv, Regs, Stack
<1>2. {TextPage} \cup Stack(x) \subseteq (1 .. K - 1) \ Holes(k)
  BY <1>1, StackPages, Sizes DEF TextPage, Holes
<1> QED BY <1>2, KernelAccess

SameMemory(x, y) ==
  y.pg = x.pg /\ y.cr3 = x.cr3 /\ y.dirs = x.dirs /\ y.tabs = x.tabs /\ y.phys_mem = x.phys_mem
SameProcs(x, y) ==
  y.pcb = x.pcb /\ y.freequeue = x.freequeue /\ y.idle_task = x.idle_task /\ y.task1 = x.task1
SameImage(x, y) ==
  y.sys_size = x.sys_size /\ y.usr_size = x.usr_size /\ y.image = x.image /\ y.mem = x.mem

\* A step that leaves the memory fields alone keeps tables and frames.
LEMMA TablesKept ==
  ASSUME NEW k, NEW x, NEW y, NEW S, SameMemory(x, y), Tables(k, x, S), Frames(x, S)
  PROVE  Tables(k, y, S) /\ Frames(y, S)
<1>1. \A t, p : FrameAt(y, t, p) = FrameAt(x, t, p)
  BY DEF SameMemory, FrameAt
<1>2. \A t, p : Entry(k, y, S, t, p) = Entry(k, x, S, t, p)
  BY <1>1 DEF Entry
<1> QED BY <1>1, <1>2 DEF SameMemory, Tables, Frames

\* ... and takes the paging part of the invariant to the next stage,
LEMMA PagingKept ==
  ASSUME NEW k \in PagedKernels, NEW x, NEW y, SameMemory(x, y), NEW s \in 1 .. 14, Paging(k, x, s),
         s \notin {6, 10} /\ (s = 7 => k = "GAME")
  PROVE  Paging(k, y, s + 1)
<1>1. CASE s <= 5
  BY <1>1 DEF Paging, SameMemory
<1>2. CASE s > 5
  <2>1. s >= 7 /\ s + 1 >= 7 /\ ~(s + 1 <= 6) /\ s + 1 \in 7 .. 15
    BY <1>2
  <2>2. Spaces(k, s + 1) = Spaces(k, s) /\ Directory(k, s + 1) = Directory(k, s)
    <3> DEFINE r == s + 1
    <3>1. r \in 8 .. 15 /\ (r <= 10 <=> s <= 10) /\ (k = "E1" => (r <= 7 <=> s <= 7))
      BY <2>1
    <3> HIDE DEF r
    <3>2. Spaces(k, r) = Spaces(k, s) /\ Directory(k, r) = Directory(k, s)
      BY <3>1 DEF Spaces, Directory
    <3> QED BY <3>2 DEF r
  <2>3. /\ x.pg = TRUE /\ x.cr3 = Directory(k, s)
        /\ Tables(k, x, Spaces(k, s)) /\ Frames(x, Spaces(k, s))
    BY <2>1 DEF Paging
  <2>4. Tables(k, y, Spaces(k, s + 1)) /\ Frames(y, Spaces(k, s + 1))
    BY <2>2, <2>3, TablesKept
  <2> QED BY <2>1, <2>2, <2>3, <2>4 DEF Paging, SameMemory
<1> QED BY <1>1, <1>2

\* ... as one that leaves the PCBs alone does the process part,
LEMMA ProcsKept ==
  ASSUME NEW k \in PagedKernels, NEW x, NEW y, SameProcs(x, y), NEW s \in 1 .. 14, Procs(k, x, s),
         s \notin {6, 8, 9, 10}
  PROVE  Procs(k, y, s + 1)
<1>1. /\ s + 1 >= 7 => s >= 7
      /\ s + 1 # 9 /\ s + 1 # 10
      /\ s + 1 <= 9 <=> s <= 9
      /\ s + 1 <= 10 <=> s <= 10
      /\ s + 1 >= 11 => s >= 11
  OBVIOUS
<1> DEFINE r == s + 1
<1>2. /\ r >= 7 => s >= 7
      /\ r # 9 /\ r # 10
      /\ r <= 9 <=> s <= 9
      /\ r <= 10 <=> s <= 10
      /\ r >= 11 => s >= 11
  BY <1>1
<1> HIDE DEF r
<1>3. Procs(k, y, r)
  BY <1>2 DEF Procs, SameProcs
<1> QED BY <1>3 DEF r

\* ... and one that leaves image, memory and tables alone the image part.
LEMMA ImageKept ==
  ASSUME NEW k \in PagedKernels, NEW x, NEW y, SameImage(x, y), y.tabs = x.tabs,
         NEW s \in 1 .. 14, Image(k, x, s), s # (IF k = "E1" THEN 11 ELSE 12)
  PROVE  Image(k, y, s + 1)
<1>1. ImagePages(y) = ImagePages(x)
  BY DEF SameImage, ImagePages
<1>2. \A t, p : FrameAt(y, t, p) = FrameAt(x, t, p)
  BY DEF FrameAt
<1> DEFINE r == s + 1
<1>3. r >= (IF k = "E1" THEN 12 ELSE 13) => s >= (IF k = "E1" THEN 12 ELSE 13)
  OBVIOUS
<1> HIDE DEF r
<1>4. Image(k, y, r)
  BY <1>1, <1>2, <1>3 DEF Image, SameImage
<1> QED BY <1>4 DEF r

\* While nothing has been copied, the tables do not matter.
LEMMA ImageEarly ==
  ASSUME NEW k \in PagedKernels, NEW x, NEW y, SameImage(x, y), NEW s \in 1 .. 10, Image(k, x, s)
  PROVE  Image(k, y, s + 1)
<1>1. ImagePages(y) = ImagePages(x)
  BY DEF SameImage, ImagePages
<1> DEFINE r == s + 1
<1>2. ~(r >= (IF k = "E1" THEN 12 ELSE 13))
  OBVIOUS
<1> HIDE DEF r
<1>3. Image(k, y, r)
  BY <1>1, <1>2 DEF Image, SameImage
<1> QED BY <1>3 DEF r

\* What a call that only changes registers has to show.
LEMMA RegisterStep ==
  ASSUME NEW k \in PagedKernels, NEW x, NEW y, NEW s \in 1 .. 14, PagedInv(k, x, s),
         s \in {1, 2, 3, 4, 5, 13, 14} \/ s = (IF k = "E1" THEN 12 ELSE 11),
         Machine(y), SameMemory(x, y), SameProcs(x, y), SameImage(x, y), Regs(k, y, s + 1)
  PROVE  PagedInv(k, y, s + 1)
<1>1. Paging(k, y, s + 1)
  BY PagingKept DEF PagedInv
<1>2. Procs(k, y, s + 1)
  BY ProcsKept DEF PagedInv
<1>3. Image(k, y, s + 1)
  BY ImageKept DEF PagedInv, SameMemory
<1> QED BY <1>1, <1>2, <1>3 DEF PagedInv

\* y is a machine that differs from x in the fields F at most.
Differs(x, y, F) == Machine(y) /\ \A f \in DOMAIN Off \ F : y[f] = x[f]

\* Two steps change what either changes.
LEMMA DiffersTwice ==
  ASSUME NEW x, NEW y, NEW z, NEW F, NEW G, NEW H, Differs(x, y, F), Differs(y, z, G), F \cup G \subseteq H
  PROVE  Differs(x, z, H) /\ Machine(z)
BY DEF Differs

Registers == {"IF", "irqs", "idtr", "gdtr", "tr", "gates", "esp", "mode", "msr", "esp0", "kbuf", "ticks", "quantum"}

\* A step on registers leaves memory, PCBs and image alone.
LEMMA RegistersOnly ==
  ASSUME NEW x, NEW y, NEW F, F \subseteq Registers, Differs(x, y, F)
  PROVE  Machine(y) /\ SameMemory(x, y) /\ SameProcs(x, y) /\ SameImage(x, y)
BY Fields DEF Differs, SameMemory, SameProcs, SameImage, Registers

\* A register that is not among the changed fields keeps its value.
LEMMA RegistersOther ==
  ASSUME NEW x, NEW y, NEW F, Differs(x, y, F)
  PROVE  /\ "IF" \notin F => y.IF = x.IF
         /\ "irqs" \notin F => y.irqs = x.irqs
         /\ "idtr" \notin F => y.idtr = x.idtr
         /\ "tr" \notin F => y.tr = x.tr
         /\ "gates" \notin F => y.gates = x.gates
         /\ "esp" \notin F => y.esp = x.esp
         /\ "mode" \notin F => y.mode = x.mode
         /\ "msr" \notin F => y.msr = x.msr
         /\ "esp0" \notin F => y.esp0 = x.esp0
         /\ "fault" \notin F => y.fault = x.fault
BY Fields DEF Differs

\* Writing the table of gates changes the gates only,
LEMMA SetGates ==
  ASSUME NEW x, Machine(x), NEW g, NEW y, y = [x EXCEPT !.gates = g]
  PROVE  Machine(y) /\ Differs(x, y, {"gates"}) /\ y.gates = g
BY Fields DEF Differs, Machine

\* ... and so does writing several at once.
LEMMA OverGates ==
  ASSUME NEW x, Machine(x), NEW h, NEW y, y = [x EXCEPT !.gates = Over(h, @)]
  PROVE  Machine(y) /\ Differs(x, y, {"gates"})
<1> DEFINE g == Over(h, x.gates)
<1>1. y = [x EXCEPT !.gates = g]
  OBVIOUS
<1> HIDE DEF g
<1> QED BY <1>1, SetGates

\* Writing an MSR changes the MSRs only.
LEMMA PutMsr ==
  ASSUME NEW x, Machine(x), NEW r, NEW v, NEW y, y = [x EXCEPT !.msr = Put(@, r, v)]
  PROVE  Machine(y) /\ Differs(x, y, {"msr"}) /\ y.msr[r] = v
<1> DEFINE g == Put(x.msr, r, v)
<1>1. y = [x EXCEPT !.msr = g] /\ g[r] = v
  BY DEF Put
<1> HIDE DEF g
<1>2. Machine(y) /\ Differs(x, y, {"msr"}) /\ y.msr = g
  BY <1>1, Fields DEF Differs, Machine
<1> QED BY <1>1, <1>2

\* A handler adds its gate: in the game kernel,
LEMMA GameHandler ==
  ASSUME NEW x, Machine(x), NEW v, NEW h, NEW pl, NEW y, y = Game!setInterruptHandler(x, v, h, pl)
  PROVE  Machine(y) /\ Differs(x, y, {"gates"}) /\ DOMAIN y.gates = DOMAIN x.gates \cup {v}
<1> DEFINE g == Game!Put(x.gates, v, [handler |-> h, dpl |-> pl])
<1>1. y = [x EXCEPT !.gates = g] /\ DOMAIN g = DOMAIN x.gates \cup {v}
  BY DEF Game!setInterruptHandler, Game!Put
<1> HIDE DEF g
<1> QED BY <1>1, SetGates

\* ... in E1_E2,
LEMMA E1Handler ==
  ASSUME NEW x, Machine(x), NEW v, NEW h, NEW pl, NEW y, y = E1!setInterruptHandler(x, v, h, pl)
  PROVE  Machine(y) /\ Differs(x, y, {"gates"}) /\ DOMAIN y.gates = DOMAIN x.gates \cup {v}
<1> DEFINE g == E1!Put(x.gates, v, [handler |-> h, dpl |-> pl])
<1>1. y = [x EXCEPT !.gates = g] /\ DOMAIN g = DOMAIN x.gates \cup {v}
  BY DEF E1!setInterruptHandler, E1!Put
<1> HIDE DEF g
<1> QED BY <1>1, SetGates

\* ... and so does a trap.
LEMMA E1Trap ==
  ASSUME NEW x, Machine(x), NEW v, NEW h, NEW pl, NEW y, y = E1!setTrapHandler(x, v, h, pl)
  PROVE  Machine(y) /\ Differs(x, y, {"gates"}) /\ DOMAIN y.gates = DOMAIN x.gates \cup {v}
<1> DEFINE g == E1!Put(x.gates, v, [handler |-> h, dpl |-> pl])
<1>1. y = [x EXCEPT !.gates = g] /\ DOMAIN g = DOMAIN x.gates \cup {v}
  BY DEF E1!setTrapHandler, E1!Put
<1> HIDE DEF g
<1> QED BY <1>1, SetGates

\* setIdt installs the gates of clock and keyboard: in the game kernel,
LEMMA GameIdt ==
  ASSUME NEW x, Machine(x), NEW y, y = Game!setIdt(x)
  PROVE  /\ Differs(x, y, {"gates", "msr", "idtr"}) /\ y.idtr = TRUE /\ {32, 33} \subseteq DOMAIN y.gates
<1> DEFINE a == Game!set_handlers(x)
           b == Game!setInterruptHandler(a, 32, "clock_handler", 0)
           c == Game!setInterruptHandler(b, 33, "keyboard_handler", 0)
           d == Game!setMSR(c, 372, "__KERNEL_CS")
           e == Game!setMSR(d, 373, Game!INITIAL_ESP)
           f == Game!setMSR(e, 374, "system_call_handler")
<1>0. \A g, v, i : Game!Put(g, v, i) = Put(g, v, i) /\ Game!Over(g, v) = Over(g, v)
  BY DEF Game!Put, Put, Game!Over, Over
<1>1. y = Game!Lidt(f)
  BY DEF Game!setIdt, Game!setSysenter, Game!set_idt_reg
<1>2. Machine(a) /\ Differs(x, a, {"gates"})
  BY <1>0, OverGates DEF Game!set_handlers
<1> HIDE DEF a
<1>3. Machine(b) /\ Differs(a, b, {"gates"}) /\ DOMAIN b.gates = DOMAIN a.gates \cup {32}
  BY <1>2, GameHandler
<1> HIDE DEF b
<1>4. Machine(c) /\ Differs(b, c, {"gates"}) /\ DOMAIN c.gates = DOMAIN b.gates \cup {33}
  BY <1>3, GameHandler
<1> HIDE DEF c
<1>5. Machine(d) /\ Differs(c, d, {"msr"})
  BY <1>0, <1>4, PutMsr DEF Game!setMSR, Game!Wrmsr
<1> HIDE DEF d
<1>6. Machine(e) /\ Differs(d, e, {"msr"})
  BY <1>0, <1>5, PutMsr DEF Game!setMSR, Game!Wrmsr
<1> HIDE DEF e
<1>7. Machine(f) /\ Differs(e, f, {"msr"})
  BY <1>0, <1>6, PutMsr DEF Game!setMSR, Game!Wrmsr
<1> HIDE DEF f
<1>8. Differs(f, y, {"idtr"}) /\ y.idtr = TRUE
  BY <1>1, <1>7, Fields DEF Game!Lidt, Differs, Machine
<1> DEFINE H == {"gates", "msr", "idtr"}
<1>9. {"gates"} \cup H \subseteq H /\ {"msr"} \cup H \subseteq H /\ {"msr"} \cup {"idtr"} \subseteq H
  OBVIOUS
<1>10. y.gates = c.gates
  BY <1>5, <1>6, <1>7, <1>8, Fields DEF Differs
<1> HIDE DEF H
<1>11. Differs(e, y, H)
  BY <1>7, <1>8, <1>9, DiffersTwice
<1>12. Differs(d, y, H)
  BY <1>6, <1>9, <1>11, DiffersTwice
<1>13. Differs(c, y, H)
  BY <1>5, <1>9, <1>12, DiffersTwice
<1>14. Differs(b, y, H)
  BY <1>4, <1>9, <1>13, DiffersTwice
<1>15. Differs(a, y, H)
  BY <1>3, <1>9, <1>14, DiffersTwice
<1>16. Differs(x, y, H)
  BY <1>2, <1>9, <1>15, DiffersTwice
<1> QED BY <1>3, <1>4, <1>8, <1>10, <1>16 DEF H

\* ... and in E1_E2.
LEMMA E1Idt ==
  ASSUME NEW x, Machine(x), NEW y, y = E1!setIdt(x)
  PROVE  /\ Differs(x, y, {"gates", "msr", "idtr"}) /\ y.idtr = TRUE /\ {32, 33} \subseteq DOMAIN y.gates
<1> DEFINE a == E1!set_handlers(x)
           b == E1!setInterruptHandler(a, 33, "keyboard_handler", 0)
           c == E1!setInterruptHandler(b, 32, "clock_handler", 0)
           c2 == E1!setInterruptHandler(c, 14, "my_page_fault_handler", 0)
           c3 == E1!setTrapHandler(c2, 128, "system_call_handler", 3)
           d == E1!Wrmsr(c3, 372, "__KERNEL_CS")
           e == E1!Wrmsr(d, 373, E1!INITIAL_ESP)
           f == E1!Wrmsr(e, 374, "syscall_handler_sysenter")
<1>0. \A g, v, i : E1!Put(g, v, i) = Put(g, v, i) /\ E1!Over(g, v) = Over(g, v)
  BY DEF E1!Put, Put, E1!Over, Over
<1>1. y = E1!Lidt(f)
  BY DEF E1!setIdt, E1!set_idt_reg
<1>2. Machine(a) /\ Differs(x, a, {"gates"})
  BY <1>0, OverGates DEF E1!set_handlers
<1> HIDE DEF a
<1>3. Machine(b) /\ Differs(a, b, {"gates"}) /\ DOMAIN b.gates = DOMAIN a.gates \cup {33}
  BY <1>2, E1Handler
<1> HIDE DEF b
<1>4. Machine(c) /\ Differs(b, c, {"gates"}) /\ DOMAIN c.gates = DOMAIN b.gates \cup {32}
  BY <1>3, E1Handler
<1> HIDE DEF c
<1>17. Machine(c2) /\ Differs(c, c2, {"gates"}) /\ DOMAIN c2.gates = DOMAIN c.gates \cup {14}
  BY <1>4, E1Handler
<1> HIDE DEF c2
<1>18. Machine(c3) /\ Differs(c2, c3, {"gates"}) /\ DOMAIN c3.gates = DOMAIN c2.gates \cup {128}
  BY <1>17, E1Trap
<1> HIDE DEF c3
<1>5. Machine(d) /\ Differs(c3, d, {"msr"})
  BY <1>0, <1>18, PutMsr DEF E1!Wrmsr
<1> HIDE DEF d
<1>6. Machine(e) /\ Differs(d, e, {"msr"})
  BY <1>0, <1>5, PutMsr DEF E1!Wrmsr
<1> HIDE DEF e
<1>7. Machine(f) /\ Differs(e, f, {"msr"})
  BY <1>0, <1>6, PutMsr DEF E1!Wrmsr
<1> HIDE DEF f
<1>8. Differs(f, y, {"idtr"}) /\ y.idtr = TRUE
  BY <1>1, <1>7, Fields DEF E1!Lidt, Differs, Machine
<1> DEFINE H == {"gates", "msr", "idtr"}
<1>9. {"gates"} \cup H \subseteq H /\ {"msr"} \cup H \subseteq H /\ {"msr"} \cup {"idtr"} \subseteq H
  OBVIOUS
<1>10. y.gates = c3.gates
  BY <1>5, <1>6, <1>7, <1>8, Fields DEF Differs
<1> HIDE DEF H
<1>11. Differs(e, y, H)
  BY <1>7, <1>8, <1>9, DiffersTwice
<1>12. Differs(d, y, H)
  BY <1>6, <1>9, <1>11, DiffersTwice
<1>13. Differs(c3, y, H)
  BY <1>5, <1>9, <1>12, DiffersTwice
<1>19. Differs(c2, y, H)
  BY <1>18, <1>9, <1>13, DiffersTwice
<1>20. Differs(c, y, H)
  BY <1>17, <1>9, <1>19, DiffersTwice
<1>14. Differs(b, y, H)
  BY <1>4, <1>9, <1>20, DiffersTwice
<1>15. Differs(a, y, H)
  BY <1>3, <1>9, <1>14, DiffersTwice
<1>16. Differs(x, y, H)
  BY <1>2, <1>9, <1>15, DiffersTwice
<1> QED BY <1>3, <1>4, <1>17, <1>18, <1>8, <1>10, <1>16 DEF H

\* The calls of main() one by one, for what they do to the machine: set_eflags,
LEMMA StepEflags ==
  ASSUME NEW k \in PagedKernels, NEW x, PagedInv(k, x, 1), NEW y, y = [x EXCEPT !.IF = FALSE]
  PROVE  PagedInv(k, y, 2)
<1>1. Machine(x) /\ Regs(k, x, 1)
  BY DEF PagedInv
<1>2. Differs(x, y, {"IF"}) /\ y.IF = FALSE
  BY <1>1, Fields DEF Differs, Machine
<1>3. Machine(y) /\ SameMemory(x, y) /\ SameProcs(x, y) /\ SameImage(x, y)
  BY <1>2, RegistersOnly DEF Registers
<1>4. Regs(k, y, 1 + 1)
  BY <1>1, <1>2, RegistersOther DEF Regs
<1> QED BY <1>3, <1>4, RegisterStep

\* ... set_seg_regs,
LEMMA StepSegRegs ==
  ASSUME NEW k \in PagedKernels, NEW x, PagedInv(k, x, 2), NEW y, y = [x EXCEPT !.esp = BootEsp(k)]
  PROVE  PagedInv(k, y, 3)
<1>1. Machine(x) /\ Regs(k, x, 2)
  BY DEF PagedInv
<1>2. Differs(x, y, {"esp"}) /\ y.esp = BootEsp(k)
  BY <1>1, Fields DEF Differs, Machine
<1>3. Machine(y) /\ SameMemory(x, y) /\ SameProcs(x, y) /\ SameImage(x, y)
  BY <1>2, RegistersOnly DEF Registers
<1>4. Regs(k, y, 2 + 1)
  BY <1>1, <1>2, RegistersOther DEF Regs
<1> QED BY <1>3, <1>4, RegisterStep

\* ... setGdt,
LEMMA StepGdt ==
  ASSUME NEW k \in PagedKernels, NEW x, PagedInv(k, x, 3), NEW y, y = [x EXCEPT !.gdtr = TRUE]
  PROVE  PagedInv(k, y, 4)
<1>1. Machine(x) /\ Regs(k, x, 3)
  BY DEF PagedInv
<1>2. Differs(x, y, {"gdtr"})
  BY <1>1, Fields DEF Differs, Machine
<1>3. Machine(y) /\ SameMemory(x, y) /\ SameProcs(x, y) /\ SameImage(x, y)
  BY <1>2, RegistersOnly DEF Registers
<1>4. Regs(k, y, 3 + 1)
  BY <1>1, <1>2, RegistersOther DEF Regs
<1> QED BY <1>3, <1>4, RegisterStep

\* ... setIdt,
LEMMA StepIdt ==
  ASSUME NEW k \in PagedKernels, NEW x, PagedInv(k, x, 4), NEW y, Differs(x, y, {"gates", "msr", "idtr"}),
         y.idtr = TRUE, {32, 33} \subseteq DOMAIN y.gates
  PROVE  PagedInv(k, y, 5)
<1>1. Regs(k, x, 4)
  BY DEF PagedInv
<1>3. Machine(y) /\ SameMemory(x, y) /\ SameProcs(x, y) /\ SameImage(x, y)
  BY RegistersOnly DEF Registers
<1>4. Regs(k, y, 4 + 1)
  BY <1>1, RegistersOther DEF Regs
<1> QED BY <1>3, <1>4, RegisterStep

\* ... setTSS,
LEMMA StepTss ==
  ASSUME NEW k \in PagedKernels, NEW x, PagedInv(k, x, 5), NEW e, NEW y,
         y = [[x EXCEPT !.esp0 = e] EXCEPT !.tr = TRUE]
  PROVE  PagedInv(k, y, 6)
<1>1. Machine(x) /\ Regs(k, x, 5)
  BY DEF PagedInv
<1>2. Differs(x, y, {"esp0", "tr"}) /\ y.tr = TRUE
  BY <1>1, Fields DEF Differs, Machine
<1>3. Machine(y) /\ SameMemory(x, y) /\ SameProcs(x, y) /\ SameImage(x, y)
  BY <1>2, RegistersOnly DEF Registers
<1>4. Regs(k, y, 5 + 1)
  BY <1>1, <1>2, RegistersOther DEF Regs
<1> QED BY <1>3, <1>4, RegisterStep

\* ... the keyboard buffer of the game kernel,
LEMMA StepKeyboard ==
  ASSUME NEW x, PagedInv("GAME", x, 11), NEW y, y = [x EXCEPT !.kbuf = TRUE]
  PROVE  PagedInv("GAME", y, 12)
<1>1. Machine(x) /\ Regs("GAME", x, 11) /\ "GAME" \in PagedKernels
  BY DEF PagedInv, PagedKernels
<1>2. Differs(x, y, {"kbuf"})
  BY <1>1, Fields DEF Differs, Machine
<1>3. Machine(y) /\ SameMemory(x, y) /\ SameProcs(x, y) /\ SameImage(x, y)
  BY <1>2, RegistersOnly DEF Registers
<1>4. Regs("GAME", y, 11 + 1)
  BY <1>1, <1>2, RegistersOther DEF Regs
<1> QED BY <1>1, <1>3, <1>4, RegisterStep

\* ... clear_screen of E1_E2,
LEMMA StepClear ==
  ASSUME NEW x, PagedInv("E1", x, 12) PROVE  PagedInv("E1", x, 13)
<1>1. Machine(x) /\ Regs("E1", x, 12) /\ "E1" \in PagedKernels
  BY DEF PagedInv, PagedKernels
<1>3. SameMemory(x, x) /\ SameProcs(x, x) /\ SameImage(x, x)
  BY DEF SameMemory, SameProcs, SameImage
<1>4. Regs("E1", x, 12 + 1)
  BY <1>1 DEF Regs
<1> QED BY <1>1, <1>3, <1>4, RegisterStep

\* ... enable_int,
LEMMA StepEnable ==
  ASSUME NEW k \in PagedKernels, NEW x, PagedInv(k, x, 13), NEW y,
         y = [[x EXCEPT !.irqs = {0, 1}] EXCEPT !.IF = TRUE]
  PROVE  PagedInv(k, y, 14)
<1>1. Machine(x) /\ Regs(k, x, 13)
  BY DEF PagedInv
<1>2. Differs(x, y, {"irqs", "IF"}) /\ y.irqs = {0, 1}
  BY <1>1, Fields DEF Differs, Machine
<1>3. Machine(y) /\ SameMemory(x, y) /\ SameProcs(x, y) /\ SameImage(x, y)
  BY <1>2, RegistersOnly DEF Registers
<1>4. Regs(k, y, 13 + 1)
  BY <1>1, <1>2, RegistersOther DEF Regs
<1> QED BY <1>3, <1>4, RegisterStep

\* ... return_gate.
LEMMA StepReturn ==
  ASSUME NEW k \in PagedKernels, NEW x, PagedInv(k, x, 14), NEW e, NEW y,
         y = [x EXCEPT !.mode = "user", !.esp = e]
  PROVE  PagedInv(k, y, 15)
<1>1. Machine(x) /\ Regs(k, x, 14)
  BY DEF PagedInv
<1>2. Differs(x, y, {"mode", "esp"}) /\ y.mode = "user"
  BY <1>1, Fields DEF Differs, Machine
<1>3. Machine(y) /\ SameMemory(x, y) /\ SameProcs(x, y) /\ SameImage(x, y)
  BY <1>2, RegistersOnly DEF Registers
<1>4. Regs(k, y, 14 + 1)
  BY <1>1, <1>2, RegistersOther DEF Regs
<1> QED BY <1>3, <1>4, RegisterStep

RegFields == {"IF", "irqs", "idtr", "tr", "gates", "esp", "mode", "msr", "esp0", "fault"}

\* A step that touches no register takes the register part to the next stage.
LEMMA RegsKept ==
  ASSUME NEW k \in PagedKernels, NEW x, NEW y, NEW F, Differs(x, y, F), F \cap RegFields = {},
         NEW s \in {6, 7, 8, 9, 11, 12}, Regs(k, x, s)
  PROVE  Regs(k, y, s + 1)
<1>1. /\ y.IF = x.IF /\ y.irqs = x.irqs /\ y.idtr = x.idtr /\ y.tr = x.tr /\ y.gates = x.gates
      /\ y.esp = x.esp /\ y.mode = x.mode /\ y.msr = x.msr /\ y.esp0 = x.esp0 /\ y.fault = x.fault
  BY RegistersOther DEF RegFields
<1> DEFINE r == s + 1
<1>2. r \in 7 .. 13 /\ (r >= 11 => s >= 11)
  OBVIOUS
<1> HIDE DEF r
<1>3. Regs(k, y, r)
  BY <1>1, <1>2 DEF Regs
<1> QED BY <1>3 DEF r

\* Fields that are not among the changed ones keep their values.
LEMMA MemoryOther ==
  ASSUME NEW x, NEW y, NEW F, Differs(x, y, F)
  PROVE  /\ F \cap {"pg", "cr3", "dirs", "tabs", "phys_mem"} = {} => SameMemory(x, y)
         /\ F \cap {"pcb", "freequeue", "idle_task", "task1"} = {} => SameProcs(x, y)
         /\ F \cap {"sys_size", "usr_size", "image", "mem"} = {} => SameImage(x, y)
         /\ "idle_task" \notin F => y.idle_task = x.idle_task
         /\ "task1" \notin F => y.task1 = x.task1
         /\ "pcb" \notin F => y.pcb = x.pcb
BY Fields DEF Differs, SameMemory, SameProcs, SameImage

\* Giving a task its directory changes that field of that PCB only.
LEMMA PcbDir ==
  ASSUME NEW p, DOMAIN p = Tasks, \A t \in Tasks : DOMAIN p[t] = DOMAIN ZeroPcb, NEW u \in Tasks, NEW v
  PROVE  LET q == [p EXCEPT ![u].dir = v]
         IN /\ DOMAIN q = Tasks /\ \A t \in Tasks : DOMAIN q[t] = DOMAIN ZeroPcb
            /\ q[u].dir = v /\ \A t \in Tasks \ {u} : q[t] = p[t]
            /\ q[u].PID = p[u].PID
<1>1. "dir" \in DOMAIN ZeroPcb
  BY DEF ZeroPcb
<1> QED BY <1>1

\* init_mm: tables with the kernel's pages, and paging on.
LEMMA StepMm ==
  ASSUME NEW k \in PagedKernels, NEW x, PagedInv(k, x, 6), NEW y,
         Differs(x, y, {"tabs", "dirs", "phys_mem", "pcb", "cr3", "pg"}),
         y.tabs = [j \in Tasks |-> [p \in 0 .. TOTAL_PAGES - 1 |-> KernelEntry(k, p)]],
         y.dirs = Dirs, y.phys_mem = 0 .. K - 1, y.pcb = [x.pcb EXCEPT ![0].dir = 0],
         y.cr3 = 0, y.pg = TRUE
  PROVE  PagedInv(k, y, 7)
<1>1. Machine(y) /\ Regs(k, x, 6) /\ Procs(k, x, 6) /\ Image(k, x, 6)
  BY DEF PagedInv, Differs
<1>2. Regs(k, y, 6 + 1)
  BY <1>1, RegsKept DEF RegFields
<1>3. SameImage(x, y) /\ y.idle_task = x.idle_task /\ y.task1 = x.task1
  BY MemoryOther
<1>4. Image(k, y, 6 + 1)
  BY <1>1, <1>3, ImageEarly
<1>5. Spaces(k, 7) = {} /\ Directory(k, 7) = 0
  BY DEF Spaces, Directory
<1>6. Tables(k, y, {}) /\ Frames(y, {})
  <2>1. Tables(k, y, {})
    BY DEF Tables, Entry
  <2>2. {FrameAt(y, s[1], s[2]) : s \in {} \X Pages} = {}
    OBVIOUS
  <2>3. Frames(y, {})
    BY <2>2 DEF Frames
  <2> QED BY <2>1, <2>3
<1>7. Paging(k, y, 7)
  <2>1. Tables(k, y, Spaces(k, 7)) /\ Frames(y, Spaces(k, 7)) /\ y.cr3 = Directory(k, 7)
    BY <1>5, <1>6
  <2> QED BY <2>1 DEF Paging
<1>8. Procs(k, y, 7)
  <2>1. 0 \in Tasks
    BY DEF Tasks
  <2> QED BY <1>1, <1>3, <2>1, PcbDir DEF Procs
<1> QED BY <1>1, <1>2, <1>4, <1>7, <1>8 DEF PagedInv

\* init_sched and init_idle: the free queue, and the first task of it.
LEMMA StepSched ==
  ASSUME NEW k \in PagedKernels, NEW x, PagedInv(k, x, 8), NEW y,
         Differs(x, y, {"pcb", "freequeue", "readyqueue", "quantum"}),
         y.freequeue = FreeQueue(k), DOMAIN y.pcb = Tasks,
         \A t \in Tasks : DOMAIN y.pcb[t] = DOMAIN ZeroPcb /\ y.pcb[t].dir = x.pcb[t].dir
  PROVE  PagedInv(k, y, 9)
<1>1. Machine(y) /\ Regs(k, x, 8) /\ Paging(k, x, 8) /\ Procs(k, x, 8) /\ Image(k, x, 8)
  BY DEF PagedInv, Differs
<1>2. Regs(k, y, 8 + 1)
  BY <1>1, RegsKept DEF RegFields
<1>3. SameMemory(x, y) /\ SameImage(x, y) /\ y.idle_task = x.idle_task /\ y.task1 = x.task1
  BY MemoryOther
<1>4. Paging(k, y, 8 + 1)
  BY <1>1, <1>3, PagingKept
<1>5. Image(k, y, 8 + 1)
  BY <1>1, <1>3, ImageEarly
<1>6. Procs(k, y, 9)
  <2>1. 0 \in Tasks
    BY DEF Tasks
  <2> QED BY <1>1, <1>3, <2>1 DEF Procs
<1> QED BY <1>1, <1>2, <1>4, <1>5, <1>6 DEF PagedInv

\* init_idle: the first free PCB becomes the idle process.
LEMMA StepIdle ==
  ASSUME NEW k \in PagedKernels, NEW x, PagedInv(k, x, 9), NEW y,
         Differs(x, y, {"pcb", "freequeue", "idle_task"}),
         y.freequeue = Tail(x.freequeue), y.idle_task = Idle(k), DOMAIN y.pcb = Tasks,
         \A t \in Tasks : DOMAIN y.pcb[t] = DOMAIN ZeroPcb, y.pcb[0].dir = 0
  PROVE  PagedInv(k, y, 10)
<1>1. Machine(y) /\ Regs(k, x, 9) /\ Paging(k, x, 9) /\ Procs(k, x, 9) /\ Image(k, x, 9)
  BY DEF PagedInv, Differs
<1>2. Regs(k, y, 9 + 1)
  BY <1>1, RegsKept DEF RegFields
<1>3. SameMemory(x, y) /\ SameImage(x, y) /\ y.task1 = x.task1
  BY MemoryOther
<1>4. Paging(k, y, 9 + 1)
  BY <1>1, <1>3, PagingKept
<1>5. Image(k, y, 9 + 1)
  BY <1>1, <1>3, ImageEarly
<1>6. Procs(k, y, 10)
  BY <1>1, <1>3 DEF Procs
<1> QED BY <1>1, <1>2, <1>4, <1>5, <1>6 DEF PagedInv

\* set_user_pages gives a table without user pages as many new frames.
LEMMA UserPagesSet ==
  ASSUME NEW k \in PagedKernels, NEW x, NEW y, NEW S, S \subseteq Tasks, NEW t \in Tasks \ S,
         Tables(k, x, S), Frames(x, S), NEW g,
         \A p \in Pages : g[p] \in Even /\ g[p] \notin x.phys_mem,
         \A p, q \in Pages : g[p] = g[q] => p = q,
         y.dirs = x.dirs,
         y.tabs = [x.tabs EXCEPT ![t] = Over([p \in Pages |-> PTE(g[p], TRUE, Writable(k, p))], x.tabs[t])],
         y.phys_mem = x.phys_mem \cup {g[p] : p \in Pages}
  PROVE  Tables(k, y, S \cup {t}) /\ Frames(y, S \cup {t})
<1> DEFINE T == 0 .. TOTAL_PAGES - 1
           h == Over([p \in Pages |-> PTE(g[p], TRUE, Writable(k, p))], x.tabs[t])
<1>1. Pages \subseteq T
  BY Sizes DEF Pages
<1>2. DOMAIN x.tabs = Tasks /\ DOMAIN x.tabs[t] = T
  BY DEF Tables
<1>3. /\ DOMAIN h = T
      /\ \A p \in Pages : h[p] = PTE(g[p], TRUE, Writable(k, p))
      /\ \A p \in T \ Pages : h[p] = x.tabs[t][p]
  BY <1>1, <1>2 DEF Over
<1> HIDE DEF h
<1>4. DOMAIN y.tabs = Tasks /\ y.tabs[t] = h /\ \A u \in Tasks \ {t} : y.tabs[u] = x.tabs[u]
  BY <1>2 DEF h
<1>5. \A p \in Pages : FrameAt(y, t, p) = g[p]
  <2>1. ASSUME NEW p \in Pages PROVE FrameAt(y, t, p) = g[p]
    <3>1. y.tabs[t][p] = PTE(g[p], TRUE, Writable(k, p))
      BY <1>3, <1>4
    <3> QED BY <3>1 DEF FrameAt, PTE
  <2> QED BY <2>1
<1>6. \A u \in S : u # t /\ u \in Tasks /\ \A p : FrameAt(y, u, p) = FrameAt(x, u, p)
  BY <1>4 DEF FrameAt
<1>7. ASSUME NEW u \in Tasks PROVE DOMAIN y.tabs[u] = T /\ \A p \in T : y.tabs[u][p] = Entry(k, y, S \cup {t}, u, p)
  <2>1. CASE u = t
    <3>1. ASSUME NEW p \in T PROVE y.tabs[t][p] = Entry(k, y, S \cup {t}, t, p)
      <4>1. CASE p \in Pages
        BY <1>3, <1>4, <1>5, <4>1 DEF Entry
      <4>2. CASE p \notin Pages
        <5>1. x.tabs[t][p] = KernelEntry(k, p)
          BY <4>2 DEF Tables, Entry
        <5> QED BY <1>3, <1>4, <4>2, <5>1 DEF Entry
      <4> QED BY <4>1, <4>2
    <3> QED BY <1>3, <1>4, <2>1, <3>1
  <2>2. CASE u # t
    <3>1. y.tabs[u] = x.tabs[u] /\ \A p : FrameAt(y, u, p) = FrameAt(x, u, p)
      BY <1>4, <2>2 DEF FrameAt
    <3>2. \A p \in T : x.tabs[u][p] = Entry(k, x, S, u, p) /\ DOMAIN x.tabs[u] = T
      BY DEF Tables
    <3>3. \A p : Entry(k, y, S \cup {t}, u, p) = Entry(k, x, S, u, p)
      BY <2>2, <3>1 DEF Entry
    <3>4. DOMAIN x.tabs[u] = T
      BY DEF Tables
    <3> QED BY <3>1, <3>2, <3>3, <3>4
  <2> QED BY <2>1, <2>2
<1>8. Tables(k, y, S \cup {t})
  BY <1>4, <1>7 DEF Tables
<1>9. \A u \in S : \A p \in Pages : FrameAt(x, u, p) \in x.phys_mem /\ FrameAt(x, u, p) \in Even
  <2>1. ASSUME NEW u \in S, NEW p \in Pages PROVE FrameAt(x, u, p) \in x.phys_mem /\ FrameAt(x, u, p) \in Even
    <3>1. << u, p >> \in S \X Pages /\ << u, p >>[1] = u /\ << u, p >>[2] = p
      OBVIOUS
    <3> QED BY <3>1 DEF Frames
  <2> QED BY <2>1
<1>10. \A u, v \in S \cup {t} : \A p, q \in Pages : FrameAt(y, u, p) = FrameAt(y, v, q) => u = v /\ p = q
  <2>1. ASSUME NEW u \in S, NEW v \in S, NEW p \in Pages, NEW q \in Pages, FrameAt(y, u, p) = FrameAt(y, v, q)
        PROVE  u = v /\ p = q
    BY <1>6, <2>1 DEF Frames
  <2>2. ASSUME NEW u \in S, NEW p \in Pages, NEW q \in Pages
        PROVE  FrameAt(y, u, p) # FrameAt(y, t, q)
    BY <1>5, <1>6, <1>9
  <2>3. ASSUME NEW p \in Pages, NEW q \in Pages, FrameAt(y, t, p) = FrameAt(y, t, q)
        PROVE  p = q
    BY <1>5, <2>3
  <2> QED BY <2>1, <2>2, <2>3
<1>11. {FrameAt(y, s[1], s[2]) : s \in (S \cup {t}) \X Pages}
         = {FrameAt(x, s[1], s[2]) : s \in S \X Pages} \cup {g[p] : p \in Pages}
  <2> DEFINE A == {FrameAt(y, s[1], s[2]) : s \in (S \cup {t}) \X Pages}
             B == {FrameAt(x, s[1], s[2]) : s \in S \X Pages}
             C == {g[p] : p \in Pages}
  <2>1. ASSUME NEW a \in A PROVE a \in B \cup C
    <3>1. PICK s \in (S \cup {t}) \X Pages : a = FrameAt(y, s[1], s[2])
      OBVIOUS
    <3>2. s[1] \in S \cup {t} /\ s[2] \in Pages
      OBVIOUS
    <3>3. CASE s[1] = t
      BY <1>5, <3>1, <3>2, <3>3
    <3>4. CASE s[1] \in S
      <4>1. s \in S \X Pages
        BY <3>2, <3>4
      <4> QED BY <1>6, <3>1, <3>4, <4>1
    <3> QED BY <3>2, <3>3, <3>4
  <2>2. ASSUME NEW b \in B PROVE b \in A
    <3>1. PICK s \in S \X Pages : b = FrameAt(x, s[1], s[2])
      OBVIOUS
    <3>2. s \in (S \cup {t}) \X Pages /\ s[1] \in S
      OBVIOUS
    <3> QED BY <1>6, <3>1, <3>2
  <2>3. ASSUME NEW p \in Pages PROVE g[p] \in A
    <3>1. << t, p >> \in (S \cup {t}) \X Pages /\ << t, p >>[1] = t /\ << t, p >>[2] = p
      OBVIOUS
    <3>2. g[p] = FrameAt(y, t, p)
      BY <1>5
    <3> QED BY <3>1, <3>2
  <2>4. A \subseteq B \cup C /\ B \subseteq A /\ C \subseteq A
    BY <2>1, <2>2, <2>3
  <2> HIDE DEF A, B, C
  <2>5. A = B \cup C
    BY <2>4
  <2> QED BY <2>5 DEF A, B, C
<1>12. \A u \in S \cup {t} : \A p \in Pages : FrameAt(y, u, p) \in Even
  BY <1>5, <1>6, <1>9
<1>13. y.phys_mem = (0 .. K - 1) \cup {FrameAt(y, s[1], s[2]) : s \in (S \cup {t}) \X Pages}
  BY <1>11 DEF Frames
<1>14. Frames(y, S \cup {t})
  BY <1>10, <1>12, <1>13 DEF Frames
<1> QED BY <1>8, <1>14

\* There are frames for one more address space.
FreeFrames(x) == {i \in Even : i \notin x.phys_mem}

\* While at most one address space is allocated, another fits.
LEMMA EnoughFrames ==
  ASSUME NEW x, NEW S \in {{}, {0}}, Frames(x, S)
  PROVE  IsFiniteSet(FreeFrames(x)) /\ FreeFrames(x) \subseteq Int /\ U <= Cardinality(FreeFrames(x))
<1> DEFINE D == Even \cap x.phys_mem
<1>1. FreeFrames(x) = Even \ x.phys_mem
  BY DEF FreeFrames
<1>2. IsFiniteSet(Even \ x.phys_mem) /\ Cardinality(Even \ x.phys_mem) = Cardinality(Even) - Cardinality(D)
  BY EvenFrames, FS_Difference
<1>3. Cardinality(D) \in Nat /\ Cardinality(D) <= U
  <2>1. Even \cap (0 .. K - 1) = {}
    BY Sizes DEF Even
  <2>2. D \subseteq {FrameAt(x, s[1], s[2]) : s \in S \X Pages}
    BY <2>1 DEF Frames
  <2>3. CASE S = {}
    <3>1. D = {}
      BY <2>2, <2>3
    <3> HIDE DEF D
    <3>2. Cardinality(D) = 0
      BY <3>1, FS_EmptySet
    <3> QED BY <3>2, Sizes
  <2>4. CASE S = {0}
    <3> DEFINE f == [p \in Pages |-> FrameAt(x, 0, p)]
               R == {FrameAt(x, 0, p) : p \in Pages}
    <3>1. f \in Surjection(Pages, R)
      BY DEF Surjection
    <3>2. K \in Int /\ K + U - 1 \in Int /\ ~(K > K + U - 1)
      BY Sizes
    <3>3. IsFiniteSet(Pages) /\ Cardinality(Pages) = IF K > K + U - 1 THEN 0 ELSE (K + U - 1) - K + 1
      BY <3>2, FS_Interval DEF Pages
    <3>4. Cardinality(Pages) = U
      BY <3>2, <3>3, Sizes
    <3>5. IsFiniteSet(R) /\ Cardinality(R) <= Cardinality(Pages)
      <4> HIDE DEF f, R
      <4> QED BY <3>1, <3>3, FS_Surjection
    <3>6. D \in SUBSET R
      <4>1. ASSUME NEW a \in D PROVE a \in R
        <5>1. PICK s \in {0} \X Pages : a = FrameAt(x, s[1], s[2])
          BY <2>2, <2>4
        <5>2. s[1] = 0 /\ s[2] \in Pages
          OBVIOUS
        <5> QED BY <5>1, <5>2
      <4> QED BY <4>1
    <3> HIDE DEF R, D, f
    <3>7. IsFiniteSet(D) /\ Cardinality(D) <= Cardinality(R)
      BY <3>5, <3>6, FS_Subset
    <3>8. Cardinality(D) \in Nat /\ Cardinality(R) \in Nat
      BY <3>5, <3>7, FS_CardinalityType
    <3> QED BY <3>4, <3>5, <3>7, <3>8, Sizes
  <2> QED BY <2>3, <2>4
<1>4. Cardinality(Even) \in Nat /\ Cardinality(Even) >= 2 * U
  BY EvenFrames, FS_CardinalityType
<1>5. FreeFrames(x) \subseteq Int
  BY Sizes DEF FreeFrames, Even
<1> HIDE DEF D
<1> QED BY <1>1, <1>2, <1>3, <1>4, <1>5, Sizes

\* The frames of n calls, in any order of the pages.
LEMMA FramesFor ==
  ASSUME NEW x, NEW S \in {{}, {0}}, Frames(x, S), NEW r,
         \A p \in Pages : r[p] \in 1 .. U, \A p, q \in Pages : r[p] = r[q] => p = q
  PROVE  /\ \A p \in Pages : NthFree(FreeFrames(x), r[p]) \in Even
         /\ \A p \in Pages : NthFree(FreeFrames(x), r[p]) \notin x.phys_mem
         /\ \A p, q \in Pages : NthFree(FreeFrames(x), r[p]) = NthFree(FreeFrames(x), r[q]) => p = q
<1>1. IsFiniteSet(FreeFrames(x)) /\ FreeFrames(x) \subseteq Int /\ U <= Cardinality(FreeFrames(x)) /\ U \in Nat
  BY EnoughFrames, Sizes
<1>2. /\ \A i \in 1 .. U : NthFree(FreeFrames(x), i) \in FreeFrames(x)
      /\ \A i, j \in 1 .. U : NthFree(FreeFrames(x), i) = NthFree(FreeFrames(x), j) => i = j
  <2> DEFINE F == FreeFrames(x)
  <2>1. IsFiniteSet(F) /\ F \subseteq Int /\ U <= Cardinality(F) /\ U \in Nat
    BY <1>1
  <2> HIDE DEF F
  <2>2. /\ \A i \in 1 .. U : NthFree(F, i) \in F
        /\ \A i, j \in 1 .. U : NthFree(F, i) = NthFree(F, j) => i = j
    BY <2>1, FramesTaken
  <2> QED BY <2>2 DEF F
<1>3. \A p \in Pages : NthFree(FreeFrames(x), r[p]) \in FreeFrames(x)
  BY <1>2
<1>4. \A p, q \in Pages : NthFree(FreeFrames(x), r[p]) = NthFree(FreeFrames(x), r[q]) => p = q
  <2>1. ASSUME NEW p \in Pages, NEW q \in Pages, NthFree(FreeFrames(x), r[p]) = NthFree(FreeFrames(x), r[q])
        PROVE  p = q
    BY <1>2, <2>1
  <2> QED BY <2>1
<1> QED BY <1>3, <1>4 DEF FreeFrames

\* set_user_pages gives a task an address space of its own: in the game kernel,
LEMMA GameUserPages ==
  ASSUME NEW x, Machine(x), NEW S \in {{}, {0}}, NEW t \in Tasks \ S, Tables("GAME", x, S), Frames(x, S),
         x.pcb[t].dir = t, NEW y, y = Game!set_user_pages(x, t)
  PROVE  /\ Differs(x, y, {"phys_mem", "tabs"})
         /\ Tables("GAME", y, S \cup {t}) /\ Frames(y, S \cup {t})
<1> DEFINE r == [p \in Pages |-> p - K + 1]
           g == [p \in Pages |-> NthFree(FreeFrames(x), r[p])]
<1>1. /\ \A p \in Pages : r[p] \in 1 .. U
      /\ \A p, q \in Pages : r[p] = r[q] => p = q
  BY Sizes DEF Pages
<1>2. /\ \A p \in Pages : g[p] \in Even /\ g[p] \notin x.phys_mem
      /\ \A p, q \in Pages : g[p] = g[q] => p = q
  <2> HIDE DEF r
  <2> QED BY <1>1, FramesFor
<1>3. \A n : Game!alloc_frame(x, n) = NthFree(FreeFrames(x), n)
  <2>1. Game!Allocatable(x) = FreeFrames(x)
    BY DEF Game!Allocatable, FreeFrames, Even, K
  <2>2. \A n : Game!NthFree(FreeFrames(x), n) = NthFree(FreeFrames(x), n)
    BY DEF Game!NthFree, NthFree, Game!Cardinality, Cardinality
  <2> QED BY <2>1, <2>2 DEF Game!alloc_frame
<1>4. Game!get_PT(x, t) = t
  BY DEF Game!get_PT, Game!get_DIR, Tables, Dirs
<1>5. Game!PAG_LOG_INIT_CODE .. Game!PAG_LOG_INIT_DATA + NUM_PAG_DATA - 1 = Pages
  BY GameLayout, Sizes DEF Pages
<1>6. [p \in Pages |-> Game!alloc_frame(x, p - Game!PAG_LOG_INIT_CODE + 1)] = g
  BY <1>3, GameLayout
<1> DEFINE h == [p \in Pages |-> PTE(g[p], TRUE, Writable("GAME", p))]
<1>7. [p \in Pages |-> Game!PTE(g[p], TRUE, p >= Game!PAG_LOG_INIT_DATA)] = h
  BY GameLayout DEF Game!PTE, PTE, Writable
<1> HIDE DEF g, h, r
<1>8. y = [x EXCEPT !.phys_mem = @ \cup {g[p] : p \in Pages}, !.tabs[t] = Game!Over(h, @)]
  BY <1>4, <1>5, <1>6, <1>7 DEF Game!set_user_pages
<1> DEFINE b == x.phys_mem \cup {g[p] : p \in Pages}
           c == [x.tabs EXCEPT ![t] = Over(h, x.tabs[t])]
<1>9. y = [x EXCEPT !.phys_mem = b, !.tabs = c]
  BY <1>8 DEF Game!Over, Over
<1> HIDE DEF b, c
<1>10. Differs(x, y, {"phys_mem", "tabs"}) /\ y.phys_mem = b /\ y.tabs = c
  BY <1>9, Fields DEF Differs, Machine
<1>11. y.dirs = x.dirs
  BY <1>10, Fields DEF Differs
<1>12. Tables("GAME", y, S \cup {t}) /\ Frames(y, S \cup {t})
  <2>1. S \subseteq Tasks
    BY DEF Tasks
  <2> QED BY <1>2, <1>10, <1>11, <2>1, UserPagesSet DEF PagedKernels, b, c, h
<1> QED BY <1>10, <1>12

\* ... and in E1_E2.
LEMMA E1UserPages ==
  ASSUME NEW x, Machine(x), NEW S \in {{}, {0}}, NEW t \in Tasks \ S, Tables("E1", x, S), Frames(x, S),
         x.pcb[t].dir = t, NEW y, y = E1!set_user_pages(x, t)
  PROVE  /\ Differs(x, y, {"phys_mem", "tabs"})
         /\ Tables("E1", y, S \cup {t}) /\ Frames(y, S \cup {t})
<1> DEFINE code == E1!PAG_LOG_INIT_CODE .. E1!PAG_LOG_INIT_CODE + NUM_PAG_CODE - 1
           data == E1!PAG_LOG_INIT_DATA .. E1!PAG_LOG_INIT_DATA + NUM_PAG_DATA - 1
           r == [p \in Pages |-> IF p \in code THEN p - E1!PAG_LOG_INIT_CODE + 1
                                 ELSE NUM_PAG_CODE + p - E1!PAG_LOG_INIT_DATA + 1]
           g == [p \in Pages |-> NthFree(FreeFrames(x), r[p])]
<1>0. /\ code = K + NUM_PAG_DATA .. K + U - 1 /\ data = K .. K + NUM_PAG_DATA - 1
      /\ code \cup data = Pages
  <2>1. code = (K + NUM_PAG_DATA) .. (K + NUM_PAG_DATA) + NUM_PAG_CODE - 1 /\ data = K .. K + NUM_PAG_DATA - 1
    BY E1Layout
  <2>2. (K + NUM_PAG_DATA) + NUM_PAG_CODE - 1 = K + U - 1
    BY Sizes
  <2> HIDE DEF code, data
  <2>3. code = K + NUM_PAG_DATA .. K + U - 1
    BY <2>1, <2>2
  <2> QED BY <2>1, <2>3, Sizes DEF Pages
<1>1. /\ \A p \in Pages : r[p] \in 1 .. U
      /\ \A p, q \in Pages : r[p] = r[q] => p = q
  <2>1. ASSUME NEW p \in Pages
        PROVE  /\ p \in code => r[p] = p - (K + NUM_PAG_DATA) + 1 /\ r[p] \in 1 .. NUM_PAG_CODE
               /\ p \notin code => r[p] = NUM_PAG_CODE + p - K + 1 /\ r[p] \in NUM_PAG_CODE + 1 .. U
               /\ p \in Int
    BY <1>0, E1Layout, Sizes DEF Pages
  <2> HIDE DEF r, code
  <2>2. \A p \in Pages : r[p] \in 1 .. U
    BY <2>1, Sizes
  <2>3. ASSUME NEW p \in Pages, NEW q \in Pages, r[p] = r[q] PROVE p = q
    BY <2>1, <2>3, Sizes
  <2> QED BY <2>2, <2>3
<1>2. /\ \A p \in Pages : g[p] \in Even /\ g[p] \notin x.phys_mem
      /\ \A p, q \in Pages : g[p] = g[q] => p = q
  <2> HIDE DEF r
  <2> QED BY <1>1, FramesFor
<1>3. \A n : E1!alloc_frame(x, n) = NthFree(FreeFrames(x), n)
  <2>1. {i \in NUM_PAG_KERNEL .. TOTAL_PAGES - 1 : (i - NUM_PAG_KERNEL) % 2 = 0 /\ i \notin x.phys_mem}
          = FreeFrames(x)
    BY DEF FreeFrames, Even, K
  <2>2. \A n : E1!NthFree(FreeFrames(x), n) = NthFree(FreeFrames(x), n)
    BY DEF E1!NthFree, NthFree, E1!Cardinality, Cardinality
  <2> QED BY <2>1, <2>2 DEF E1!alloc_frame
<1>4. E1!get_PT(x, t) = t
  BY DEF E1!get_PT, E1!get_DIR, Tables, Dirs
<1>6. [p \in code \cup data |-> E1!alloc_frame(x, IF p \in code THEN p - E1!PAG_LOG_INIT_CODE + 1
                                 ELSE NUM_PAG_CODE + p - E1!PAG_LOG_INIT_DATA + 1)] = g
  <2> HIDE DEF code, data
  <2> QED BY <1>0, <1>3
<1> DEFINE h == [p \in Pages |-> PTE(g[p], TRUE, Writable("E1", p))]
<1>7. [p \in code \cup data |-> E1!PTE(g[p], TRUE, p \in data)] = h
  <2>1. ASSUME NEW p \in Pages PROVE (p \in data) = Writable("E1", p)
    <3> HIDE DEF data, code
    <3>1. p \in data <=> p < K + NUM_PAG_DATA
      BY <1>0, Sizes DEF Pages
    <3> QED BY <3>1 DEF Writable
  <2> HIDE DEF data, code, g
  <2> QED BY <1>0, <2>1 DEF E1!PTE, PTE
<1>8. y = [x EXCEPT !.phys_mem = @ \cup {g[p] : p \in Pages}, !.tabs[t] = E1!Over(h, @)]
  <2> DEFINE fr == [p \in code \cup data |-> E1!alloc_frame(x, IF p \in code THEN p - E1!PAG_LOG_INIT_CODE + 1
                                 ELSE NUM_PAG_CODE + p - E1!PAG_LOG_INIT_DATA + 1)]
             e == [p \in code \cup data |-> E1!PTE(fr[p], TRUE, p \in data)]
  <2>1. y = [x EXCEPT !.phys_mem = @ \cup {fr[p] : p \in code \cup data}, !.tabs[E1!get_PT(x, t)] = E1!Over(e, @)]
    BY DEF E1!set_user_pages
  <2>2. fr = g
    BY <1>6
  <2> HIDE DEF fr, g, h, code, data
  <2>3. e = h
    BY <1>7, <2>2
  <2> HIDE DEF e
  <2>4. {fr[p] : p \in code \cup data} = {g[p] : p \in Pages}
    BY <1>0, <2>2
  <2> QED BY <1>4, <2>1, <2>3, <2>4
<1> HIDE DEF g, h, r, code, data
<1> DEFINE b == x.phys_mem \cup {g[p] : p \in Pages}
           c == [x.tabs EXCEPT ![t] = Over(h, x.tabs[t])]
<1>9. y = [x EXCEPT !.phys_mem = b, !.tabs = c]
  BY <1>8 DEF E1!Over, Over
<1> HIDE DEF b, c
<1>10. Differs(x, y, {"phys_mem", "tabs"}) /\ y.phys_mem = b /\ y.tabs = c
  BY <1>9, Fields DEF Differs, Machine
<1>11. y.dirs = x.dirs
  BY <1>10, Fields DEF Differs
<1>12. Tables("E1", y, S \cup {t}) /\ Frames(y, S \cup {t})
  <2>1. S \subseteq Tasks
    BY DEF Tasks
  <2> QED BY <1>2, <1>10, <1>11, <2>1, UserPagesSet DEF PagedKernels, b, c, h
<1> QED BY <1>10, <1>12

\* A quotient between bounds.
LEMMA DivBounds ==
  ASSUME NEW d \in Nat \ {0}, NEW a \in Nat, NEW l \in Nat, NEW h \in Nat, l * d <= a, a < h * d
  PROVE  a \div d \in l .. h - 1
<1> DEFINE q == a \div d
           r == a % d
<1>1. q \in Nat /\ a = d * q + r /\ r \in 0 .. d - 1
  BY DivMod
<1> HIDE DEF q, r
<1>2. q >= l
  <2> SUFFICES ASSUME q < l PROVE FALSE
    BY <1>1
  <2>1. l - (q + 1) \in Nat
    BY <1>1
  <2>2. l * d = d * q + d + (l - (q + 1)) * d
    BY <1>1, <2>1
  <2>3. (l - (q + 1)) * d \in Nat /\ l * d \in Nat /\ d * q \in Nat
    BY <1>1, <2>1
  <2> QED BY <1>1, <2>2, <2>3
<1>3. q < h
  <2> SUFFICES ASSUME q >= h PROVE FALSE
    BY <1>1
  <2>1. q - h \in Nat
    BY <1>1
  <2>2. d * q = h * d + (q - h) * d
    BY <1>1, <2>1
  <2>3. (q - h) * d \in Nat /\ h * d \in Nat /\ d * q \in Nat
    BY <1>1, <2>1
  <2> QED BY <1>1, <2>2, <2>3
<1>4. q \in l .. h - 1
  BY <1>1, <1>2, <1>3
<1> QED BY <1>4 DEF q

\* Where the user program lies in memory and where it goes.
LEMMA CopyPages ==
  ASSUME NEW x, x.sys_size \in SysSizes, x.usr_size \in UsrSizes
  PROVE  /\ x.sys_size \in Nat /\ x.usr_size \in Nat
         /\ \A a \in 0 .. x.usr_size - 1 : PH_PAGE(KERNEL_START + x.sys_size + a) \in 16 .. K - 1
         /\ ImagePages(x) \subseteq 0 .. U - 1
         /\ KERNEL_START + x.sys_size + x.usr_size \in Nat
         /\ PH_PAGE(KERNEL_START + x.sys_size + x.usr_size) \in 16 .. K
<1> DEFINE s == x.sys_size
           u == x.usr_size
           b == KERNEL_START + s
<1>1. s \in Nat /\ u \in Nat /\ PAGE \in Nat \ {0} /\ PAGE > 1
  <2>1. LEN_FIELD \in Nat
    BY BuildAssumption
  <2>2. \A n \in SysSizes \cup UsrSizes : n \in Nat
    BY <2>1, SizesAssumption
  <2> QED BY <2>2, Sizes
<1>2. 16 * PAGE <= b /\ b + u <= K * PAGE /\ u <= U * PAGE /\ b \in Nat
  <2>1. /\ (FirstTaskPage + NR_TASKS + 2) * PAGE <= KERNEL_START + s
        /\ KERNEL_START + s + u <= NUM_PAG_KERNEL * PAGE
        /\ u <= (NUM_PAG_CODE + NUM_PAG_DATA) * PAGE
    BY ImageAssumption
  <2>2. FirstTaskPage + NR_TASKS + 2 = 16
    BY DEF FirstTaskPage, NR_TASKS
  <2>3. b \in Nat
    BY <1>1 DEF KERNEL_START
  <2> QED BY <2>1, <2>2, <2>3 DEF K, U
<1> HIDE DEF s, u, b
<1>3. ASSUME NEW a \in 0 .. u - 1 PROVE PH_PAGE(b + a) \in 16 .. K - 1
  <2>1. b + a \in Nat /\ 16 * PAGE <= b + a /\ b + a < K * PAGE /\ K \in Nat /\ 16 \in Nat
    <3>1. 16 * PAGE \in Nat /\ K * PAGE \in Nat /\ K \in Nat
      BY <1>1, Sizes
    <3> QED BY <1>1, <1>2, <3>1
  <2> QED BY <1>1, <2>1, DivBounds DEF PH_PAGE
<1>4. 0 .. (u + PAGE - 1) \div PAGE - 1 \subseteq 0 .. U - 1
  <2>1. U \in Nat /\ U * PAGE \in Nat /\ (U + 1) * PAGE = U * PAGE + PAGE /\ U + 1 \in Nat
    BY <1>1, Sizes
  <2>2. u + PAGE - 1 \in Nat /\ 0 * PAGE <= u + PAGE - 1 /\ u + PAGE - 1 < (U + 1) * PAGE
    BY <1>1, <1>2, <2>1
  <2>3. (u + PAGE - 1) \div PAGE \in 0 .. (U + 1) - 1
    BY <1>1, <2>1, <2>2, DivBounds
  <2> QED BY <2>1, <2>3
<1>5. PH_PAGE(b + u) \in 16 .. K
  <2>1. K \in Nat /\ K + 1 \in Nat /\ K * PAGE \in Nat /\ (K + 1) * PAGE = K * PAGE + PAGE /\ 16 * PAGE \in Nat
    BY <1>1, Sizes
  <2>2. b + u \in Nat /\ 16 * PAGE <= b + u /\ b + u < (K + 1) * PAGE
    BY <1>1, <1>2, <2>1
  <2>3. PH_PAGE(b + u) \in 16 .. (K + 1) - 1
    BY <1>1, <2>1, <2>2, DivBounds DEF PH_PAGE
  <2> QED BY <2>1, <2>3
<1>6. b + u \in Nat
  BY <1>1, <1>2
<1> QED BY <1>1, <1>3, <1>4, <1>5, <1>6 DEF b, s, u, ImagePages

\* copy_data: behind every logical page of the image lies that page of it.
LEMMA CopyDone ==
  ASSUME NEW x, NEW y, NEW first \in Nat, Machine(x), x.image = ImagePages(x),
         \A i, j \in ImagePages(x) : Frame(x, first + i) = Frame(x, first + j) => i = j,
         Access(x, {PH_PAGE(KERNEL_START + x.sys_size + a) : a \in 0 .. x.usr_size - 1}
                     \cup {first + i : i \in ImagePages(x)}) = x,
         y = CopyImage(x, first)
  PROVE  Differs(x, y, {"mem"}) /\ \A i \in ImagePages(x) : y.mem[Frame(x, first + i)] = i
<1> DEFINE dst == {first + i : i \in ImagePages(x)}
           g == [f \in {Frame(x, p) : p \in dst} |->
                   LET i == CHOOSE i \in ImagePages(x) : Frame(x, first + i) = f
                   IN IF i \in x.image THEN i ELSE None]
           c == Over(g, x.mem)
<1>1. y = [x EXCEPT !.mem = c]
  BY DEF CopyImage
<1>2. ASSUME NEW i \in ImagePages(x) PROVE c[Frame(x, first + i)] = i
  <2> DEFINE f == Frame(x, first + i)
  <2>1. f \in DOMAIN g
    OBVIOUS
  <2>2. (CHOOSE j \in ImagePages(x) : Frame(x, first + j) = f) = i
    OBVIOUS
  <2>3. g[f] = i
    BY <2>1, <2>2
  <2> HIDE DEF g, f
  <2>4. c[f] = i
    BY <2>1, <2>3 DEF Over
  <2> QED BY <2>4 DEF f
<1> HIDE DEF c
<1>3. Differs(x, y, {"mem"}) /\ y.mem = c
  BY <1>1, Fields DEF Differs, Machine
<1> QED BY <1>2, <1>3

\* monoprocess_init_addr_space: user pages for task[0].
LEMMA StepMono ==
  ASSUME NEW x, PagedInv("E1", x, 7), NEW y, y = E1!monoprocess_init_addr_space(x)
  PROVE  PagedInv("E1", y, 8)
<1>1. Machine(x) /\ Regs("E1", x, 7) /\ Paging("E1", x, 7) /\ Procs("E1", x, 7) /\ Image("E1", x, 7)
      /\ "E1" \in PagedKernels
  BY DEF PagedInv, PagedKernels
<1>2. x.pg = TRUE /\ x.cr3 = 0 /\ Tables("E1", x, {}) /\ Frames(x, {}) /\ x.pcb[0].dir = 0
  BY <1>1 DEF Paging, Procs, Spaces, Directory
<1> DEFINE z == E1!set_user_pages(x, 0)
<1>3. Differs(x, z, {"phys_mem", "tabs"}) /\ Tables("E1", z, {0}) /\ Frames(z, {0})
  <2>1. 0 \in Tasks \ {} /\ {} \cup {0} = {0}
    BY DEF Tasks
  <2> HIDE DEF z
  <2>2. /\ Differs(x, z, {"phys_mem", "tabs"}) /\ Tables("E1", z, {} \cup {0}) /\ Frames(z, {} \cup {0})
    BY <1>1, <1>2, <2>1, E1UserPages DEF z
  <2> QED BY <2>1, <2>2
<1>4. y = [z EXCEPT !.cr3 = z.pcb[0].dir]
  BY DEF E1!monoprocess_init_addr_space, E1!set_cr3, E1!MovCr3, E1!get_DIR
<1> HIDE DEF z
<1>5. z.pcb = x.pcb /\ Machine(z) /\ z.pg = x.pg
  BY <1>3, Fields DEF Differs
<1>6. Differs(z, y, {"cr3"}) /\ y.cr3 = 0
  BY <1>2, <1>4, <1>5, Fields DEF Differs, Machine
<1>7. Differs(x, y, {"phys_mem", "tabs", "cr3"})
  BY <1>3, <1>6, DiffersTwice
<1>8. Machine(y) /\ y.tabs = z.tabs /\ y.dirs = z.dirs /\ y.phys_mem = z.phys_mem /\ y.pg = x.pg
  BY <1>5, <1>6, Fields DEF Differs
<1>9. Tables("E1", y, {0}) /\ Frames(y, {0})
  <2>2. \A t, p : FrameAt(y, t, p) = FrameAt(z, t, p)
    BY <1>8 DEF FrameAt
  <2>3. \A t, p : Entry("E1", y, {0}, t, p) = Entry("E1", z, {0}, t, p)
    BY <2>2 DEF Entry
  <2> QED BY <1>3, <1>8, <2>2, <2>3 DEF Tables, Frames
<1>10. Paging("E1", y, 8)
  <2>1. Spaces("E1", 8) = {0} /\ Directory("E1", 8) = 0
    BY DEF Spaces, Directory
  <2>2. Tables("E1", y, Spaces("E1", 8)) /\ Frames(y, Spaces("E1", 8)) /\ y.cr3 = Directory("E1", 8)
    BY <1>6, <1>9, <2>1
  <2> QED BY <1>2, <1>8, <2>2 DEF Paging
<1>11. Regs("E1", y, 7 + 1)
  BY <1>1, <1>7, RegsKept DEF RegFields
<1>12. SameProcs(x, y) /\ SameImage(x, y)
  BY <1>7, MemoryOther
<1>13. Procs("E1", y, 7 + 1)
  BY <1>1, <1>12, ProcsKept
<1>14. Image("E1", y, 7 + 1)
  BY <1>1, <1>12, ImageEarly
<1> QED BY <1>8, <1>10, <1>11, <1>13, <1>14 DEF PagedInv

\* init_task1: the second task of the free queue, its pages, its stack.
LEMMA StepTask1 ==
  ASSUME NEW k \in PagedKernels, NEW x, PagedInv(k, x, 10), NEW y,
         Differs(x, y, {"pcb", "freequeue", "task1", "quantum", "phys_mem", "tabs", "esp0", "msr", "cr3"}),
         Tables(k, y, Spaces(k, 10) \cup {Task(k)}), Frames(y, Spaces(k, 10) \cup {Task(k)}),
         y.task1 = Task(k), y.esp0 = Top(k), y.msr[373] = Top(k), y.cr3 = Task(k), DOMAIN y.pcb = Tasks,
         \A t \in Tasks : DOMAIN y.pcb[t] = DOMAIN ZeroPcb,
         y.pcb[0].dir = 0, y.pcb[Task(k)].dir = Task(k), y.pcb[Task(k)].PID = 1
  PROVE  PagedInv(k, y, 11)
<1>1. Machine(y) /\ Regs(k, x, 10) /\ Paging(k, x, 10) /\ Procs(k, x, 10) /\ Image(k, x, 10)
  BY DEF PagedInv, Differs
<1>2. Regs(k, y, 11)
  BY <1>1, RegistersOther DEF Regs
<1>3. SameImage(x, y) /\ y.idle_task = x.idle_task
  BY MemoryOther
<1>4. Image(k, y, 10 + 1)
  BY <1>1, <1>3, ImageEarly
<1>5. Spaces(k, 11) = Spaces(k, 10) \cup {Task(k)} /\ Directory(k, 11) = Task(k)
  BY DEF Spaces, Directory, Task
<1>6. y.pg = TRUE
  <2>1. x.pg = TRUE
    BY <1>1 DEF Paging
  <2> QED BY <2>1, Fields DEF Differs
<1>7. Paging(k, y, 11)
  <2>1. Tables(k, y, Spaces(k, 11)) /\ Frames(y, Spaces(k, 11)) /\ y.cr3 = Directory(k, 11)
    BY <1>5
  <2> QED BY <1>6, <2>1 DEF Paging
<1>8. Procs(k, y, 11)
  BY <1>1, <1>3 DEF Procs
<1> QED BY <1>1, <1>2, <1>4, <1>7, <1>8 DEF PagedInv

\* copy_data.
LEMMA StepCopy ==
  ASSUME NEW k \in PagedKernels, NEW s \in 11 .. 12, s = (IF k = "E1" THEN 11 ELSE 12), NEW x, PagedInv(k, x, s),
         NEW y, y = CopyImage(x, K)
  PROVE  PagedInv(k, y, s + 1)
<1>1. Machine(x) /\ Regs(k, x, s) /\ Paging(k, x, s) /\ Procs(k, x, s) /\ Image(k, x, s) /\ s \in 7 .. 15 /\ s \in 1 .. 15
      /\ s \in 1 .. 14
  BY DEF PagedInv
<1>2. Directory(k, s) = Task(k) /\ Task(k) \in Spaces(k, s)
  BY DEF Directory, Spaces, Task
<1>3. x.sys_size \in SysSizes /\ x.usr_size \in UsrSizes /\ x.image = ImagePages(x) /\ x.fault = FALSE
  BY <1>1 DEF Image, Regs
<1>4. ImagePages(x) \subseteq 0 .. U - 1
  BY <1>3, CopyPages
<1>5. \A i \in ImagePages(x) : K + i \in Pages /\ i \in Int
  BY <1>4, Sizes DEF Pages
<1>6. \A p \in Pages : Mapped(x, p) /\ Frame(x, p) = FrameAt(x, Task(k), p)
  BY <1>1, <1>2, UserMapped
<1>7. ASSUME NEW i \in ImagePages(x), NEW j \in ImagePages(x), Frame(x, K + i) = Frame(x, K + j) PROVE i = j
  <2>1. FrameAt(x, Task(k), K + i) = FrameAt(x, Task(k), K + j)
    BY <1>5, <1>6, <1>7
  <2>2. Frames(x, Spaces(k, s))
    BY <1>1 DEF Paging
  <2>3. K + i = K + j
    BY <1>2, <1>5, <2>1, <2>2 DEF Frames
  <2> QED BY <1>5, <2>3, Sizes
<1> DEFINE src == {PH_PAGE(KERNEL_START + x.sys_size + a) : a \in 0 .. x.usr_size - 1}
           dst == {K + i : i \in ImagePages(x)}
<1>8. Access(x, src \cup dst) = x
  <2>1. ASSUME NEW p \in src PROVE Mapped(x, p)
    <3>1. p \in 16 .. K - 1
      BY <1>3, CopyPages
    <3>2. p \in (1 .. K - 1) \ Holes(k)
      BY <3>1, Sizes DEF Holes
    <3> QED BY <1>1, <3>2, KernelMapped
  <2>2. ASSUME NEW p \in dst PROVE Mapped(x, p)
    BY <1>5, <1>6
  <2> HIDE DEF src, dst
  <2> QED BY <1>1, <1>3, <2>1, <2>2, AccessSame
<1>9. Differs(x, y, {"mem"}) /\ \A i \in ImagePages(x) : y.mem[Frame(x, K + i)] = i
  BY <1>1, <1>3, <1>7, <1>8, CopyDone, Sizes
<1>10. Machine(y) /\ SameMemory(x, y) /\ SameProcs(x, y) /\ Regs(k, y, s + 1)
  <2>1. SameMemory(x, y) /\ SameProcs(x, y)
    BY <1>9, MemoryOther
  <2>2. Regs(k, y, s + 1)
    BY <1>1, <1>9, RegsKept DEF RegFields
  <2> QED BY <1>9, <2>1, <2>2 DEF Differs
<1>11. Paging(k, y, s + 1) /\ Procs(k, y, s + 1)
  BY <1>1, <1>10, PagingKept, ProcsKept
<1>12. Image(k, y, s + 1)
  <2>1. y.sys_size = x.sys_size /\ y.usr_size = x.usr_size /\ y.image = x.image /\ y.tabs = x.tabs
    BY <1>9, Fields DEF Differs
  <2>2. ImagePages(y) = ImagePages(x)
    BY <2>1 DEF ImagePages
  <2>3. ASSUME NEW i \in ImagePages(x) PROVE y.mem[FrameAt(y, Task(k), K + i)] = i
    <3>1. FrameAt(y, Task(k), K + i) = Frame(x, K + i)
      BY <1>5, <1>6, <2>1 DEF FrameAt
    <3> QED BY <1>9, <3>1
  <2> QED BY <1>3, <2>1, <2>2, <2>3 DEF Image
<1> QED BY <1>10, <1>11, <1>12 DEF PagedInv

\* The calls of the game kernel that work on registers do what the stages say,
LEMMA GameRegisters ==
  ASSUME NEW x
  PROVE  /\ PagedInv("GAME", x, 1) => PagedInv("GAME", Game!set_eflags(x), 2)
         /\ PagedInv("GAME", x, 2) => PagedInv("GAME", Game!set_seg_regs(x), 3)
         /\ PagedInv("GAME", x, 3) => PagedInv("GAME", Game!setGdt(x), 4)
         /\ PagedInv("GAME", x, 4) => PagedInv("GAME", Game!setIdt(x), 5)
         /\ PagedInv("GAME", x, 5) => PagedInv("GAME", Game!setTSS(x), 6)
         /\ PagedInv("GAME", x, 13) => PagedInv("GAME", Game!enable_int(x), 14)
         /\ PagedInv("GAME", x, 14) => PagedInv("GAME", Game!return_gate(x), 15)
<1>0. "GAME" \in PagedKernels
  BY DEF PagedKernels
<1>1. ASSUME PagedInv("GAME", x, 1) PROVE PagedInv("GAME", Game!set_eflags(x), 2)
  BY <1>0, <1>1, StepEflags DEF Game!set_eflags, Game!Popfl0
<1>2. ASSUME PagedInv("GAME", x, 2) PROVE PagedInv("GAME", Game!set_seg_regs(x), 3)
  BY <1>0, <1>2, StepSegRegs, GameLayout DEF Game!set_seg_regs, Game!MovEsp
<1>3. ASSUME PagedInv("GAME", x, 3) PROVE PagedInv("GAME", Game!setGdt(x), 4)
  <2>1. {GDT_PAGE} \subseteq (1 .. K - 1) \ Holes("GAME")
    BY Sizes DEF Holes
  <2>2. Game!Access(x, {GDT_PAGE}) = x
    BY <1>0, <1>3, <2>1, KernelAccess, AccessGame
  <2> QED BY <1>0, <1>3, <2>2, StepGdt DEF Game!setGdt, Game!set_gdt_reg, Game!Lgdt
<1>4. ASSUME PagedInv("GAME", x, 4) PROVE PagedInv("GAME", Game!setIdt(x), 5)
  <2>1. Machine(x)
    BY <1>4 DEF PagedInv
  <2> QED BY <1>0, <1>4, <2>1, StepIdt, GameIdt
<1>5. ASSUME PagedInv("GAME", x, 5) PROVE PagedInv("GAME", Game!setTSS(x), 6)
  BY <1>0, <1>5, StepTss DEF Game!setTSS, Game!set_task_reg, Game!Ltr
<1>6. ASSUME PagedInv("GAME", x, 13) PROVE PagedInv("GAME", Game!enable_int(x), 14)
  BY <1>0, <1>6, StepEnable DEF Game!enable_int, Game!Sti, Game!UnmaskIrqs
<1>7. ASSUME PagedInv("GAME", x, 14) PROVE PagedInv("GAME", Game!return_gate(x), 15)
  <2> DEFINE ps == {Game!PH_PAGE(Game!USER_ESP), Game!TextPage, Game!StackPage(x.esp)}
  <2>1. Game!TextPage = 2 /\ Game!StackPage(x.esp) = BootPage("GAME") /\ x.fault = FALSE /\ Machine(x)
    <3>1. x.esp = BootEsp("GAME") /\ x.fault = FALSE /\ Machine(x)
      BY <1>7 DEF PagedInv, Regs
    <3> QED BY <1>0, <3>1, StackPages DEF Game!TextPage, Game!StackPage, StackPage, Game!PH_PAGE, PH_PAGE
  <2>2. Game!PH_PAGE(Game!USER_ESP) \in Pages
    BY GameLayout, Sizes DEF Pages
  <2>3. Directory("GAME", 14) \in Spaces("GAME", 14)
    BY DEF Directory, Spaces, Task
  <2>4. \A p \in ps : Mapped(x, p)
    <3>1. BootPage("GAME") \in (1 .. K - 1) \ Holes("GAME") /\ 2 \in (1 .. K - 1) \ Holes("GAME")
      BY <1>0, StackPages, Sizes DEF Holes
    <3>2. Mapped(x, Game!PH_PAGE(Game!USER_ESP))
      BY <1>0, <1>7, <2>2, <2>3, UserMapped
    <3>3. Mapped(x, Game!TextPage) /\ Mapped(x, Game!StackPage(x.esp))
      BY <1>0, <1>7, <2>1, <3>1, KernelMapped
    <3> QED BY <3>2, <3>3
  <2>5. Game!Access(x, ps) = x
    <3> HIDE DEF ps
    <3> QED BY <2>1, <2>4, AccessSame, AccessGame
  <2> HIDE DEF ps
  <2>6. Game!return_gate(x) = Game!Lret(x, Game!USER_ESP)
    BY <2>5 DEF Game!return_gate, ps
  <2> QED BY <1>0, <1>7, <2>6, StepReturn DEF Game!Lret
<1> QED BY <1>1, <1>2, <1>3, <1>4, <1>5, <1>6, <1>7

\* ... init_mm,
LEMMA GameMm ==
  ASSUME NEW x, PagedInv("GAME", x, 6), NEW y, y = Game!init_mm(x)
  PROVE  PagedInv("GAME", y, 7)
<1>0. "GAME" \in PagedKernels /\ Machine(x) /\ DOMAIN x.pcb = Tasks /\ DOMAIN x.pcb[0] = DOMAIN ZeroPcb /\ 0 \in Tasks
  BY DEF PagedKernels, PagedInv, Procs, Tasks
<1>1. Game!Access(x, {Game!TablesPage}) = x
  <2>1. {Game!TablesPage} \subseteq (1 .. K - 1) \ Holes("GAME")
    BY Sizes DEF Holes, Game!TablesPage
  <2> QED BY <1>0, <2>1, KernelAccess, AccessGame
<1> DEFINE a == Game!init_table_pages(x)
           b == Game!init_frames(a)
           c == Game!init_dir_pages(b)
           d == Game!allocate_DIR(c, 0)
           e == Game!set_cr3(d, Game!get_DIR(d, 0))
           B == [j \in Tasks |-> [p \in 0 .. TOTAL_PAGES - 1 |-> KernelEntry("GAME", p)]]
           q == [x.pcb EXCEPT ![0].dir = 0]
<1>2. y = Game!set_pe_flag(e)
  BY <1>1 DEF Game!init_mm
<1>3. a = [x EXCEPT !.tabs = B]
  <2>1. Game!NR_TASKS - 1 = 9
    BY DEF Game!NR_TASKS
  <2>2. ASSUME NEW p \in 0 .. TOTAL_PAGES - 1
        PROVE  (IF p \in 1 .. NUM_PAG_KERNEL - 1 THEN [Game!PTE(p, FALSE, TRUE) EXCEPT !.present = p \notin Game!Guards] ELSE Game!ZeroEntry) = KernelEntry("GAME", p)
    BY GameLayout DEF KernelEntry, K, Game!PTE, PTE, Game!ZeroEntry, ZeroEntry
  <2> QED BY <2>1, <2>2 DEF Game!init_table_pages, Tasks
<1> HIDE DEF a, B
<1>4. Differs(x, a, {"tabs"}) /\ a.tabs = B
  BY <1>0, <1>3, Fields DEF Differs, Machine
<1>5. Differs(a, b, {"phys_mem"}) /\ b.phys_mem = 0 .. K - 1
  BY <1>4, Fields DEF Differs, Machine, Game!init_frames, K
<1> HIDE DEF b
<1>6. Differs(b, c, {"dirs"}) /\ c.dirs = Dirs
  <2>1. c = [b EXCEPT !.dirs = Dirs]
    BY DEF Game!init_dir_pages, Dirs, Tasks, Game!NR_TASKS
  <2> HIDE DEF c
  <2> QED BY <1>5, <2>1, Fields DEF Differs, Machine
<1> HIDE DEF c
<1>7. c.pcb = x.pcb
  BY <1>4, <1>5, <1>6, Fields DEF Differs
<1>8. Differs(c, d, {"pcb"}) /\ d.pcb = q
  <2>1. d = [c EXCEPT !.pcb = q]
    BY <1>7 DEF Game!allocate_DIR
  <2> HIDE DEF d, q
  <2> QED BY <1>6, <2>1, Fields DEF Differs, Machine
<1> HIDE DEF d
<1>9. Game!get_DIR(d, 0) = 0
  <2>1. "dir" \in DOMAIN ZeroPcb
    BY DEF ZeroPcb
  <2> QED BY <1>0, <1>8, <2>1 DEF Game!get_DIR
<1>10. Differs(d, e, {"cr3"}) /\ e.cr3 = 0
  BY <1>8, <1>9, Fields DEF Differs, Machine, Game!set_cr3, Game!MovCr3
<1> HIDE DEF e
<1>11. Differs(e, y, {"pg"}) /\ y.pg = TRUE
  BY <1>2, <1>10, Fields DEF Differs, Machine, Game!set_pe_flag, Game!OrCr0PG
<1>12. /\ Differs(x, y, {"tabs", "dirs", "phys_mem", "pcb", "cr3", "pg"})
       /\ y.tabs = B /\ y.dirs = Dirs /\ y.phys_mem = 0 .. K - 1 /\ y.pcb = q /\ y.cr3 = 0
  <2>1. Differs(x, y, {"tabs", "dirs", "phys_mem", "pcb", "cr3", "pg"})
    BY <1>4, <1>5, <1>6, <1>8, <1>10, <1>11 DEF Differs
  <2>2. y.tabs = B /\ y.dirs = Dirs /\ y.phys_mem = 0 .. K - 1 /\ y.pcb = q /\ y.cr3 = 0
    BY <1>4, <1>5, <1>6, <1>8, <1>10, <1>11, Fields DEF Differs
  <2> QED BY <2>1, <2>2
<1> QED BY <1>0, <1>11, <1>12, StepMm DEF B, q

\* The calls of E1_E2 that work on registers do what the stages say,
LEMMA E1Registers ==
  ASSUME NEW x
  PROVE  /\ PagedInv("E1", x, 1) => PagedInv("E1", E1!set_eflags(x), 2)
         /\ PagedInv("E1", x, 2) => PagedInv("E1", E1!set_seg_regs(x), 3)
         /\ PagedInv("E1", x, 3) => PagedInv("E1", E1!setGdt(x), 4)
         /\ PagedInv("E1", x, 4) => PagedInv("E1", E1!setIdt(x), 5)
         /\ PagedInv("E1", x, 5) => PagedInv("E1", E1!setTSS(x), 6)
         /\ PagedInv("E1", x, 13) => PagedInv("E1", E1!enable_int(x), 14)
         /\ PagedInv("E1", x, 14) => PagedInv("E1", E1!return_gate(x), 15)
<1>0. "E1" \in PagedKernels
  BY DEF PagedKernels
<1>1. ASSUME PagedInv("E1", x, 1) PROVE PagedInv("E1", E1!set_eflags(x), 2)
  BY <1>0, <1>1, StepEflags DEF E1!set_eflags, E1!Popfl0
<1>2. ASSUME PagedInv("E1", x, 2) PROVE PagedInv("E1", E1!set_seg_regs(x), 3)
  BY <1>0, <1>2, StepSegRegs, E1Layout DEF E1!set_seg_regs, E1!MovEsp
<1>3. ASSUME PagedInv("E1", x, 3) PROVE PagedInv("E1", E1!setGdt(x), 4)
  <2>1. {GDT_PAGE} \subseteq (1 .. K - 1) \ Holes("E1")
    BY Sizes DEF Holes
  <2>2. E1!Access(x, {GDT_PAGE}) = x
    BY <1>0, <1>3, <2>1, KernelAccess, AccessE1
  <2> QED BY <1>0, <1>3, <2>2, StepGdt DEF E1!setGdt, E1!set_gdt_reg, E1!Lgdt
<1>4. ASSUME PagedInv("E1", x, 4) PROVE PagedInv("E1", E1!setIdt(x), 5)
  <2>1. Machine(x)
    BY <1>4 DEF PagedInv
  <2> QED BY <1>0, <1>4, <2>1, StepIdt, E1Idt
<1>5. ASSUME PagedInv("E1", x, 5) PROVE PagedInv("E1", E1!setTSS(x), 6)
  BY <1>0, <1>5, StepTss DEF E1!setTSS, E1!set_task_reg, E1!Ltr
<1>6. ASSUME PagedInv("E1", x, 13) PROVE PagedInv("E1", E1!enable_int(x), 14)
  BY <1>0, <1>6, StepEnable DEF E1!enable_int, E1!Sti, E1!UnmaskIrqs
<1>7. ASSUME PagedInv("E1", x, 14) PROVE PagedInv("E1", E1!return_gate(x), 15)
  <2> DEFINE ps == {E1!PH_PAGE(E1!USER_ESP), E1!TextPage, E1!StackPage(x.esp)}
  <2>1. E1!TextPage = 2 /\ E1!StackPage(x.esp) = BootPage("E1") /\ x.fault = FALSE /\ Machine(x)
    <3>1. x.esp = BootEsp("E1") /\ x.fault = FALSE /\ Machine(x)
      BY <1>7 DEF PagedInv, Regs
    <3> QED BY <1>0, <3>1, StackPages DEF E1!TextPage, E1!StackPage, StackPage, E1!PH_PAGE, PH_PAGE
  <2>2. E1!PH_PAGE(E1!USER_ESP) \in Pages
    BY E1Layout, Sizes DEF Pages
  <2>3. Directory("E1", 14) \in Spaces("E1", 14)
    BY DEF Directory, Spaces, Task
  <2>4. \A p \in ps : Mapped(x, p)
    <3>1. BootPage("E1") \in (1 .. K - 1) \ Holes("E1") /\ 2 \in (1 .. K - 1) \ Holes("E1")
      BY <1>0, StackPages, Sizes DEF Holes
    <3>2. Mapped(x, E1!PH_PAGE(E1!USER_ESP))
      BY <1>0, <1>7, <2>2, <2>3, UserMapped
    <3>3. Mapped(x, E1!TextPage) /\ Mapped(x, E1!StackPage(x.esp))
      BY <1>0, <1>7, <2>1, <3>1, KernelMapped
    <3> QED BY <3>2, <3>3
  <2>5. E1!Access(x, ps) = x
    <3> HIDE DEF ps
    <3> QED BY <2>1, <2>4, AccessSame, AccessE1
  <2> HIDE DEF ps
  <2>6. E1!return_gate(x) = E1!Lret(x, E1!USER_ESP)
    BY <2>5 DEF E1!return_gate, ps
  <2> QED BY <1>0, <1>7, <2>6, StepReturn DEF E1!Lret
<1> QED BY <1>1, <1>2, <1>3, <1>4, <1>5, <1>6, <1>7

\* ... and init_mm.
LEMMA E1Mm ==
  ASSUME NEW x, PagedInv("E1", x, 6), NEW y, y = E1!init_mm(x)
  PROVE  PagedInv("E1", y, 7)
<1>0. "E1" \in PagedKernels /\ Machine(x) /\ DOMAIN x.pcb = Tasks /\ DOMAIN x.pcb[0] = DOMAIN ZeroPcb /\ 0 \in Tasks
  BY DEF PagedKernels, PagedInv, Procs, Tasks
<1>1. E1!Access(x, {E1!TablesPage}) = x
  <2>1. {E1!TablesPage} \subseteq (1 .. K - 1) \ Holes("E1")
    BY Sizes DEF Holes, E1!TablesPage
  <2> QED BY <1>0, <2>1, KernelAccess, AccessE1
<1> DEFINE a == E1!init_table_pages(x)
           b == E1!init_frames(a)
           c == E1!init_dir_pages(b)
           d == E1!allocate_DIR(c, 0)
           e == E1!set_cr3(d, E1!get_DIR(d, 0))
           B == [j \in Tasks |-> [p \in 0 .. TOTAL_PAGES - 1 |-> KernelEntry("E1", p)]]
           q == [x.pcb EXCEPT ![0].dir = 0]
<1>2. y = E1!set_pe_flag(e)
  BY <1>1 DEF E1!init_mm
<1>3. a = [x EXCEPT !.tabs = B]
  <2>1. E1!NR_TASKS - 1 = 9
    BY DEF E1!NR_TASKS
  <2>2. ASSUME NEW p \in 0 .. TOTAL_PAGES - 1
        PROVE  (IF p \in 1 .. NUM_PAG_KERNEL - 1 THEN E1!PTE(p, FALSE, TRUE) ELSE E1!ZeroEntry) = KernelEntry("E1", p)
    BY DEF KernelEntry, K, Holes, E1!PTE, PTE, E1!ZeroEntry, ZeroEntry
  <2> QED BY <2>1, <2>2 DEF E1!init_table_pages, Tasks
<1> HIDE DEF a, B
<1>4. Differs(x, a, {"tabs"}) /\ a.tabs = B
  BY <1>0, <1>3, Fields DEF Differs, Machine
<1>5. Differs(a, b, {"phys_mem"}) /\ b.phys_mem = 0 .. K - 1
  BY <1>4, Fields DEF Differs, Machine, E1!init_frames, K
<1> HIDE DEF b
<1>6. Differs(b, c, {"dirs"}) /\ c.dirs = Dirs
  <2>1. c = [b EXCEPT !.dirs = Dirs]
    BY DEF E1!init_dir_pages, Dirs, Tasks, E1!NR_TASKS
  <2> HIDE DEF c
  <2> QED BY <1>5, <2>1, Fields DEF Differs, Machine
<1> HIDE DEF c
<1>7. c.pcb = x.pcb
  BY <1>4, <1>5, <1>6, Fields DEF Differs
<1>8. Differs(c, d, {"pcb"}) /\ d.pcb = q
  <2>1. d = [c EXCEPT !.pcb = q]
    BY <1>7 DEF E1!allocate_DIR
  <2> HIDE DEF d, q
  <2> QED BY <1>6, <2>1, Fields DEF Differs, Machine
<1> HIDE DEF d
<1>9. E1!get_DIR(d, 0) = 0
  <2>1. "dir" \in DOMAIN ZeroPcb
    BY DEF ZeroPcb
  <2> QED BY <1>0, <1>8, <2>1 DEF E1!get_DIR
<1>10. Differs(d, e, {"cr3"}) /\ e.cr3 = 0
  BY <1>8, <1>9, Fields DEF Differs, Machine, E1!set_cr3, E1!MovCr3
<1> HIDE DEF e
<1>11. Differs(e, y, {"pg"}) /\ y.pg = TRUE
  BY <1>2, <1>10, Fields DEF Differs, Machine, E1!set_pe_flag, E1!OrCr0PG
<1>12. /\ Differs(x, y, {"tabs", "dirs", "phys_mem", "pcb", "cr3", "pg"})
       /\ y.tabs = B /\ y.dirs = Dirs /\ y.phys_mem = 0 .. K - 1 /\ y.pcb = q /\ y.cr3 = 0
  <2>1. Differs(x, y, {"tabs", "dirs", "phys_mem", "pcb", "cr3", "pg"})
    BY <1>4, <1>5, <1>6, <1>8, <1>10, <1>11 DEF Differs
  <2>2. y.tabs = B /\ y.dirs = Dirs /\ y.phys_mem = 0 .. K - 1 /\ y.pcb = q /\ y.cr3 = 0
    BY <1>4, <1>5, <1>6, <1>8, <1>10, <1>11, Fields DEF Differs
  <2> QED BY <2>1, <2>2
<1> QED BY <1>0, <1>11, <1>12, StepMm DEF B, q

\* Two assignments to the PCBs are one.
LEMMA PcbNest ==
  ASSUME NEW x, Machine(x), NEW i, NEW p, NEW f, NEW c
  PROVE [[x EXCEPT !.pcb = p] EXCEPT !.pcb[i][f] = c] = [x EXCEPT !.pcb=[p EXCEPT ![i][f]=c]]
<1>1. [x EXCEPT !.pcb = p].pcb = p
  BY Fields DEF Machine
<1> DEFINE y == [x EXCEPT !.pcb = p]
<1>2. [y EXCEPT !.pcb[i][f] = c] = [y EXCEPT !.pcb = [y.pcb EXCEPT ![i][f] = c]]
  OBVIOUS
<1> DEFINE q == [p EXCEPT ![i][f]=c]
<1> HIDE DEF q
<1>3. [y EXCEPT !.pcb = q] = [x EXCEPT !.pcb = q]
  BY DEF Machine
<1> QED BY <1>1, <1>2, <1>3 DEF q

\* Tables and frames depend on directories, tables and phys_mem only.
LEMMA SameTables ==
  ASSUME NEW k, NEW x, NEW y, NEW S, Tables(k, x, S), Frames(x, S),
         y.dirs = x.dirs, y.tabs = x.tabs, y.phys_mem = x.phys_mem
  PROVE  Tables(k, y, S) /\ Frames(y, S)
<1>1. \A t, p : FrameAt(y, t, p) = FrameAt(x, t, p)
  BY DEF FrameAt
<1>2. \A t, p : Entry(k, y, S, t, p) = Entry(k, x, S, t, p)
  BY <1>1 DEF Entry
<1> QED BY <1>1, <1>2 DEF Tables, Frames

\* The process part of main() in the game kernel: init_sched,
LEMMA GameSched ==
  ASSUME NEW x, PagedInv("GAME", x, 8), NEW y, y = Game!init_sched(x)
  PROVE  PagedInv("GAME", y, 9)
<1>0. "GAME" \in PagedKernels /\ Machine(x) /\ DOMAIN x.pcb = Tasks /\ \A t \in Tasks : DOMAIN x.pcb[t] = DOMAIN ZeroPcb
  BY DEF PagedKernels, PagedInv, Procs
<1> DEFINE ps == {Game!PcbPage(t) : t \in 0 .. Game!NR_TASKS - 1}
<1>1. Game!Access(x, ps) = x
  <2>1. \A t \in Tasks : Game!PcbPage(t) \in (1 .. K - 1) \ Holes("GAME")
    BY GameLayout, Sizes DEF PcbAt, Holes, Tasks
  <2>2. ps \subseteq (1 .. K - 1) \ Holes("GAME")
    BY <2>1 DEF Tasks, Game!NR_TASKS
  <2> HIDE DEF ps
  <2>3. Access(x, ps) = x
    <3>1. PagedInv("GAME", x, 8) /\ 8 \in 1 .. 15
      OBVIOUS
    <3> QED BY <1>0, <2>2, <3>1, KernelAccess
  <2> QED BY <2>3, AccessGame
<1> DEFINE fq == FreeQueue("GAME")
<1> DEFINE q == [t \in Tasks |-> [x.pcb[t] EXCEPT !.PID = -1]]
<1>2. /\ Differs(x, y, {"pcb", "freequeue", "readyqueue", "quantum"}) /\ y.freequeue = FreeQueue("GAME") /\ DOMAIN y.pcb = Tasks
      /\ \A t \in Tasks : DOMAIN y.pcb[t] = DOMAIN ZeroPcb /\ y.pcb[t].dir = x.pcb[t].dir
  <2> DEFINE z == [x EXCEPT !.pcb = q, !.freequeue = fq]
  <2>1. [i \in 1 .. Game!NR_TASKS |-> i - 1] = fq
    BY DEF FreeQueue, Game!NR_TASKS
  <2>2. Game!init_freequeue(x) = z
    BY <1>0, <1>1, <2>1 DEF Game!init_freequeue
  <2>3. y = [z EXCEPT !.readyqueue = << >>]
    BY <2>2 DEF Game!init_sched
  <2>4. \A t \in Tasks : DOMAIN q[t] = DOMAIN ZeroPcb /\ q[t].dir = x.pcb[t].dir
    BY <1>0 DEF ZeroPcb
  <2>5. DOMAIN q = Tasks
    OBVIOUS
  <2> HIDE DEF q, fq, z
  <2>6. Differs(x, z, {"pcb", "freequeue"}) /\ z.pcb = q /\ z.freequeue = fq
    BY <1>0, Fields DEF Differs, Machine, z
  <2>7. Differs(z, y, {"readyqueue"})
    BY <2>3, <2>6, Fields DEF Differs, Machine
  <2>8. Differs(x, y, {"pcb", "freequeue", "readyqueue", "quantum"}) /\ y.pcb = q /\ y.freequeue = fq
    BY <2>6, <2>7, Fields DEF Differs
  <2> QED BY <2>4, <2>5, <2>8 DEF fq
<1> QED BY <1>0, <1>2, StepSched

\* ... init_idle,
LEMMA GameIdle ==
  ASSUME NEW x, PagedInv("GAME", x, 9), NEW y, y = Game!init_idle(x)
  PROVE  PagedInv("GAME", y, 10)
<1>0. /\ "GAME" \in PagedKernels /\ Machine(x) /\ DOMAIN x.pcb = Tasks /\ x.pcb[0].dir = 0
      /\ \A t \in Tasks : DOMAIN x.pcb[t] = DOMAIN ZeroPcb
  BY DEF PagedKernels, PagedInv, Procs
<1>1. Head(x.freequeue) = Idle("GAME") /\ Idle("GAME") \in Tasks
  <2>1. x.freequeue = FreeQueue("GAME")
    BY DEF PagedInv, Procs
  <2> QED BY <2>1 DEF FreeQueue, Idle, Tasks
<1>2. Game!Access(x, {Game!PcbPage(Idle("GAME"))}) = x
  <2>1. {Game!PcbPage(Idle("GAME"))} \subseteq (1 .. K - 1) \ Holes("GAME")
    BY <1>1, GameLayout, Sizes DEF PcbAt, Holes, Idle
  <2> QED BY <1>0, <2>1, KernelAccess, AccessGame
<1> DEFINE i == Idle("GAME")
           p == y.pcb
           q == Tail(x.freequeue)
<1>3. /\ Differs(x, y, {"pcb", "freequeue", "idle_task"})
      /\ y.freequeue = q /\ y.idle_task = i
      /\ p = [x.pcb EXCEPT ![i].PID = 0, ![i].quantum = Game!DEFAULT_QUANTUM,
                           ![i].kernel_esp = Game!KERNEL_ESP(i) - 2, ![i].dir = i]
  <2> DEFINE a == [x.pcb EXCEPT ![i].PID = 0, ![i].quantum = Game!DEFAULT_QUANTUM,
                           ![i].kernel_esp = Game!KERNEL_ESP(i) - 2]
             z == [x EXCEPT !.freequeue = q, !.idle_task = i, !.pcb = a]
             b == [a EXCEPT ![i].dir = i]
  <2>1. y = [z EXCEPT !.pcb[i].dir = i]
    <3> DEFINE o == [x EXCEPT !.freequeue = Tail(x.freequeue), !.idle_task = i,
                       !.pcb[i].PID = 0, !.pcb[i].quantum = Game!DEFAULT_QUANTUM,
                       !.pcb[i].kernel_esp = Game!KERNEL_ESP(i) - 2]
    <3>1. y = [o EXCEPT !.pcb[i].dir = i]
      BY <1>1, <1>2 DEF Game!init_idle, Game!allocate_DIR
    <3>2. o = z
      <4> DEFINE d == [x EXCEPT !.freequeue = q, !.idle_task = i]
      <4>1. o = [[[d EXCEPT !.pcb[i].PID = 0] EXCEPT !.pcb[i].quantum = Game!DEFAULT_QUANTUM] EXCEPT !.pcb[i].kernel_esp = Game!KERNEL_ESP(i) - 2]
        OBVIOUS
      <4>2. z = [d EXCEPT !.pcb = a]
        OBVIOUS
      <4> DEFINE a0 == x.pcb
                 a1 == [a0 EXCEPT ![i].PID = 0]
                 a2 == [a1 EXCEPT ![i].quantum = Game!DEFAULT_QUANTUM]
                 a3 == [a2 EXCEPT ![i].kernel_esp = Game!KERNEL_ESP(i) - 2]
      <4>3. Machine(d) /\ [d EXCEPT !.pcb = a0] = d
        BY <1>0, Fields DEF Machine
      <4> HIDE DEF d
      <4>4. [[d EXCEPT !.pcb = a0] EXCEPT !.pcb[i].PID = 0] = [d EXCEPT !.pcb = a1]
        <5> HIDE DEF a0
        <5> QED BY <4>3, PcbNest DEF a1
      <4>5. [[d EXCEPT !.pcb = a1] EXCEPT !.pcb[i].quantum = Game!DEFAULT_QUANTUM] = [d EXCEPT !.pcb = a2]
        <5> HIDE DEF a1
        <5> QED BY <4>3, PcbNest DEF a2
      <4>6. [[d EXCEPT !.pcb = a2] EXCEPT !.pcb[i].kernel_esp = Game!KERNEL_ESP(i) - 2] = [d EXCEPT !.pcb = a3]
        <5> HIDE DEF a2
        <5> QED BY <4>3, PcbNest DEF a3
      <4>8. a = a3
        OBVIOUS
      <4> HIDE DEF o, z, a, a0, a1, a2, a3
      <4> QED BY <4>1, <4>2, <4>8, <4>3, <4>4, <4>5, <4>6
    <3> QED BY <3>1, <3>2
  <2>2. z.pcb = a
    BY <1>0, Fields DEF Machine
  <2>3. y = [z EXCEPT !.pcb = b]
    BY <2>1, <2>2
  <2> HIDE DEF a, b, q, i
  <2>4. Differs(x, z, {"freequeue", "idle_task", "pcb"}) /\ z.freequeue = q /\ z.idle_task = i
    BY <1>0, Fields DEF Differs, Machine
  <2> HIDE DEF z
  <2>5. Differs(z, y, {"pcb"}) /\ y.pcb = b
    BY <2>3, <2>4, Fields DEF Differs, Machine
  <2>6. Differs(x, y, {"pcb", "freequeue", "idle_task"}) /\ y.freequeue = q /\ y.idle_task = i
    BY <2>4, <2>5, Fields DEF Differs
  <2> QED BY <2>5, <2>6 DEF a, b
<1>4. DOMAIN p = Tasks /\ \A t \in Tasks : DOMAIN p[t] = DOMAIN ZeroPcb
  BY <1>0, <1>3
<1>5. p[0].dir = 0
  <2>1. "dir" \in DOMAIN ZeroPcb /\ 0 \in Tasks
    BY DEF ZeroPcb, Tasks
  <2>2. CASE i = 0
    BY <1>0, <1>1, <1>3, <2>1, <2>2
  <2>3. CASE ~(i = 0)
    <3> HIDE DEF i, p
    <3> QED BY <1>0, <1>3, <2>1, <2>3
  <2> QED BY <2>2, <2>3
<1> QED BY <1>0, <1>3, <1>4, <1>5, StepIdle

\* ... init_task1.
LEMMA GameTask1 ==
  ASSUME NEW x, PagedInv("GAME", x, 10), NEW y, y = Game!init_task1(x)
  PROVE  PagedInv("GAME", y, 11)
<1>0. /\ "GAME" \in PagedKernels /\ Machine(x) /\ DOMAIN x.pcb = Tasks /\ x.pcb[0].dir = 0
      /\ \A t \in Tasks : DOMAIN x.pcb[t] = DOMAIN ZeroPcb
      /\ Tables("GAME", x, Spaces("GAME", 10)) /\ Frames(x, Spaces("GAME", 10))
  BY DEF PagedKernels, PagedInv, Procs, Paging
<1>1. Head(x.freequeue) = Task("GAME") /\ Task("GAME") \in Tasks
  <2>1. x.freequeue = Tail(FreeQueue("GAME"))
    BY DEF PagedInv, Procs
  <2> QED BY <2>1 DEF FreeQueue, Task, Tasks
<1>2. Game!Access(x, {Game!PcbPage(Task("GAME"))}) = x
  <2>1. {Game!PcbPage(Task("GAME"))} \subseteq (1 .. K - 1) \ Holes("GAME")
    BY <1>1, GameLayout, Sizes DEF PcbAt, Holes, Task
  <2> QED BY <1>0, <2>1, KernelAccess, AccessGame
<1> DEFINE i == Task("GAME")
           fq == Tail(x.freequeue)
           a == [x.pcb EXCEPT ![i].PID = 1, ![i].quantum = Game!DEFAULT_QUANTUM, ![i].state = "ST_RUN"]
           b == [a EXCEPT ![i].dir = i]
           z == [x EXCEPT !.freequeue = fq, !.task1 = i, !.quantum = Game!DEFAULT_QUANTUM, !.pcb = a]
           w == [z EXCEPT !.pcb = b]
           v == Game!set_user_pages(w, i)
           u == [v EXCEPT !.esp0 = Top("GAME")]
           r == [u EXCEPT !.msr = Put(@, 373, Top("GAME"))]
<1>3. y = [r EXCEPT !.cr3 = r.pcb[i].dir]
  <2>1. Game!KERNEL_ESP(i) = Top("GAME")
    BY GameLayout DEF Task
  <2>2. z.pcb = a
    BY <1>0, Fields DEF Machine
  <2>3. Game!allocate_DIR(z, i) = w
    BY <2>2 DEF Game!allocate_DIR
  <2> DEFINE o == [x EXCEPT !.freequeue = Tail(x.freequeue), !.task1 = i, !.quantum = Game!DEFAULT_QUANTUM,
                     !.pcb[i].PID = 1, !.pcb[i].quantum = Game!DEFAULT_QUANTUM, !.pcb[i].state = "ST_RUN"]
             g == Game!set_user_pages(Game!allocate_DIR(o, i), i)
             h == Game!Wrmsr([g EXCEPT !.esp0 = Game!KERNEL_ESP(i)], 373, Game!KERNEL_ESP(i))
  <2>4. y = Game!set_cr3(h, Game!get_DIR(h, i))
    BY <1>1, <1>2 DEF Game!init_task1, Game!setMSR
  <2>5. o = z
    <4> DEFINE d == [x EXCEPT !.freequeue = fq, !.task1 = i, !.quantum = Game!DEFAULT_QUANTUM]
    <4>1. o = [[[d EXCEPT !.pcb[i].PID = 1] EXCEPT !.pcb[i].quantum = Game!DEFAULT_QUANTUM] EXCEPT !.pcb[i].state = "ST_RUN"]
      OBVIOUS
    <4>2. z = [d EXCEPT !.pcb = a]
      OBVIOUS
    <4> DEFINE a0 == x.pcb
               a1 == [a0 EXCEPT ![i].PID = 1]
               a2 == [a1 EXCEPT ![i].quantum = Game!DEFAULT_QUANTUM]
               a3 == [a2 EXCEPT ![i].state = "ST_RUN"]
    <4>3. Machine(d) /\ [d EXCEPT !.pcb = a0] = d
      BY <1>0, Fields DEF Machine
    <4> HIDE DEF d
    <4>4. [[d EXCEPT !.pcb = a0] EXCEPT !.pcb[i].PID = 1] = [d EXCEPT !.pcb = a1]
      <5> HIDE DEF a0
      <5> QED BY <4>3, PcbNest DEF a1
    <4>5. [[d EXCEPT !.pcb = a1] EXCEPT !.pcb[i].quantum = Game!DEFAULT_QUANTUM] = [d EXCEPT !.pcb = a2]
      <5> HIDE DEF a1
      <5> QED BY <4>3, PcbNest DEF a2
    <4>6. [[d EXCEPT !.pcb = a2] EXCEPT !.pcb[i].state = "ST_RUN"] = [d EXCEPT !.pcb = a3]
      <5> HIDE DEF a2
      <5> QED BY <4>3, PcbNest DEF a3
    <4>8. a = a3
      OBVIOUS
    <4> HIDE DEF o, z, a, a0, a1, a2, a3
    <4> QED BY <4>1, <4>2, <4>8, <4>3, <4>4, <4>5, <4>6
  <2>6. g = v
    BY <2>3, <2>5
  <2>7. h = r
    <3> HIDE DEF g, v
    <3> QED BY <2>1, <2>6 DEF Game!Wrmsr, Game!Put, Put
  <2> HIDE DEF h, r
  <2> QED BY <2>4, <2>7 DEF Game!set_cr3, Game!MovCr3, Game!get_DIR
<1>4. /\ DOMAIN b = Tasks /\ b[0].dir = 0 /\ b[i].dir = i /\ b[i].PID = 1
      /\ \A t \in Tasks : DOMAIN b[t] = DOMAIN ZeroPcb
  <2>1. "dir" \in DOMAIN ZeroPcb /\ "PID" \in DOMAIN ZeroPcb
    BY DEF ZeroPcb
  <2> QED BY <1>0, <1>1, <2>1 DEF Task, Tasks
<1> HIDE DEF a, b, fq, i, z
<1>5. Differs(x, z, {"freequeue", "task1", "quantum", "pcb"}) /\ z.task1 = i
  BY <1>0, Fields DEF Differs, Machine, z
<1>6. Differs(z, w, {"pcb"}) /\ w.pcb = b
  BY <1>5, Fields DEF Differs, Machine
<1> HIDE DEF w
<1>7. Tables("GAME", w, Spaces("GAME", 10)) /\ Frames(w, Spaces("GAME", 10)) /\ Machine(w)
  <2>1. Differs(x, w, {"freequeue", "task1", "quantum", "pcb"})
    BY <1>5, <1>6, DiffersTwice
  <2>2. SameMemory(x, w)
    BY <2>1, MemoryOther
  <2>3. Machine(w)
    BY <1>6 DEF Differs
  <2> QED BY <1>0, <2>2, <2>3, TablesKept
<1>8. Differs(w, v, {"phys_mem", "tabs"}) /\ Tables("GAME", v, Spaces("GAME", 10) \cup {i}) /\ Frames(v, Spaces("GAME", 10) \cup {i})
  <2>1. Spaces("GAME", 10) \in {{}, {0}} /\ i \in Tasks \ Spaces("GAME", 10)
    BY DEF Spaces, Task, Tasks, i
  <2> HIDE DEF v
  <2> QED BY <1>4, <1>6, <1>7, <2>1, GameUserPages DEF v
<1> HIDE DEF v
<1>9. Differs(v, u, {"esp0"}) /\ u.esp0 = Top("GAME")
  BY <1>8, Fields DEF Differs, Machine
<1> HIDE DEF u
<1>10. Differs(u, r, {"msr"}) /\ r.msr[373] = Top("GAME")
  <2>1. Machine(u)
    BY <1>9 DEF Differs
  <2> QED BY <2>1, PutMsr DEF r
<1> HIDE DEF r
<1>11. r.pcb = b
  BY <1>6, <1>8, <1>9, <1>10, Fields DEF Differs
<1>12. Differs(r, y, {"cr3"}) /\ y.cr3 = i
  BY <1>3, <1>4, <1>10, <1>11, Fields DEF Differs, Machine
<1>13. Differs(x, y, {"pcb", "freequeue", "task1", "quantum", "phys_mem", "tabs", "esp0", "msr", "cr3"})
  BY <1>5, <1>6, <1>8, <1>9, <1>10, <1>12 DEF Differs
<1>14. y.task1 = i /\ y.esp0 = Top("GAME") /\ y.msr[373] = Top("GAME") /\ y.pcb = b
  BY <1>5, <1>6, <1>8, <1>9, <1>10, <1>11, <1>12, Fields DEF Differs
<1>15. Tables("GAME", y, Spaces("GAME", 10) \cup {i}) /\ Frames(y, Spaces("GAME", 10) \cup {i})
  <2>1. y.dirs = v.dirs /\ y.tabs = v.tabs /\ y.phys_mem = v.phys_mem
    BY <1>9, <1>10, <1>12, Fields DEF Differs
  <2> QED BY <1>8, <2>1, SameTables
<1> QED BY <1>0, <1>4, <1>12, <1>13, <1>14, <1>15, StepTask1 DEF i

\* The process part of main() in E1_E2: init_sched,
LEMMA E1Sched ==
  ASSUME NEW x, PagedInv("E1", x, 8), NEW y, y = E1!init_sched(x)
  PROVE  PagedInv("E1", y, 9)
<1>0. "E1" \in PagedKernels /\ Machine(x) /\ DOMAIN x.pcb = Tasks /\ \A t \in Tasks : DOMAIN x.pcb[t] = DOMAIN ZeroPcb
  BY DEF PagedKernels, PagedInv, Procs
<1> DEFINE ps == {E1!PcbPage(t) : t \in 0 .. E1!NR_TASKS - 1}
<1>1. E1!Access(x, ps) = x
  <2>1. \A t \in Tasks : E1!PcbPage(t) \in (1 .. K - 1) \ Holes("E1")
    BY E1Layout, Sizes DEF PcbAt, Holes, Tasks
  <2>2. ps \subseteq (1 .. K - 1) \ Holes("E1")
    BY <2>1 DEF Tasks, E1!NR_TASKS
  <2> HIDE DEF ps
  <2>3. Access(x, ps) = x
    <3>1. PagedInv("E1", x, 8) /\ 8 \in 1 .. 15
      OBVIOUS
    <3> QED BY <1>0, <2>2, <3>1, KernelAccess
  <2> QED BY <2>3, AccessE1
<1> DEFINE fq == FreeQueue("E1")
<1>2. /\ Differs(x, y, {"pcb", "freequeue", "readyqueue", "quantum"}) /\ y.freequeue = FreeQueue("E1") /\ DOMAIN y.pcb = Tasks
      /\ \A t \in Tasks : DOMAIN y.pcb[t] = DOMAIN ZeroPcb /\ y.pcb[t].dir = x.pcb[t].dir
  <2>1. [i \in 1 .. E1!NR_TASKS |-> E1!NR_TASKS - i] = fq
    BY DEF FreeQueue, E1!NR_TASKS
  <2>2. y = [x EXCEPT !.freequeue = fq, !.readyqueue = << >>, !.quantum = E1!DEFAULT_QUANTUM]
    BY <1>1, <2>1 DEF E1!init_sched
  <2> HIDE DEF fq
  <2>3. Differs(x, y, {"pcb", "freequeue", "readyqueue", "quantum"}) /\ y.pcb = x.pcb /\ y.freequeue = fq
    BY <1>0, <2>2, Fields DEF Differs, Machine
  <2> QED BY <1>0, <2>3 DEF fq
<1> QED BY <1>0, <1>2, StepSched

\* ... init_idle,
LEMMA E1Idle ==
  ASSUME NEW x, PagedInv("E1", x, 9), NEW y, y = E1!init_idle(x)
  PROVE  PagedInv("E1", y, 10)
<1>0. /\ "E1" \in PagedKernels /\ Machine(x) /\ DOMAIN x.pcb = Tasks /\ x.pcb[0].dir = 0
      /\ \A t \in Tasks : DOMAIN x.pcb[t] = DOMAIN ZeroPcb
  BY DEF PagedKernels, PagedInv, Procs
<1>1. Head(x.freequeue) = Idle("E1") /\ Idle("E1") \in Tasks
  <2>1. x.freequeue = FreeQueue("E1")
    BY DEF PagedInv, Procs
  <2> QED BY <2>1 DEF FreeQueue, Idle, Tasks
<1>2. E1!Access(x, {E1!PcbPage(Idle("E1"))}) = x
  <2>1. {E1!PcbPage(Idle("E1"))} \subseteq (1 .. K - 1) \ Holes("E1")
    BY <1>1, E1Layout, Sizes DEF PcbAt, Holes, Idle
  <2> QED BY <1>0, <2>1, KernelAccess, AccessE1
<1> DEFINE i == Idle("E1")
           p == y.pcb
           q == Tail(x.freequeue)
<1>3. /\ Differs(x, y, {"pcb", "freequeue", "idle_task"})
      /\ y.freequeue = q /\ y.idle_task = i
      /\ p = [x.pcb EXCEPT ![i].PID = 0, ![i].quantum = E1!DEFAULT_QUANTUM, ![i].state = "ST_READY",
                           ![i].kernel_esp = E1!KERNEL_ESP(i) - 2, ![i].dir = i]
  <2> DEFINE a == [x.pcb EXCEPT ![i].PID = 0, ![i].quantum = E1!DEFAULT_QUANTUM, ![i].state = "ST_READY",
                           ![i].kernel_esp = E1!KERNEL_ESP(i) - 2]
             z == [x EXCEPT !.freequeue = q, !.idle_task = i, !.pcb = a]
             b == [a EXCEPT ![i].dir = i]
  <2>1. y = [z EXCEPT !.pcb[i].dir = i]
    <3> DEFINE o == [x EXCEPT !.freequeue = Tail(x.freequeue), !.idle_task = i,
                       !.pcb[i].PID = 0, !.pcb[i].quantum = E1!DEFAULT_QUANTUM, !.pcb[i].state = "ST_READY",
                       !.pcb[i].kernel_esp = E1!KERNEL_ESP(i) - 2]
    <3>1. y = [o EXCEPT !.pcb[i].dir = i]
      BY <1>1, <1>2 DEF E1!init_idle, E1!allocate_DIR
    <3>2. o = z
      <4> DEFINE d == [x EXCEPT !.freequeue = q, !.idle_task = i]
      <4>1. o = [[[[d EXCEPT !.pcb[i].PID = 0] EXCEPT !.pcb[i].quantum = E1!DEFAULT_QUANTUM] EXCEPT !.pcb[i].state = "ST_READY"] EXCEPT !.pcb[i].kernel_esp = E1!KERNEL_ESP(i) - 2]
        OBVIOUS
      <4>2. z = [d EXCEPT !.pcb = a]
        OBVIOUS
      <4> DEFINE a0 == x.pcb
                 a1 == [a0 EXCEPT ![i].PID = 0]
                 a2 == [a1 EXCEPT ![i].quantum = E1!DEFAULT_QUANTUM]
                 a3 == [a2 EXCEPT ![i].state = "ST_READY"]
                 a4 == [a3 EXCEPT ![i].kernel_esp = E1!KERNEL_ESP(i) - 2]
      <4>3. Machine(d) /\ [d EXCEPT !.pcb = a0] = d
        BY <1>0, Fields DEF Machine
      <4> HIDE DEF d
      <4>4. [[d EXCEPT !.pcb = a0] EXCEPT !.pcb[i].PID = 0] = [d EXCEPT !.pcb = a1]
        <5> HIDE DEF a0
        <5> QED BY <4>3, PcbNest DEF a1
      <4>5. [[d EXCEPT !.pcb = a1] EXCEPT !.pcb[i].quantum = E1!DEFAULT_QUANTUM] = [d EXCEPT !.pcb = a2]
        <5> HIDE DEF a1
        <5> QED BY <4>3, PcbNest DEF a2
      <4>6. [[d EXCEPT !.pcb = a2] EXCEPT !.pcb[i].state = "ST_READY"] = [d EXCEPT !.pcb = a3]
        <5> HIDE DEF a2
        <5> QED BY <4>3, PcbNest DEF a3
      <4>7. [[d EXCEPT !.pcb = a3] EXCEPT !.pcb[i].kernel_esp = E1!KERNEL_ESP(i) - 2] = [d EXCEPT !.pcb = a4]
        <5> HIDE DEF a3
        <5> QED BY <4>3, PcbNest DEF a4
      <4>8. a = a4
        OBVIOUS
      <4> HIDE DEF o, z, a, a0, a1, a2, a3, a4
      <4>9. [[d EXCEPT !.pcb[i].PID = 0] EXCEPT !.pcb[i].quantum = E1!DEFAULT_QUANTUM] = [d EXCEPT !.pcb = a2]
        BY <4>3, <4>4, <4>5
      <4> QED BY <4>1, <4>2, <4>8, <4>6, <4>7, <4>9
    <3> QED BY <3>1, <3>2
  <2>2. z.pcb = a
    BY <1>0, Fields DEF Machine
  <2>3. y = [z EXCEPT !.pcb = b]
    BY <2>1, <2>2
  <2> HIDE DEF a, b, q, i
  <2>4. Differs(x, z, {"freequeue", "idle_task", "pcb"}) /\ z.freequeue = q /\ z.idle_task = i
    BY <1>0, Fields DEF Differs, Machine
  <2> HIDE DEF z
  <2>5. Differs(z, y, {"pcb"}) /\ y.pcb = b
    BY <2>3, <2>4, Fields DEF Differs, Machine
  <2>6. Differs(x, y, {"pcb", "freequeue", "idle_task"}) /\ y.freequeue = q /\ y.idle_task = i
    BY <2>4, <2>5, Fields DEF Differs
  <2> QED BY <2>5, <2>6 DEF a, b
<1>4. DOMAIN p = Tasks /\ \A t \in Tasks : DOMAIN p[t] = DOMAIN ZeroPcb
  BY <1>0, <1>3
<1>5. p[0].dir = 0
  <2>1. "dir" \in DOMAIN ZeroPcb /\ 0 \in Tasks
    BY DEF ZeroPcb, Tasks
  <2>2. CASE i = 0
    BY <1>0, <1>1, <1>3, <2>1, <2>2
  <2>3. CASE ~(i = 0)
    <3> HIDE DEF i, p
    <3> QED BY <1>0, <1>3, <2>1, <2>3
  <2> QED BY <2>2, <2>3
<1> QED BY <1>0, <1>3, <1>4, <1>5, StepIdle

\* ... init_task1.
LEMMA E1Task1 ==
  ASSUME NEW x, PagedInv("E1", x, 10), NEW y, y = E1!init_task1(x)
  PROVE  PagedInv("E1", y, 11)
<1>0. /\ "E1" \in PagedKernels /\ Machine(x) /\ DOMAIN x.pcb = Tasks /\ x.pcb[0].dir = 0
      /\ \A t \in Tasks : DOMAIN x.pcb[t] = DOMAIN ZeroPcb
      /\ Tables("E1", x, Spaces("E1", 10)) /\ Frames(x, Spaces("E1", 10))
  BY DEF PagedKernels, PagedInv, Procs, Paging
<1>1. Head(x.freequeue) = Task("E1") /\ Task("E1") \in Tasks
  <2>1. x.freequeue = Tail(FreeQueue("E1"))
    BY DEF PagedInv, Procs
  <2> QED BY <2>1 DEF FreeQueue, Task, Tasks
<1>2. E1!Access(x, {E1!PcbPage(Task("E1"))}) = x
  <2>1. {E1!PcbPage(Task("E1"))} \subseteq (1 .. K - 1) \ Holes("E1")
    BY <1>1, E1Layout, Sizes DEF PcbAt, Holes, Task
  <2> QED BY <1>0, <2>1, KernelAccess, AccessE1
<1> DEFINE i == Task("E1")
           fq == Tail(x.freequeue)
           a == [x.pcb EXCEPT ![i].PID = 1, ![i].quantum = E1!DEFAULT_QUANTUM, ![i].state = "ST_RUN"]
           b == [a EXCEPT ![i].dir = i]
           z == [x EXCEPT !.freequeue = fq, !.task1 = i, !.pcb = a]
           w == [z EXCEPT !.pcb = b]
           v == E1!set_user_pages(w, i)
           u == [v EXCEPT !.esp0 = Top("E1")]
           r == [u EXCEPT !.msr = Put(@, 373, Top("E1"))]
<1>3. y = [r EXCEPT !.cr3 = r.pcb[i].dir]
  <2>1. E1!KERNEL_ESP(i) = Top("E1")
    BY E1Layout DEF Task
  <2>2. z.pcb = a
    BY <1>0, Fields DEF Machine
  <2>3. E1!allocate_DIR(z, i) = w
    BY <2>2 DEF E1!allocate_DIR
  <2> DEFINE o == [x EXCEPT !.freequeue = Tail(x.freequeue), !.task1 = i,
                     !.pcb[i].PID = 1, !.pcb[i].quantum = E1!DEFAULT_QUANTUM, !.pcb[i].state = "ST_RUN"]
             g == E1!set_user_pages(E1!allocate_DIR(o, i), i)
             h == E1!Wrmsr([g EXCEPT !.esp0 = E1!KERNEL_ESP(i)], 373, E1!KERNEL_ESP(i))
  <2>4. y = E1!set_cr3(h, E1!get_DIR(h, i))
    BY <1>1, <1>2 DEF E1!init_task1
  <2>5. o = z
    <4> DEFINE d == [x EXCEPT !.freequeue = fq, !.task1 = i]
    <4>1. o = [[[d EXCEPT !.pcb[i].PID = 1] EXCEPT !.pcb[i].quantum = E1!DEFAULT_QUANTUM] EXCEPT !.pcb[i].state = "ST_RUN"]
      OBVIOUS
    <4>2. z = [d EXCEPT !.pcb = a]
      OBVIOUS
    <4> DEFINE a0 == x.pcb
               a1 == [a0 EXCEPT ![i].PID = 1]
               a2 == [a1 EXCEPT ![i].quantum = E1!DEFAULT_QUANTUM]
               a3 == [a2 EXCEPT ![i].state = "ST_RUN"]
    <4>3. Machine(d) /\ [d EXCEPT !.pcb = a0] = d
      BY <1>0, Fields DEF Machine
    <4> HIDE DEF d
    <4>4. [[d EXCEPT !.pcb = a0] EXCEPT !.pcb[i].PID = 1] = [d EXCEPT !.pcb = a1]
      <5> HIDE DEF a0
      <5> QED BY <4>3, PcbNest DEF a1
    <4>5. [[d EXCEPT !.pcb = a1] EXCEPT !.pcb[i].quantum = E1!DEFAULT_QUANTUM] = [d EXCEPT !.pcb = a2]
      <5> HIDE DEF a1
      <5> QED BY <4>3, PcbNest DEF a2
    <4>6. [[d EXCEPT !.pcb = a2] EXCEPT !.pcb[i].state = "ST_RUN"] = [d EXCEPT !.pcb = a3]
      <5> HIDE DEF a2
      <5> QED BY <4>3, PcbNest DEF a3
    <4>8. a = a3
      OBVIOUS
    <4> HIDE DEF o, z, a, a0, a1, a2, a3
    <4> QED BY <4>1, <4>2, <4>8, <4>3, <4>4, <4>5, <4>6
  <2>6. g = v
    BY <2>3, <2>5
  <2>7. h = r
    <3> HIDE DEF g, v
    <3> QED BY <2>1, <2>6 DEF E1!Wrmsr, E1!Put, Put
  <2> HIDE DEF h, r
  <2> QED BY <2>4, <2>7 DEF E1!set_cr3, E1!MovCr3, E1!get_DIR
<1>4. /\ DOMAIN b = Tasks /\ b[0].dir = 0 /\ b[i].dir = i /\ b[i].PID = 1
      /\ \A t \in Tasks : DOMAIN b[t] = DOMAIN ZeroPcb
  <2>1. "dir" \in DOMAIN ZeroPcb /\ "PID" \in DOMAIN ZeroPcb
    BY DEF ZeroPcb
  <2> QED BY <1>0, <1>1, <2>1 DEF Task, Tasks
<1> HIDE DEF a, b, fq, i, z
<1>5. Differs(x, z, {"freequeue", "task1", "quantum", "pcb"}) /\ z.task1 = i
  BY <1>0, Fields DEF Differs, Machine, z
<1>6. Differs(z, w, {"pcb"}) /\ w.pcb = b
  BY <1>5, Fields DEF Differs, Machine
<1> HIDE DEF w
<1>7. Tables("E1", w, Spaces("E1", 10)) /\ Frames(w, Spaces("E1", 10)) /\ Machine(w)
  <2>1. Differs(x, w, {"freequeue", "task1", "quantum", "pcb"})
    BY <1>5, <1>6, DiffersTwice
  <2>2. SameMemory(x, w)
    BY <2>1, MemoryOther
  <2>3. Machine(w)
    BY <1>6 DEF Differs
  <2> QED BY <1>0, <2>2, <2>3, TablesKept
<1>8. Differs(w, v, {"phys_mem", "tabs"}) /\ Tables("E1", v, Spaces("E1", 10) \cup {i}) /\ Frames(v, Spaces("E1", 10) \cup {i})
  <2>1. Spaces("E1", 10) \in {{}, {0}} /\ i \in Tasks \ Spaces("E1", 10)
    BY DEF Spaces, Task, Tasks, i
  <2> HIDE DEF v
  <2> QED BY <1>4, <1>6, <1>7, <2>1, E1UserPages DEF v
<1> HIDE DEF v
<1>9. Differs(v, u, {"esp0"}) /\ u.esp0 = Top("E1")
  BY <1>8, Fields DEF Differs, Machine
<1> HIDE DEF u
<1>10. Differs(u, r, {"msr"}) /\ r.msr[373] = Top("E1")
  <2>1. Machine(u)
    BY <1>9 DEF Differs
  <2> QED BY <2>1, PutMsr DEF r
<1> HIDE DEF r
<1>11. r.pcb = b
  BY <1>6, <1>8, <1>9, <1>10, Fields DEF Differs
<1>12. Differs(r, y, {"cr3"}) /\ y.cr3 = i
  BY <1>3, <1>4, <1>10, <1>11, Fields DEF Differs, Machine
<1>13. Differs(x, y, {"pcb", "freequeue", "task1", "quantum", "phys_mem", "tabs", "esp0", "msr", "cr3"})
  BY <1>5, <1>6, <1>8, <1>9, <1>10, <1>12 DEF Differs
<1>14. y.task1 = i /\ y.esp0 = Top("E1") /\ y.msr[373] = Top("E1") /\ y.pcb = b
  BY <1>5, <1>6, <1>8, <1>9, <1>10, <1>11, <1>12, Fields DEF Differs
<1>15. Tables("E1", y, Spaces("E1", 10) \cup {i}) /\ Frames(y, Spaces("E1", 10) \cup {i})
  <2>1. y.dirs = v.dirs /\ y.tabs = v.tabs /\ y.phys_mem = v.phys_mem
    BY <1>9, <1>10, <1>12, Fields DEF Differs
  <2> QED BY <1>8, <2>1, SameTables
<1> QED BY <1>0, <1>4, <1>12, <1>13, <1>14, <1>15, StepTask1 DEF i

\* A stage the kernel does not have is passed without a step.
LEMMA NoMono == ASSUME NEW x, PagedInv("GAME", x, 7) PROVE PagedInv("GAME", x, 8)
<1>1. SameMemory(x, x) /\ SameProcs(x, x) /\ SameImage(x, x) /\ "GAME" \in PagedKernels
  BY DEF SameMemory, SameProcs, SameImage, PagedKernels
<1>2. Machine(x) /\ Regs("GAME", x, 7) /\ Paging("GAME", x, 7) /\ Procs("GAME", x, 7) /\ Image("GAME", x, 7)
  BY DEF PagedInv
<1>3. Paging("GAME", x, 7 + 1)
  BY <1>1, <1>2, PagingKept
<1>4. Procs("GAME", x, 7 + 1) /\ Image("GAME", x, 7 + 1)
  BY <1>1, <1>2, ProcsKept, ImageEarly
<1>5. Regs("GAME", x, 8)
  BY <1>2 DEF Regs
<1> QED BY <1>2, <1>3, <1>4, <1>5 DEF PagedInv

\* The second exam kernel has no keyboard buffer and passes that stage over.
LEMMA NoKeyboard == ASSUME NEW x, PagedInv("GAME", x, 11) PROVE PagedInv("GAME", x, 12)
<1>1. SameMemory(x, x) /\ SameProcs(x, x) /\ SameImage(x, x) /\ "GAME" \in PagedKernels
  BY DEF SameMemory, SameProcs, SameImage, PagedKernels
<1>2. Machine(x) /\ Regs("GAME", x, 11)
  BY DEF PagedInv
<1>3. Regs("GAME", x, 11 + 1)
  BY <1>2 DEF Regs
<1>4. PagedInv("GAME", x, 11 + 1)
  BY <1>1, <1>2, <1>3, RegisterStep
<1> QED BY <1>4

\* copy_data puts the image behind the user pages of task 1: in the game kernel,
LEMMA GameCopy == ASSUME NEW x, PagedInv("GAME", x, 12) PROVE PagedInv("GAME", Game!copy_data(x), 13)
<1>1. Game!copy_data(x) = CopyImage(x, K) /\ "GAME" \in PagedKernels
  BY CopyGame, GameLayout DEF Game!copy_data, PagedKernels
<1>2. PagedInv("GAME", CopyImage(x, K), 12 + 1)
  BY <1>1, StepCopy
<1> QED BY <1>1, <1>2

\* ... and in E1_E2.
LEMMA E1Copy == ASSUME NEW x, PagedInv("E1", x, 11) PROVE PagedInv("E1", E1!copy_data(x), 12)
<1>1. E1!copy_data(x) = CopyImage(x, K) /\ "E1" \in PagedKernels
  BY CopyE1, E1Layout DEF E1!copy_data, PagedKernels
<1>2. PagedInv("E1", CopyImage(x, K), 11 + 1)
  BY <1>1, StepCopy
<1> QED BY <1>1, <1>2

\* clear_screen of E1_E2 touches the screen only.
LEMMA E1Clear == ASSUME NEW x, PagedInv("E1", x, 12) PROVE PagedInv("E1", E1!clear_screen(x), 13)
<1>1. {SCREEN_PAGE} \subseteq (1 .. K - 1) \ Holes("E1") /\ "E1" \in PagedKernels
  BY Sizes DEF Holes, PagedKernels
<1>2. Access(x, {SCREEN_PAGE}) = x
  BY <1>1, KernelAccess
<1>3. E1!clear_screen(x) = x
  BY <1>2, AccessE1 DEF E1!clear_screen
<1> QED BY <1>3, StepClear

\* Every call of main() takes the invariant to the next stage: in the game kernel,
LEMMA GameCall ==
  ASSUME NEW n \in DOMAIN Game!main, NEW x, PagedInv("GAME", x, StageOf("GAME", n))
  PROVE  n \in 1 .. 13 /\ PagedInv("GAME", Game!Call(Game!main[n], x), StageOf("GAME", n + 1))
<1>0. n \in 1 .. 13
  BY DEF Game!main
<1>1. CASE n = 1
  <2>1. Game!main[n] = "set_eflags" /\ StageOf("GAME", n) = 1 /\ StageOf("GAME", n + 1) = 2
    BY <1>1 DEF Game!main, StageOf
  <2>2. Game!Call("set_eflags", x) = Game!set_eflags(x)
    BY DEF Game!Call
  <2> QED BY <1>0, <2>1, <2>2, GameRegisters
<1>2. CASE n = 2
  <2>1. Game!main[n] = "set_seg_regs" /\ StageOf("GAME", n) = 2 /\ StageOf("GAME", n + 1) = 3
    BY <1>2 DEF Game!main, StageOf
  <2>2. Game!Call("set_seg_regs", x) = Game!set_seg_regs(x)
    BY DEF Game!Call
  <2> QED BY <1>0, <2>1, <2>2, GameRegisters
<1>3. CASE n = 3
  <2>1. Game!main[n] = "setGdt" /\ StageOf("GAME", n) = 3 /\ StageOf("GAME", n + 1) = 4
    BY <1>3 DEF Game!main, StageOf
  <2>2. Game!Call("setGdt", x) = Game!setGdt(x)
    BY DEF Game!Call
  <2> QED BY <1>0, <2>1, <2>2, GameRegisters
<1>4. CASE n = 4
  <2>1. Game!main[n] = "setIdt" /\ StageOf("GAME", n) = 4 /\ StageOf("GAME", n + 1) = 5
    BY <1>4 DEF Game!main, StageOf
  <2>2. Game!Call("setIdt", x) = Game!setIdt(x)
    BY DEF Game!Call
  <2> QED BY <1>0, <2>1, <2>2, GameRegisters
<1>5. CASE n = 5
  <2>1. Game!main[n] = "setTSS" /\ StageOf("GAME", n) = 5 /\ StageOf("GAME", n + 1) = 6
    BY <1>5 DEF Game!main, StageOf
  <2>2. Game!Call("setTSS", x) = Game!setTSS(x)
    BY DEF Game!Call
  <2> QED BY <1>0, <2>1, <2>2, GameRegisters
<1>6. CASE n = 6
  <2>1. Game!main[n] = "init_mm" /\ StageOf("GAME", n) = 6 /\ StageOf("GAME", n + 1) = 8
    BY <1>6 DEF Game!main, StageOf
  <2>2. Game!Call("init_mm", x) = Game!init_mm(x)
    BY DEF Game!Call
  <2> QED BY <1>0, <2>1, <2>2, GameMm, NoMono
<1>7. CASE n = 7
  <2>1. Game!main[n] = "init_sched" /\ StageOf("GAME", n) = 8 /\ StageOf("GAME", n + 1) = 9
    BY <1>7 DEF Game!main, StageOf
  <2>2. Game!Call("init_sched", x) = Game!init_sched(x)
    BY DEF Game!Call
  <2> QED BY <1>0, <2>1, <2>2, GameSched
<1>8. CASE n = 8
  <2>1. Game!main[n] = "init_idle" /\ StageOf("GAME", n) = 9 /\ StageOf("GAME", n + 1) = 10
    BY <1>8 DEF Game!main, StageOf
  <2>2. Game!Call("init_idle", x) = Game!init_idle(x)
    BY DEF Game!Call
  <2> QED BY <1>0, <2>1, <2>2, GameIdle
<1>9. CASE n = 9
  <2>1. Game!main[n] = "init_task1" /\ StageOf("GAME", n) = 10 /\ StageOf("GAME", n + 1) = 11
    BY <1>9 DEF Game!main, StageOf
  <2>2. Game!Call("init_task1", x) = Game!init_task1(x)
    BY DEF Game!Call
  <2> QED BY <1>0, <2>1, <2>2, GameTask1
<1>10. CASE n = 10
  <2>1. Game!main[n] = "keyboard_init" /\ StageOf("GAME", n) = 11 /\ StageOf("GAME", n + 1) = 12
    BY <1>10 DEF Game!main, StageOf
  <2>2. Game!Call("keyboard_init", x) = Game!keyboard_init(x)
    BY DEF Game!Call
  <2> QED BY <1>0, <2>1, <2>2, StepKeyboard DEF Game!keyboard_init
<1>11. CASE n = 11
  <2>1. Game!main[n] = "copy_data" /\ StageOf("GAME", n) = 12 /\ StageOf("GAME", n + 1) = 13
    BY <1>11 DEF Game!main, StageOf
  <2>2. Game!Call("copy_data", x) = Game!copy_data(x)
    BY DEF Game!Call
  <2> QED BY <1>0, <2>1, <2>2, GameCopy
<1>12. CASE n = 12
  <2>1. Game!main[n] = "enable_int" /\ StageOf("GAME", n) = 13 /\ StageOf("GAME", n + 1) = 14
    BY <1>12 DEF Game!main, StageOf
  <2>2. Game!Call("enable_int", x) = Game!enable_int(x)
    BY DEF Game!Call
  <2> QED BY <1>0, <2>1, <2>2, GameRegisters
<1>13. CASE n = 13
  <2>1. Game!main[n] = "return_gate" /\ StageOf("GAME", n) = 14 /\ StageOf("GAME", n + 1) = 15
    BY <1>13 DEF Game!main, StageOf
  <2>2. Game!Call("return_gate", x) = Game!return_gate(x)
    BY DEF Game!Call
  <2> QED BY <1>0, <2>1, <2>2, GameRegisters
<1> QED BY <1>0, <1>1, <1>2, <1>3, <1>4, <1>5, <1>6, <1>7, <1>8, <1>9, <1>10, <1>11, <1>12, <1>13

\* ... and in E1_E2.
LEMMA E1Call ==
  ASSUME NEW n \in DOMAIN E1!main, NEW x, PagedInv("E1", x, StageOf("E1", n))
  PROVE  n \in 1 .. 14 /\ PagedInv("E1", E1!Call(E1!main[n], x), StageOf("E1", n + 1))
<1>0. n \in 1 .. 14
  BY DEF E1!main
<1>1. CASE n = 1
  <2>1. E1!main[n] = "set_eflags" /\ StageOf("E1", n) = 1 /\ StageOf("E1", n + 1) = 2
    BY <1>1 DEF E1!main, StageOf
  <2>2. E1!Call("set_eflags", x) = E1!set_eflags(x)
    BY DEF E1!Call
  <2> QED BY <1>0, <2>1, <2>2, E1Registers
<1>2. CASE n = 2
  <2>1. E1!main[n] = "set_seg_regs" /\ StageOf("E1", n) = 2 /\ StageOf("E1", n + 1) = 3
    BY <1>2 DEF E1!main, StageOf
  <2>2. E1!Call("set_seg_regs", x) = E1!set_seg_regs(x)
    BY DEF E1!Call
  <2> QED BY <1>0, <2>1, <2>2, E1Registers
<1>3. CASE n = 3
  <2>1. E1!main[n] = "setGdt" /\ StageOf("E1", n) = 3 /\ StageOf("E1", n + 1) = 4
    BY <1>3 DEF E1!main, StageOf
  <2>2. E1!Call("setGdt", x) = E1!setGdt(x)
    BY DEF E1!Call
  <2> QED BY <1>0, <2>1, <2>2, E1Registers
<1>4. CASE n = 4
  <2>1. E1!main[n] = "setIdt" /\ StageOf("E1", n) = 4 /\ StageOf("E1", n + 1) = 5
    BY <1>4 DEF E1!main, StageOf
  <2>2. E1!Call("setIdt", x) = E1!setIdt(x)
    BY DEF E1!Call
  <2> QED BY <1>0, <2>1, <2>2, E1Registers
<1>5. CASE n = 5
  <2>1. E1!main[n] = "setTSS" /\ StageOf("E1", n) = 5 /\ StageOf("E1", n + 1) = 6
    BY <1>5 DEF E1!main, StageOf
  <2>2. E1!Call("setTSS", x) = E1!setTSS(x)
    BY DEF E1!Call
  <2> QED BY <1>0, <2>1, <2>2, E1Registers
<1>6. CASE n = 6
  <2>1. E1!main[n] = "init_mm" /\ StageOf("E1", n) = 6 /\ StageOf("E1", n + 1) = 7
    BY <1>6 DEF E1!main, StageOf
  <2>2. E1!Call("init_mm", x) = E1!init_mm(x)
    BY DEF E1!Call
  <2> QED BY <1>0, <2>1, <2>2, E1Mm
<1>7. CASE n = 7
  <2>1. E1!main[n] = "monoprocess_init_addr_space" /\ StageOf("E1", n) = 7 /\ StageOf("E1", n + 1) = 8
    BY <1>7 DEF E1!main, StageOf
  <2>2. E1!Call("monoprocess_init_addr_space", x) = E1!monoprocess_init_addr_space(x)
    BY DEF E1!Call
  <2> QED BY <1>0, <2>1, <2>2, StepMono
<1>8. CASE n = 8
  <2>1. E1!main[n] = "init_sched" /\ StageOf("E1", n) = 8 /\ StageOf("E1", n + 1) = 9
    BY <1>8 DEF E1!main, StageOf
  <2>2. E1!Call("init_sched", x) = E1!init_sched(x)
    BY DEF E1!Call
  <2> QED BY <1>0, <2>1, <2>2, E1Sched
<1>9. CASE n = 9
  <2>1. E1!main[n] = "init_idle" /\ StageOf("E1", n) = 9 /\ StageOf("E1", n + 1) = 10
    BY <1>9 DEF E1!main, StageOf
  <2>2. E1!Call("init_idle", x) = E1!init_idle(x)
    BY DEF E1!Call
  <2> QED BY <1>0, <2>1, <2>2, E1Idle
<1>10. CASE n = 10
  <2>1. E1!main[n] = "init_task1" /\ StageOf("E1", n) = 10 /\ StageOf("E1", n + 1) = 11
    BY <1>10 DEF E1!main, StageOf
  <2>2. E1!Call("init_task1", x) = E1!init_task1(x)
    BY DEF E1!Call
  <2> QED BY <1>0, <2>1, <2>2, E1Task1
<1>11. CASE n = 11
  <2>1. E1!main[n] = "copy_data" /\ StageOf("E1", n) = 11 /\ StageOf("E1", n + 1) = 12
    BY <1>11 DEF E1!main, StageOf
  <2>2. E1!Call("copy_data", x) = E1!copy_data(x)
    BY DEF E1!Call
  <2> QED BY <1>0, <2>1, <2>2, E1Copy
<1>12. CASE n = 12
  <2>1. E1!main[n] = "clear_screen" /\ StageOf("E1", n) = 12 /\ StageOf("E1", n + 1) = 13
    BY <1>12 DEF E1!main, StageOf
  <2>2. E1!Call("clear_screen", x) = E1!clear_screen(x)
    BY DEF E1!Call
  <2> QED BY <1>0, <2>1, <2>2, E1Clear
<1>13. CASE n = 13
  <2>1. E1!main[n] = "enable_int" /\ StageOf("E1", n) = 13 /\ StageOf("E1", n + 1) = 14
    BY <1>13 DEF E1!main, StageOf
  <2>2. E1!Call("enable_int", x) = E1!enable_int(x)
    BY DEF E1!Call
  <2> QED BY <1>0, <2>1, <2>2, E1Registers
<1>14. CASE n = 14
  <2>1. E1!main[n] = "return_gate" /\ StageOf("E1", n) = 14 /\ StageOf("E1", n + 1) = 15
    BY <1>14 DEF E1!main, StageOf
  <2>2. E1!Call("return_gate", x) = E1!return_gate(x)
    BY DEF E1!Call
  <2> QED BY <1>0, <2>1, <2>2, E1Registers
<1> QED BY <1>0, <1>1, <1>2, <1>3, <1>4, <1>5, <1>6, <1>7, <1>8, <1>9, <1>10, <1>11, <1>12, <1>13, <1>14

\* The second exam kernel's functions are the game kernel's.
LEMMA Ex2Access == ASSUME NEW x, NEW ps PROVE Ex2!Game!Access(x, ps) = Game!Access(x, ps)
BY DEF Game!Access, Game!Mapped, Game!ActiveEntry, Game!ZeroEntry, Ex2!Game!Access, Ex2!Game!Mapped,
   Ex2!Game!ActiveEntry, Ex2!Game!ZeroEntry

\* Every call the second exam kernel shares with the game kernel is the same operation.
LEMMA Ex2Eflags == ASSUME NEW x PROVE Ex2!set_eflags(x) = Game!set_eflags(x)
BY DEF Game!set_eflags, Game!Popfl0, Ex2!Game!set_eflags, Ex2!Game!Popfl0, Ex2!set_eflags
LEMMA Ex2SegRegs == ASSUME NEW x PROVE Ex2!set_seg_regs(x) = Game!set_seg_regs(x)
BY DEF Game!protected_tasks, Game!FirstTaskPage, Game!MovEsp, Ex2!Game!protected_tasks, Ex2!Game!FirstTaskPage,
   Ex2!Game!MovEsp, Ex2!set_seg_regs, Game!set_seg_regs, Ex2!MovEsp
LEMMA Ex2Gdt == ASSUME NEW x PROVE Ex2!setGdt(x) = Game!setGdt(x)
BY Ex2Access DEF Game!setGdt, Game!set_gdt_reg, Game!Lgdt, Ex2!Game!setGdt, Ex2!Game!set_gdt_reg, Ex2!Game!Lgdt,
   Ex2!setGdt
LEMMA Ex2Tss == ASSUME NEW x PROVE Ex2!setTSS(x) = Game!setTSS(x)
BY DEF Game!setTSS, Game!set_task_reg, Game!Ltr, Game!INITIAL_ESP, Game!KERNEL_ESP, Game!protected_tasks,
   Game!FirstTaskPage, Ex2!Game!setTSS, Ex2!Game!set_task_reg, Ex2!Game!Ltr, Ex2!Game!INITIAL_ESP,
   Ex2!Game!KERNEL_ESP, Ex2!Game!protected_tasks, Ex2!Game!FirstTaskPage, Ex2!setTSS
LEMMA Ex2Idt == ASSUME NEW x PROVE Ex2!setIdt(x) = Game!setIdt(x)
BY DEF Game!set_handlers, Game!Over, Game!set_idt_reg, Game!Lidt, Game!INITIAL_ESP, Game!KERNEL_ESP,
   Game!protected_tasks, Game!FirstTaskPage, Ex2!Game!set_handlers, Ex2!Game!Over, Ex2!Game!set_idt_reg,
   Ex2!Game!Lidt, Ex2!Game!INITIAL_ESP, Ex2!Game!KERNEL_ESP, Ex2!Game!protected_tasks, Ex2!Game!FirstTaskPage,
   Ex2!setIdt, Game!setIdt, Ex2!set_idt_reg, Ex2!setSysenter, Game!setSysenter, Game!setMSR, Game!Wrmsr,
   Ex2!Wrmsr, Ex2!Put, Game!Put, Ex2!setInterruptHandler, Game!setInterruptHandler
LEMMA Ex2Mm == ASSUME NEW x PROVE Ex2!init_mm(x) = Game!init_mm(x)
BY AccessEx2, AccessGame DEF Game!init_table_pages, Game!init_dir_pages, Game!init_frames, Game!set_cr3,
   Game!MovCr3, Game!set_pe_flag, Game!OrCr0PG, Game!get_DIR, Game!allocate_DIR, Game!PTE, Game!ZeroEntry,
   Game!NR_TASKS, Game!Guards, Game!protected_tasks, Game!PH_PAGE, Game!FirstTaskPage, Ex2!Game!init_table_pages,
   Ex2!Game!init_dir_pages, Ex2!Game!init_frames, Ex2!Game!set_cr3, Ex2!Game!MovCr3, Ex2!Game!set_pe_flag,
   Ex2!Game!OrCr0PG, Ex2!Game!get_DIR, Ex2!Game!allocate_DIR, Ex2!Game!PTE, Ex2!Game!ZeroEntry,
   Ex2!Game!NR_TASKS, Ex2!Game!Guards, Ex2!Game!protected_tasks, Ex2!Game!PH_PAGE, Ex2!Game!FirstTaskPage,
   Ex2!init_mm, Game!init_mm, Ex2!init_table_pages, Ex2!init_dir_pages, Ex2!init_frames, Ex2!set_cr3,
   Ex2!set_pe_flag, Ex2!TablesPage, Game!TablesPage
LEMMA Ex2Sched == ASSUME NEW x PROVE Ex2!init_sched(x) = Game!init_sched(x)
BY Ex2Access DEF Game!init_freequeue, Game!PcbPage, Game!PH_PAGE, Game!protected_tasks, Game!FirstTaskPage,
   Game!NR_TASKS, Ex2!Game!init_freequeue, Ex2!Game!PcbPage, Ex2!Game!PH_PAGE, Ex2!Game!protected_tasks,
   Ex2!Game!FirstTaskPage, Ex2!Game!NR_TASKS, Ex2!init_sched, Game!init_sched, Ex2!init_freequeue
LEMMA Ex2Idle == ASSUME NEW x PROVE Ex2!init_idle(x) = Game!init_idle(x)
BY Ex2Access DEF Game!init_idle, Game!allocate_DIR, Game!KERNEL_ESP, Game!DEFAULT_QUANTUM, Game!PcbPage,
   Game!PH_PAGE, Game!protected_tasks, Game!FirstTaskPage, Ex2!Game!init_idle, Ex2!Game!allocate_DIR,
   Ex2!Game!KERNEL_ESP, Ex2!Game!DEFAULT_QUANTUM, Ex2!Game!PcbPage, Ex2!Game!PH_PAGE, Ex2!Game!protected_tasks,
   Ex2!Game!FirstTaskPage, Ex2!init_idle
LEMMA Ex2Free == ASSUME NEW x, NEW n PROVE Ex2!Game!alloc_frame(x, n) = Game!alloc_frame(x, n)
BY DEF Game!alloc_frame, Game!Allocatable, Game!NthFree, Game!Cardinality, Ex2!Game!alloc_frame,
   Ex2!Game!Allocatable, Ex2!Game!NthFree, Ex2!Game!Cardinality
LEMMA Ex2User == ASSUME NEW x, NEW t PROVE Ex2!Game!set_user_pages(x, t) = Game!set_user_pages(x, t)
BY Ex2Free DEF Game!set_user_pages, Game!get_PT, Game!get_DIR, Game!PTE, Game!Over, Game!PAG_LOG_INIT_CODE,
   Game!PAG_LOG_INIT_DATA, Game!PH_PAGE, Game!L_USER_START, Ex2!Game!set_user_pages, Ex2!Game!get_PT,
   Ex2!Game!get_DIR, Ex2!Game!PTE, Ex2!Game!Over, Ex2!Game!PAG_LOG_INIT_CODE, Ex2!Game!PAG_LOG_INIT_DATA,
   Ex2!Game!PH_PAGE, Ex2!Game!L_USER_START
LEMMA Ex2Task1 == ASSUME NEW x PROVE Ex2!init_task1(x) = Game!init_task1(x)
<1> DEFINE t == Head(x.freequeue)
           d == [Game!Access(x, {Game!PcbPage(t)}) EXCEPT
                   !.freequeue = Tail(@), !.task1 = t, !.quantum = Game!DEFAULT_QUANTUM,
                   !.pcb[t].PID = 1, !.pcb[t].quantum = Game!DEFAULT_QUANTUM, !.pcb[t].state = "ST_RUN"]
           e == [Ex2!Access(x, {Ex2!Game!PcbPage(t)}) EXCEPT
                   !.freequeue = Tail(@), !.task1 = t, !.quantum = Ex2!Game!DEFAULT_QUANTUM,
                   !.pcb[t].PID = 1, !.pcb[t].quantum = Ex2!Game!DEFAULT_QUANTUM, !.pcb[t].state = "ST_RUN"]
           g == Game!set_user_pages(Game!allocate_DIR(d, t), t)
           h == Ex2!set_user_pages(Ex2!Game!allocate_DIR(e, t), t)
           v == Game!Wrmsr([g EXCEPT !.esp0 = Game!KERNEL_ESP(t)], 373, Game!KERNEL_ESP(t))
           w == Ex2!Wrmsr([h EXCEPT !.esp0 = Ex2!Game!KERNEL_ESP(t)], 373, Ex2!Game!KERNEL_ESP(t))
<1>1. Game!init_task1(x) = Game!set_cr3(v, Game!get_DIR(v, t))
  BY DEF Game!init_task1, Game!setMSR
<1>2. Ex2!init_task1(x) = Ex2!set_cr3(w, Ex2!Game!get_DIR(w, t))
  BY DEF Ex2!init_task1
<1>3. Ex2!Game!PcbPage(t) = Game!PcbPage(t) /\ Ex2!Game!KERNEL_ESP(t) = Game!KERNEL_ESP(t)
  BY DEF Game!PcbPage, Ex2!Game!PcbPage, Game!PH_PAGE, Ex2!Game!PH_PAGE, Game!protected_tasks, Ex2!Game!protected_tasks,
         Game!FirstTaskPage, Ex2!Game!FirstTaskPage, Game!KERNEL_ESP, Ex2!Game!KERNEL_ESP
<1>4. e = d
  BY <1>3, AccessEx2, AccessGame DEF Game!DEFAULT_QUANTUM, Ex2!Game!DEFAULT_QUANTUM
<1> HIDE DEF d, e
<1>5. h = g
  BY <1>4, Ex2User DEF Ex2!set_user_pages, Game!allocate_DIR, Ex2!Game!allocate_DIR
<1> HIDE DEF g, h
<1>6. w = v
  BY <1>3, <1>5 DEF Ex2!Wrmsr, Game!Wrmsr, Ex2!Put, Game!Put
<1> HIDE DEF v, w
<1> QED BY <1>1, <1>2, <1>6 DEF Ex2!set_cr3, Ex2!Game!set_cr3, Game!set_cr3, Ex2!Game!MovCr3, Game!MovCr3,
   Ex2!Game!get_DIR, Game!get_DIR
LEMMA Ex2CopyData == ASSUME NEW x PROVE Ex2!copy_data(x) = Game!copy_data(x)
BY DEF Game!copy_data, Game!CopyImage, Game!Frame, Game!ActiveEntry, Game!ZeroEntry, Game!ImagePages,
   Game!KERNEL_START, Game!Over, Game!PAG_LOG_INIT_CODE, Game!L_USER_START, Game!PH_PAGE, Game!Access,
   Game!Mapped, Ex2!Game!copy_data, Ex2!Game!CopyImage, Ex2!Game!Frame, Ex2!Game!ActiveEntry, Ex2!Game!ZeroEntry,
   Ex2!Game!ImagePages, Ex2!Game!KERNEL_START, Ex2!Game!Over, Ex2!Game!PAG_LOG_INIT_CODE, Ex2!Game!L_USER_START,
   Ex2!Game!PH_PAGE, Ex2!Game!Access, Ex2!Game!Mapped, Ex2!copy_data
LEMMA Ex2Enable == ASSUME NEW x PROVE Ex2!enable_int(x) = Game!enable_int(x)
BY DEF Game!enable_int, Game!Sti, Game!UnmaskIrqs, Ex2!Game!enable_int, Ex2!Game!Sti, Ex2!Game!UnmaskIrqs,
   Ex2!enable_int
LEMMA Ex2Return == ASSUME NEW x PROVE Ex2!return_gate(x) = Game!return_gate(x)
BY Ex2Access DEF Game!return_gate, Game!Lret, Game!USER_ESP, Game!L_USER_START, Game!PH_PAGE, Game!TextPage,
   Game!StackPage, Ex2!Game!return_gate, Ex2!Game!Lret, Ex2!Game!USER_ESP, Ex2!Game!L_USER_START,
   Ex2!Game!PH_PAGE, Ex2!Game!TextPage, Ex2!Game!StackPage, Ex2!return_gate
LEMMA Ex2Clock == ASSUME NEW x PROVE Ex2!clock_routine(x) = Game!clock_routine(x)
BY DEF Game!clock_routine, Game!current, Game!TaskAt, Game!PcbPage, Game!PH_PAGE, Game!StackPage,
   Game!protected_tasks, Game!FirstTaskPage, Ex2!Game!clock_routine, Ex2!Game!current, Ex2!Game!TaskAt,
   Ex2!Game!PcbPage, Ex2!Game!PH_PAGE, Ex2!Game!StackPage, Ex2!Game!protected_tasks, Ex2!Game!FirstTaskPage,
   Ex2!clock_routine

\* So every call of its main() takes the invariant to the next stage too.
LEMMA Ex2Call ==
  ASSUME NEW n \in DOMAIN Ex2!main, NEW x, PagedInv("GAME", x, StageOf("Ex2", n))
  PROVE  n \in 1 .. 12 /\ PagedInv("GAME", Ex2!Call(Ex2!main[n], x), StageOf("Ex2", n + 1))
<1>0. n \in 1 .. 12
  BY DEF Ex2!main
<1>1. CASE n = 1
  <2>1. Ex2!main[n] = "set_eflags" /\ StageOf("Ex2", n) = 1 /\ StageOf("Ex2", n + 1) = 2
    BY <1>1 DEF Ex2!main, StageOf
  <2>2. Ex2!Call("set_eflags", x) = Ex2!set_eflags(x)
    BY DEF Ex2!Call
  <2>3. Ex2!set_eflags(x) = Game!set_eflags(x)
    BY Ex2Eflags
  <2> QED BY <1>0, <2>1, <2>2, <2>3, GameRegisters
<1>2. CASE n = 2
  <2>1. Ex2!main[n] = "set_seg_regs" /\ StageOf("Ex2", n) = 2 /\ StageOf("Ex2", n + 1) = 3
    BY <1>2 DEF Ex2!main, StageOf
  <2>2. Ex2!Call("set_seg_regs", x) = Ex2!set_seg_regs(x)
    BY DEF Ex2!Call
  <2>3. Ex2!set_seg_regs(x) = Game!set_seg_regs(x)
    BY Ex2SegRegs
  <2> QED BY <1>0, <2>1, <2>2, <2>3, GameRegisters
<1>3. CASE n = 3
  <2>1. Ex2!main[n] = "setGdt" /\ StageOf("Ex2", n) = 3 /\ StageOf("Ex2", n + 1) = 4
    BY <1>3 DEF Ex2!main, StageOf
  <2>2. Ex2!Call("setGdt", x) = Ex2!setGdt(x)
    BY DEF Ex2!Call
  <2>3. Ex2!setGdt(x) = Game!setGdt(x)
    BY Ex2Gdt
  <2> QED BY <1>0, <2>1, <2>2, <2>3, GameRegisters
<1>4. CASE n = 4
  <2>1. Ex2!main[n] = "setIdt" /\ StageOf("Ex2", n) = 4 /\ StageOf("Ex2", n + 1) = 5
    BY <1>4 DEF Ex2!main, StageOf
  <2>2. Ex2!Call("setIdt", x) = Ex2!setIdt(x)
    BY DEF Ex2!Call
  <2>3. Ex2!setIdt(x) = Game!setIdt(x)
    BY Ex2Idt
  <2> QED BY <1>0, <2>1, <2>2, <2>3, GameRegisters
<1>5. CASE n = 5
  <2>1. Ex2!main[n] = "setTSS" /\ StageOf("Ex2", n) = 5 /\ StageOf("Ex2", n + 1) = 6
    BY <1>5 DEF Ex2!main, StageOf
  <2>2. Ex2!Call("setTSS", x) = Ex2!setTSS(x)
    BY DEF Ex2!Call
  <2>3. Ex2!setTSS(x) = Game!setTSS(x)
    BY Ex2Tss
  <2> QED BY <1>0, <2>1, <2>2, <2>3, GameRegisters
<1>6. CASE n = 6
  <2>1. Ex2!main[n] = "init_mm" /\ StageOf("Ex2", n) = 6 /\ StageOf("Ex2", n + 1) = 8
    BY <1>6 DEF Ex2!main, StageOf
  <2>2. Ex2!Call("init_mm", x) = Ex2!init_mm(x)
    BY DEF Ex2!Call
  <2>3. Ex2!init_mm(x) = Game!init_mm(x)
    BY Ex2Mm
  <2> QED BY <1>0, <2>1, <2>2, <2>3, GameMm, NoMono
<1>7. CASE n = 7
  <2>1. Ex2!main[n] = "init_sched" /\ StageOf("Ex2", n) = 8 /\ StageOf("Ex2", n + 1) = 9
    BY <1>7 DEF Ex2!main, StageOf
  <2>2. Ex2!Call("init_sched", x) = Ex2!init_sched(x)
    BY DEF Ex2!Call
  <2>3. Ex2!init_sched(x) = Game!init_sched(x)
    BY Ex2Sched
  <2> QED BY <1>0, <2>1, <2>2, <2>3, GameSched
<1>8. CASE n = 8
  <2>1. Ex2!main[n] = "init_idle" /\ StageOf("Ex2", n) = 9 /\ StageOf("Ex2", n + 1) = 10
    BY <1>8 DEF Ex2!main, StageOf
  <2>2. Ex2!Call("init_idle", x) = Ex2!init_idle(x)
    BY DEF Ex2!Call
  <2>3. Ex2!init_idle(x) = Game!init_idle(x)
    BY Ex2Idle
  <2> QED BY <1>0, <2>1, <2>2, <2>3, GameIdle
<1>9. CASE n = 9
  <2>1. Ex2!main[n] = "init_task1" /\ StageOf("Ex2", n) = 10 /\ StageOf("Ex2", n + 1) = 12
    BY <1>9 DEF Ex2!main, StageOf
  <2>2. Ex2!Call("init_task1", x) = Ex2!init_task1(x)
    BY DEF Ex2!Call
  <2>3. Ex2!init_task1(x) = Game!init_task1(x)
    BY Ex2Task1
  <2> QED BY <1>0, <2>1, <2>2, <2>3, GameTask1, NoKeyboard
<1>10. CASE n = 10
  <2>1. Ex2!main[n] = "copy_data" /\ StageOf("Ex2", n) = 12 /\ StageOf("Ex2", n + 1) = 13
    BY <1>10 DEF Ex2!main, StageOf
  <2>2. Ex2!Call("copy_data", x) = Ex2!copy_data(x)
    BY DEF Ex2!Call
  <2>3. Ex2!copy_data(x) = Game!copy_data(x)
    BY Ex2CopyData
  <2> QED BY <1>0, <2>1, <2>2, <2>3, GameCopy
<1>11. CASE n = 11
  <2>1. Ex2!main[n] = "enable_int" /\ StageOf("Ex2", n) = 13 /\ StageOf("Ex2", n + 1) = 14
    BY <1>11 DEF Ex2!main, StageOf
  <2>2. Ex2!Call("enable_int", x) = Ex2!enable_int(x)
    BY DEF Ex2!Call
  <2>3. Ex2!enable_int(x) = Game!enable_int(x)
    BY Ex2Enable
  <2> QED BY <1>0, <2>1, <2>2, <2>3, GameRegisters
<1>12. CASE n = 12
  <2>1. Ex2!main[n] = "return_gate" /\ StageOf("Ex2", n) = 14 /\ StageOf("Ex2", n + 1) = 15
    BY <1>12 DEF Ex2!main, StageOf
  <2>2. Ex2!Call("return_gate", x) = Ex2!return_gate(x)
    BY DEF Ex2!Call
  <2>3. Ex2!return_gate(x) = Game!return_gate(x)
    BY Ex2Return
  <2> QED BY <1>0, <2>1, <2>2, <2>3, GameRegisters
<1> QED BY <1>0, <1>1, <1>2, <1>3, <1>4, <1>5, <1>6, <1>7, <1>8, <1>9, <1>10, <1>11, <1>12

\* A clock interrupt that finds no process ready changes counters only.
LEMMA CountersKept ==
  ASSUME NEW k \in PagedKernels, NEW s \in 1 .. 15, NEW x, PagedInv(k, x, s), NEW y,
         Differs(x, y, {"ticks", "quantum"})
  PROVE  PagedInv(k, y, s)
<1>1. Machine(y) /\ Machine(x) /\ Regs(k, x, s) /\ Paging(k, x, s) /\ Procs(k, x, s) /\ Image(k, x, s)
  BY DEF PagedInv, Differs
<1>2. /\ y.IF = x.IF /\ y.irqs = x.irqs /\ y.idtr = x.idtr /\ y.tr = x.tr /\ y.gates = x.gates
      /\ y.esp = x.esp /\ y.mode = x.mode /\ y.msr = x.msr /\ y.esp0 = x.esp0 /\ y.fault = x.fault
  BY RegistersOther
<1>3. SameMemory(x, y) /\ SameProcs(x, y) /\ SameImage(x, y)
  BY MemoryOther
<1>4. Regs(k, y, s)
  BY <1>1, <1>2 DEF Regs
<1>5. Procs(k, y, s)
  BY <1>1, <1>3 DEF Procs, SameProcs
<1>6. Paging(k, y, s)
  <2>1. CASE s <= 6
    BY <1>1, <1>3, <2>1 DEF Paging, SameMemory
  <2>2. CASE s >= 7
    <3>1. Tables(k, y, Spaces(k, s)) /\ Frames(y, Spaces(k, s))
      <4>1. Tables(k, x, Spaces(k, s)) /\ Frames(x, Spaces(k, s))
        BY <1>1, <2>2 DEF Paging
      <4> QED BY <1>3, <4>1, TablesKept
    <3> QED BY <1>1, <1>3, <2>2, <3>1 DEF Paging, SameMemory
  <2> QED BY <2>1, <2>2
<1>7. Image(k, y, s)
  <2>1. ImagePages(y) = ImagePages(x) /\ \A t, p : FrameAt(y, t, p) = FrameAt(x, t, p)
    BY <1>3 DEF ImagePages, FrameAt, SameImage, SameMemory
  <2> QED BY <1>1, <1>3, <2>1 DEF Image, SameImage
<1> QED BY <1>1, <1>4, <1>5, <1>6, <1>7 DEF PagedInv

\* The clock routine of every kernel changes counters only.
LEMMA ClockCounts ==
  ASSUME NEW x, Machine(x)
  PROVE  /\ Differs(x, Game!clock_routine(x), {"ticks", "quantum"})
         /\ Differs(x, Ex2!clock_routine(x), {"ticks", "quantum"})
         /\ Differs(x, E1!clock_routine(x), {"ticks", "quantum"})
         /\ Differs(x, Base!clock_routine(x), {"ticks", "quantum"})
<1>1. Differs(x, Game!clock_routine(x), {"ticks", "quantum"})
  <2> DEFINE q == IF x.quantum - 1 = 0 THEN x.pcb[Game!current(x)].quantum ELSE x.quantum - 1
  <2>1. Game!clock_routine(x) = [x EXCEPT !.ticks = @ + 1, !.quantum = q]
    BY DEF Game!clock_routine
  <2> HIDE DEF q
  <2> QED BY <2>1, Fields DEF Differs, Machine
<1>2. Differs(x, E1!clock_routine(x), {"ticks", "quantum"}) /\ Differs(x, Base!clock_routine(x), {"ticks", "quantum"})
  BY Fields DEF Differs, Machine, E1!clock_routine, Base!clock_routine
<1> QED BY <1>1, <1>2, Ex2Clock

\* Interrupts are delivered: the gate, the TSS and the stack are there.
LEMMA Delivered ==
  ASSUME NEW k \in PagedKernels, NEW s \in 1 .. 15, PagedInv(k, m, s), m.IF, NEW line \in {0, 1}
  PROVE  Deliver(line) = m
<1>1. Machine(m) /\ Regs(k, m, s)
  BY DEF PagedInv
<1>2. s \in {14, 15} /\ m.fault = FALSE /\ m.idtr = TRUE /\ m.tr = TRUE /\ (32 + line) \in DOMAIN m.gates
  BY <1>1 DEF Regs
<1> DEFINE e == IF m.mode = "user" THEN m.esp0 ELSE m.esp
           ok == m.idtr /\ (32 + line) \in DOMAIN m.gates /\ (m.mode = "user" => m.tr)
<1>3. StackPage(e) \in {BootPage(k), PcbAt(k, Task(k))}
  <2>1. e \in {BootEsp(k), Top(k)}
    BY <1>1, <1>2 DEF Regs
  <2> HIDE DEF e
  <2> QED BY <2>1, StackPages
<1>4. {StackPage(e), TextPage} \subseteq (1 .. K - 1) \ Holes(k)
  <2> HIDE DEF e
  <2> QED BY <1>3, StackPages, Sizes DEF TextPage, Holes
<1>5. Access(m, {StackPage(e), TextPage}) = m
  <2> DEFINE ps == {StackPage(e), TextPage}
  <2>1. ps \subseteq (1 .. K - 1) \ Holes(k)
    BY <1>4
  <2> HIDE DEF ps
  <2>2. Access(m, ps) = m
    BY <2>1, KernelAccess
  <2> QED BY <2>2 DEF ps
<1>6. Deliver(line) = [m EXCEPT !.fault = m.fault \/ ~ok]
  BY <1>5 DEF Deliver
<1>7. ok = TRUE
  BY <1>2
<1> HIDE DEF ok, e
<1>8. Deliver(line) = [m EXCEPT !.fault = FALSE]
  BY <1>2, <1>6, <1>7
<1> QED BY <1>1, <1>2, <1>8 DEF Machine

\* The machine as it is loaded.
LEMMA Reset ==
  ASSUME NEW k \in PagedKernels, NEW sys \in SysSizes, NEW usr \in UsrSizes, NEW img,
         img = 0 .. (usr + PAGE - 1) \div PAGE - 1
  PROVE  PagedInv(k, ResetMachine(sys, usr, img), 1)
<1> DEFINE x == ResetMachine(sys, usr, img)
<1>1. Machine(x)
  BY DEF Machine, Off, ResetMachine
<1>2. Regs(k, x, 1)
  BY DEF Regs, ResetMachine
<1>3. Paging(k, x, 1)
  BY DEF Paging, ResetMachine
<1>4. Procs(k, x, 1)
  BY DEF Procs, ResetMachine, Tasks, NR_TASKS
<1>5. Image(k, x, 1)
  <2>1. x.sys_size = sys /\ x.usr_size = usr /\ x.image = img
    BY DEF ResetMachine
  <2> HIDE DEF x
  <2> QED BY <2>1 DEF Image, ImagePages
<1> QED BY <1>1, <1>2, <1>3, <1>4, <1>5 DEF PagedInv

\* The boot sector hands over the sizes and all pages of the user program.
LEMMA LoadedMachine ==
  ASSUME BuildInv, Load
  PROVE  m' = ResetMachine(files.sys, files.usr, 0 .. (files.usr + PAGE - 1) \div PAGE - 1)
<1>1. FilesOK /\ Lengths(4)
  BY DEF BuildInv, Load
<1>2. /\ files.sys \in Nat /\ files.usr \in Nat /\ files.sys >= 3 /\ SECT = 4 /\ IM_OFF = 2
      /\ Total = SECT + files.sys + files.usr /\ Total \in Nat /\ Total >= 7
  BY <1>1, FileSizes DEF IM_OFF
<1> DEFINE s == files.sys
           u == files.usr
           c == LoadedCells
<1>3. c = [i \in 1 .. s + u |-> out[SECT + i]]
  BY <1>1, Loaded
<1>4. s \in Nat /\ u \in Nat /\ s >= 3 /\ Total = 4 + s + u
  BY <1>2
<1> HIDE DEF s, u, c
<1>5. c[1].at = s /\ c[2].at = u
  <2>1. 5 \in 1 .. Total /\ 6 \in 1 .. Total /\ SECT + 1 = 5 /\ SECT + 2 = 6 /\ IM_OFF + 1 = 3
    BY <1>2
  <2>2. out[5] = WithLengths(4, 5) /\ out[6] = WithLengths(4, 6)
    BY <1>1, <2>1 DEF Lengths
  <2>3. out[5] = Number(s) /\ out[6] = Number(u)
    BY <2>1, <2>2 DEF WithLengths, s, u
  <2>4. c[1] = out[5] /\ c[2] = out[6]
    BY <1>2, <1>3, <1>4
  <2> QED BY <2>3, <2>4 DEF Number
<1>6. ASSUME NEW a \in Nat, a < u PROVE s + a + 1 \in DOMAIN c /\ c[s + a + 1] = Cell("usr", a + 1)
  <2>1. s + a + 1 \in 1 .. s + u
    BY <1>4, <1>6
  <2>2. c[s + a + 1] = out[SECT + (s + a + 1)] /\ s + a + 1 \in DOMAIN c
    BY <1>3, <2>1
  <2> DEFINE i == 5 + s + a
  <2>3. SECT + (s + a + 1) = i /\ i \in 1 .. Total /\ i >= 8 /\ i > SECT + s /\ i - SECT - s = a + 1 /\ i \in Nat
    BY <1>2, <1>4, <1>6
  <2> HIDE DEF i
  <2>4. out[i] = WithLengths(4, i)
    BY <1>1, <2>3 DEF Lengths
  <2>5. WithLengths(4, i) = Origin(i)
    BY <1>2, <2>3 DEF WithLengths
  <2>6. Origin(i) = Cell("usr", a + 1)
    BY <1>2, <1>4, <2>3 DEF Origin, s
  <2> QED BY <2>2, <2>3, <2>4, <2>5, <2>6
<1>7. LoadedImage(c, s, u) = 0 .. (u + PAGE - 1) \div PAGE - 1
  <2>1. ASSUME NEW i \in 0 .. (u + PAGE - 1) \div PAGE - 1, NEW a \in i * PAGE .. i * PAGE + PAGE - 1, a < u
        PROVE  s + a + 1 \in DOMAIN c /\ c[s + a + 1] = Cell("usr", a + 1)
    <3>1. i \in Nat /\ PAGE \in Nat
      BY Sizes
    <3>2. i * PAGE \in Nat
      BY <3>1
    <3>3. a \in Nat
      BY <3>1, <3>2
    <3> QED BY <1>6, <2>1, <3>3
  <2> QED BY <2>1 DEF LoadedImage
<1>8. m' = ResetMachine(c[1].at, c[2].at, LoadedImage(c, c[1].at, c[2].at))
  BY DEF Load, c
<1> QED BY <1>5, <1>7, <1>8 DEF s, u

PcInv ==
  /\ pc \in Nat
  /\ pc > 0 => step = "exit0"
  /\ pc = 0 => m.mode = "kernel"

\* Every kernel with paging goes through the stages of one of the two.
LEMMA LikePaged == ASSUME NEW k PROVE Like(k) \in PagedKernels
BY DEF Like, PagedKernels

\* main() begins after the image was built and loaded,
LEMMA PcStep == ASSUME PcInv, BuildInv, [Next]_vars PROVE PcInv'
<1>1. CASE Building
  <2>1. UNCHANGED << m, pc >>
    BY <1>1 DEF Building
  <2>2. pc > 0 => FALSE
    BY <1>1 DEF PcInv, Building, BuildNext, BuildGame, BuildEx2, BuildE1, BuildBase, build, CopyBoot, CopySystem,
       CopyUser, WriteHeader
  <2> QED BY <2>1, <2>2 DEF PcInv
<1>2. CASE Load
  BY <1>2 DEF Load, PcInv, bvars
<1>3. CASE Main
  <2>1. pc' = pc + 1 /\ UNCHANGED step /\ pc > 0
    <3>1. pc' = pc + 1 /\ UNCHANGED step
      BY <1>3 DEF Main, MainGame, MainEx2, MainE1, MainBase, Running, bvars
    <3>2. pc \in DOMAIN Game!main \/ pc \in DOMAIN Ex2!main \/ pc \in DOMAIN E1!main \/ pc \in DOMAIN Base!main
      BY <1>3 DEF Main, MainGame, MainEx2, MainE1, MainBase, Running
    <3>3. pc > 0
      BY <3>2 DEF Game!main, Ex2!main, E1!main, Base!main
    <3> QED BY <3>1, <3>3
  <2> QED BY <2>1 DEF PcInv
<1>4. CASE Tick \/ Key
  BY <1>4 DEF Tick, Key, Interruptible, PcInv
<1>5. CASE UNCHANGED vars
  BY <1>5 DEF vars, PcInv
<1> QED BY <1>1, <1>2, <1>3, <1>4, <1>5 DEF Next

\* ... and every step keeps the invariant of the kernels with paging.
LEMMA PagedStep == ASSUME PagedBoot, PcInv, BuildInv, [Next]_vars PROVE PagedBoot'
<1>0. SUFFICES ASSUME pc' > 0, kernel' # "base"
               PROVE  PagedInv(Like(kernel'), m', StageOf(kernel', pc')) /\ StageOf(kernel', pc') \in 1 .. 15
  BY DEF PagedBoot
<1>1. CASE Building
  BY <1>0, <1>1 DEF PcInv, Building, BuildNext, BuildGame, BuildEx2, BuildE1, BuildBase, build, CopyBoot,
     CopySystem, CopyUser, WriteHeader
<1>2. CASE Load
  <2>1. pc' = 1 /\ kernel' = kernel /\ files.sys \in SysSizes /\ files.usr \in UsrSizes
    BY <1>2 DEF Load, bvars, BuildInv, FilesOK
  <2>2. StageOf(kernel', pc') = 1
    BY <2>1 DEF StageOf
  <2>3. PagedInv(Like(kernel'), m', 1)
    BY <1>2, <2>1, LoadedMachine, Reset, LikePaged
  <2> QED BY <2>2, <2>3
<1>3. CASE Main
  <2>1. pc' = pc + 1 /\ UNCHANGED kernel /\ kernel \in Kernels
    BY <1>3 DEF Main, MainGame, MainEx2, MainE1, MainBase, Running, bvars, BuildInv, FilesOK
  <2>2. CASE kernel = "GAME"
    <3>1. pc \in DOMAIN Game!main /\ m' = Game!Call(Game!main[pc], Before)
      BY <1>3, <2>2 DEF Main, MainGame, MainEx2, MainE1, MainBase, Running
    <3>2. pc \in 1 .. 13
      BY <3>1 DEF Game!main
    <3>3. PagedInv("GAME", m, StageOf("GAME", pc)) /\ StageOf("GAME", pc) \in 1 .. 14 /\ "GAME" \in PagedKernels
      BY <2>2, <3>2 DEF PagedBoot, StageOf, PagedKernels, Like
    <3>4. Before = m
      BY <3>3, BeforeSame DEF Before
    <3>5. PagedInv("GAME", m', StageOf("GAME", pc + 1))
      BY <3>1, <3>3, <3>4, GameCall
    <3>6. StageOf("GAME", pc + 1) \in 1 .. 15
      BY <3>2 DEF StageOf
    <3> QED BY <2>1, <2>2, <3>5, <3>6 DEF Like
  <2>3. CASE kernel = "Ex2"
    <3>1. pc \in DOMAIN Ex2!main /\ m' = Ex2!Call(Ex2!main[pc], Before)
      BY <1>3, <2>3 DEF Main, MainGame, MainEx2, MainE1, MainBase, Running
    <3>2. pc \in 1 .. 12
      BY <3>1 DEF Ex2!main
    <3>3. PagedInv("GAME", m, StageOf("Ex2", pc)) /\ StageOf("Ex2", pc) \in 1 .. 14 /\ "GAME" \in PagedKernels
      BY <2>3, <3>2 DEF PagedBoot, StageOf, PagedKernels, Like
    <3>4. Before = m
      BY <3>3, BeforeSame DEF Before
    <3>5. PagedInv("GAME", m', StageOf("Ex2", pc + 1))
      BY <3>1, <3>3, <3>4, Ex2Call
    <3>6. StageOf("Ex2", pc + 1) \in 1 .. 15
      BY <3>2 DEF StageOf
    <3> QED BY <2>1, <2>3, <3>5, <3>6 DEF Like
  <2>4. CASE kernel = "E1"
    <3>1. pc \in DOMAIN E1!main /\ m' = E1!Call(E1!main[pc], Before)
      BY <1>3, <2>4 DEF Main, MainGame, MainEx2, MainE1, MainBase, Running
    <3>2. pc \in 1 .. 14
      BY <3>1 DEF E1!main
    <3>3. PagedInv("E1", m, StageOf("E1", pc)) /\ StageOf("E1", pc) \in 1 .. 14 /\ "E1" \in PagedKernels
      BY <2>4, <3>2 DEF PagedBoot, StageOf, PagedKernels, Like
    <3>4. Before = m
      BY <3>3, BeforeSame DEF Before
    <3>5. PagedInv("E1", m', StageOf("E1", pc + 1))
      BY <3>1, <3>3, <3>4, E1Call
    <3>6. StageOf("E1", pc + 1) \in 1 .. 15
      BY <3>2 DEF StageOf
    <3> QED BY <2>1, <2>4, <3>5, <3>6 DEF Like
  <2> QED BY <1>0, <2>1, <2>2, <2>3, <2>4 DEF Kernels
<1>4. CASE Tick \/ Key
  <2>1. UNCHANGED << kernel, pc >> /\ m.IF /\ kernel \in Kernels
    BY <1>4 DEF Tick, Key, Interruptible, BuildInv, FilesOK
  <2> DEFINE k == Like(kernel)
             s == StageOf(kernel, pc)
  <2>2. k \in PagedKernels /\ s \in 1 .. 15 /\ PagedInv(k, m, s) /\ Machine(m)
    BY <1>0, <2>1, LikePaged DEF PagedBoot, PagedInv
  <2>3. Deliver(0) = m /\ Deliver(1) = m
    <3> HIDE DEF k, s
    <3> QED BY <2>1, <2>2, Delivered
  <2>4. CASE Tick
    <3>1. m' = clock_routine(m)
      BY <2>3, <2>4 DEF Tick
    <3>2. Differs(m, m', {"ticks", "quantum"})
      BY <2>1, <2>2, <3>1, ClockCounts DEF clock_routine, Kernels
    <3> HIDE DEF k, s
    <3>3. PagedInv(k, m', s)
      BY <2>2, <3>2, CountersKept
    <3> QED BY <2>1, <2>2, <3>3 DEF k, s
  <2>5. CASE Key
    <3>1. m' = m
      BY <2>3, <2>5 DEF Key
    <3> QED BY <2>1, <2>2, <3>1
  <2> QED BY <1>4, <2>4, <2>5
<1>5. CASE UNCHANGED vars
  BY <1>0, <1>5 DEF vars, PagedBoot
<1> QED BY <1>1, <1>2, <1>3, <1>4, <1>5 DEF Next

-----------------------------------------------------------------------------
(* The base kernel.  Paging stays off, and directories, tables and PCBs    *)
(* are in frames.                                                          *)

BaseEsp == 3 * PAGE - 1
BaseRegs(x, s) ==
  /\ x.fault = FALSE /\ x.pg = FALSE
  /\ x.mode = IF s = 15 THEN "user" ELSE "kernel"
  /\ s <= 2 => x.esp = 0
  /\ s \in 3 .. 14 => x.esp = BaseEsp
  /\ x.irqs \subseteq {0, 1}
  /\ s <= 13 => x.IF = FALSE
  /\ s >= 5 => x.idtr = TRUE /\ {32, 33} \subseteq DOMAIN x.gates
  /\ s >= 6 => x.tr = TRUE
  /\ s >= 11 => /\ x.esp0 = (x.task1 + 1) * PAGE /\ x.msr[373] = x.esp0
                /\ x.cr3 = x.pcb[x.task1].dir /\ x.pcb[x.task1].PID = 1

BaseLast(x) == PH_PAGE(KERNEL_START + x.sys_size + x.usr_size) + 1
BaseOwn(x) == (2 .. x.last_kernel - 1) \cup {GDT_PAGE, SCREEN_PAGE}
BaseFrames(x) == (x.last_kernel .. TOTAL_PAGES - 1) \ {GDT_PAGE, SCREEN_PAGE}

IdleNames(x) == {x.idle_task, x.pcb[x.idle_task].dir}
TaskDir(x) == x.pcb[x.task1].dir
SystemTable(x) == x.dirs[TaskDir(x)][1].table
UserTable(x) == x.dirs[TaskDir(x)][2].table
TaskNames(x) == {x.task1, TaskDir(x), SystemTable(x), UserTable(x)}
UserFrame(x, p) == x.tabs[UserTable(x)][p].frame
Held(x) == {UserFrame(x, p) : p \in 0 .. U - 1}

IdleSpace(x) ==
  /\ x.idle_task \in DOMAIN x.pcb /\ DOMAIN x.dirs = {x.pcb[x.idle_task].dir}
  /\ IdleNames(x) \subseteq BaseFrames(x)
  /\ x.phys_mem = BaseOwn(x) \cup IdleNames(x)

TaskSpace(x) ==
  /\ DOMAIN x.dirs = {x.pcb[x.idle_task].dir, TaskDir(x)}
  /\ DOMAIN x.tabs = {SystemTable(x), UserTable(x)} /\ SystemTable(x) # UserTable(x)
  /\ IdleNames(x) \cup TaskNames(x) \subseteq BaseFrames(x)
  /\ Held(x) \subseteq BaseFrames(x) \ (IdleNames(x) \cup TaskNames(x))
  /\ \A p, q \in 0 .. U - 1 : UserFrame(x, p) = UserFrame(x, q) => p = q
  /\ \A p \in 0 .. TOTAL_PAGES - 1 : x.tabs[SystemTable(x)][p].user = FALSE
  /\ \A p \in 0 .. TOTAL_PAGES - 1 :
       x.tabs[UserTable(x)][p] = IF p < U THEN PTE(UserFrame(x, p), TRUE, p < NUM_PAG_DATA) ELSE ZeroEntry
  /\ x.phys_mem = BaseOwn(x) \cup IdleNames(x) \cup TaskNames(x) \cup Held(x)

BaseMem(x, s) ==
  /\ s <= 7 => x.phys_mem = {}
  /\ s <= 9 => x.dirs = << >> /\ x.idle_task = None
  /\ s <= 10 => x.tabs = << >> /\ x.task1 = None
  /\ s >= 8 => x.first_kernel = 2 /\ x.last_kernel = BaseLast(x)
  /\ s \in {8, 9} => x.phys_mem = BaseOwn(x)
  /\ s = 10 => IdleSpace(x)
  /\ s >= 11 => TaskSpace(x)

BaseImage(x, s) ==
  /\ x.sys_size \in SysSizes /\ x.usr_size \in UsrSizes
  /\ x.image = ImagePages(x)
  /\ s >= 12 => \A i \in ImagePages(x) : x.mem[TOTAL_PAGES + i] = i

BaseInv(x, s) == Machine(x) /\ BaseRegs(x, s) /\ BaseMem(x, s) /\ BaseImage(x, s)

BaseBoot == pc > 0 /\ kernel = "base" => pc \in 1 .. 15 /\ BaseInv(m, pc)

\* Without paging no access faults.
LEMMA AccessBase ==
  ASSUME NEW x, Machine(x), x.fault = FALSE, x.pg = FALSE, NEW ps
  PROVE  Access(x, ps) = x /\ Base!Access(x, ps) = x
<1>1. Access(x, ps) = x
  BY AccessSame DEF Mapped
<1>2. Base!Access(x, ps) = Access(x, ps)
  BY DEF Base!Access, Access, Base!Mapped, Mapped, Base!ActiveEntry, ActiveEntry, Base!ZeroEntry, ZeroEntry
<1> QED BY <1>1, <1>2

\* The copy of the image in the base kernel.
LEMMA CopyBase == ASSUME NEW x, NEW f PROVE Base!CopyImage(x, f) = CopyImage(x, f)
BY DEF Base!CopyImage, CopyImage, Base!ImagePages, ImagePages, Base!PH_PAGE, PH_PAGE, Base!Frame, Frame,
       Base!ActiveEntry, ActiveEntry, Base!ZeroEntry, ZeroEntry, Base!Over, Over, Base!KERNEL_START, KERNEL_START,
       Base!Access, Access, Base!Mapped, Mapped

MemoryFields == {"pg", "cr3", "dirs", "tabs", "phys_mem", "first_kernel", "last_kernel", "pcb", "idle_task",
                 "task1", "sys_size", "usr_size", "image", "mem", "fault"}

\* A step that touches no memory field leaves them all alone,
LEMMA BaseSame ==
  ASSUME NEW x, NEW y, NEW F, Differs(x, y, F), F \cap MemoryFields = {}
  PROVE  /\ y.pg = x.pg /\ y.cr3 = x.cr3 /\ y.dirs = x.dirs /\ y.tabs = x.tabs /\ y.phys_mem = x.phys_mem
         /\ y.first_kernel = x.first_kernel /\ y.last_kernel = x.last_kernel /\ y.pcb = x.pcb
         /\ y.idle_task = x.idle_task /\ y.task1 = x.task1 /\ y.sys_size = x.sys_size
         /\ y.usr_size = x.usr_size /\ y.image = x.image /\ y.mem = x.mem /\ y.fault = x.fault
BY Fields DEF Differs, MemoryFields

\* ... and the registers it does not name.
LEMMA BaseOther ==
  ASSUME NEW x, NEW y, NEW F, Differs(x, y, F), F \cap MemoryFields = {}
  PROVE  /\ y.pg = x.pg /\ y.cr3 = x.cr3 /\ y.pcb = x.pcb /\ y.task1 = x.task1 /\ y.fault = x.fault
         /\ "IF" \notin F => y.IF = x.IF
         /\ "irqs" \notin F => y.irqs = x.irqs
         /\ "idtr" \notin F => y.idtr = x.idtr
         /\ "tr" \notin F => y.tr = x.tr
         /\ "gates" \notin F => y.gates = x.gates
         /\ "esp" \notin F => y.esp = x.esp
         /\ "mode" \notin F => y.mode = x.mode
         /\ "msr" \notin F => y.msr = x.msr
         /\ "esp0" \notin F => y.esp0 = x.esp0
<1>1. y.pg = x.pg /\ y.cr3 = x.cr3 /\ y.pcb = x.pcb /\ y.task1 = x.task1 /\ y.fault = x.fault
  BY BaseSame
<1> QED BY <1>1, RegistersOther

\* The spaces depend on directories, tables, PCBs and phys_mem only.
LEMMA SpacesKept ==
  ASSUME NEW x, NEW y, y.dirs = x.dirs, y.tabs = x.tabs, y.phys_mem = x.phys_mem,
         y.last_kernel = x.last_kernel, y.pcb = x.pcb, y.idle_task = x.idle_task, y.task1 = x.task1
  PROVE  /\ IdleSpace(x) => IdleSpace(y)
         /\ TaskSpace(x) => TaskSpace(y)
         /\ BaseOwn(x) = BaseOwn(y)
<1>1. /\ BaseOwn(y) = BaseOwn(x) /\ BaseFrames(y) = BaseFrames(x) /\ IdleNames(y) = IdleNames(x)
      /\ TaskDir(y) = TaskDir(x)
  BY DEF BaseOwn, BaseFrames, IdleNames, TaskDir
<1>2. SystemTable(y) = SystemTable(x) /\ UserTable(y) = UserTable(x)
  BY <1>1 DEF SystemTable, UserTable
<1>3. TaskNames(y) = TaskNames(x) /\ \A p : UserFrame(y, p) = UserFrame(x, p)
  BY <1>1, <1>2 DEF TaskNames, UserFrame
<1>4. Held(y) = Held(x)
  BY <1>3 DEF Held
<1>5. IdleSpace(x) => IdleSpace(y)
  BY <1>1 DEF IdleSpace
<1>6. TaskSpace(x) => TaskSpace(y)
  BY <1>1, <1>2, <1>3, <1>4 DEF TaskSpace
<1> QED BY <1>1, <1>5, <1>6

\* A call that leaves memory and processes alone.
LEMMA BaseStep ==
  ASSUME NEW x, NEW y, NEW s \in {1, 2, 3, 4, 5, 6, 8, 12, 13, 14}, BaseInv(x, s), NEW F, Differs(x, y, F),
         F \cap MemoryFields = {}, BaseRegs(y, s + 1)
  PROVE  BaseInv(y, s + 1)
<1>1. Machine(y) /\ BaseMem(x, s) /\ BaseImage(x, s)
  BY DEF BaseInv, Differs
<1>2. BaseMem(y, s + 1)
  <2>1. BaseLast(y) = BaseLast(x)
    BY BaseSame DEF BaseLast
  <2>2. /\ IdleSpace(x) => IdleSpace(y)
        /\ TaskSpace(x) => TaskSpace(y)
        /\ BaseOwn(x) = BaseOwn(y)
    BY BaseSame, SpacesKept
  <2>3. /\ y.dirs = x.dirs /\ y.tabs = x.tabs /\ y.phys_mem = x.phys_mem /\ y.first_kernel = x.first_kernel
        /\ y.last_kernel = x.last_kernel /\ y.idle_task = x.idle_task /\ y.task1 = x.task1
    BY BaseSame
  <2>4. CASE s \in 1 .. 6
    BY <1>1, <2>3, <2>4 DEF BaseMem
  <2>5. CASE s = 8
    BY <1>1, <2>1, <2>2, <2>3, <2>5 DEF BaseMem
  <2>6. CASE s \in 12 .. 14
    BY <1>1, <2>1, <2>2, <2>3, <2>6 DEF BaseMem
  <2> QED BY <2>4, <2>5, <2>6
<1>3. BaseImage(y, s + 1)
  <2>1. ImagePages(y) = ImagePages(x)
    BY BaseSame DEF ImagePages
  <2>2. y.sys_size = x.sys_size /\ y.usr_size = x.usr_size /\ y.image = x.image /\ y.mem = x.mem
    BY BaseSame
  <2> QED BY <1>1, <2>1, <2>2 DEF BaseImage
<1> QED BY <1>1, <1>2, <1>3 DEF BaseInv

\* The base kernel installs handlers,
LEMMA BaseHandler ==
  ASSUME NEW x, Machine(x), NEW v, NEW h, NEW pl, NEW y, y = Base!setInterruptHandler(x, v, h, pl)
  PROVE  Machine(y) /\ Differs(x, y, {"gates"}) /\ DOMAIN y.gates = DOMAIN x.gates \cup {v}
<1> DEFINE g == Base!Put(x.gates, v, [handler |-> h, dpl |-> pl])
<1>1. y = [x EXCEPT !.gates = g] /\ DOMAIN g = DOMAIN x.gates \cup {v}
  BY DEF Base!setInterruptHandler, Base!Put
<1> HIDE DEF g
<1> QED BY <1>1, SetGates

\* ... traps,
LEMMA BaseTrap ==
  ASSUME NEW x, Machine(x), NEW v, NEW h, NEW pl, NEW y, y = Base!setTrapHandler(x, v, h, pl)
  PROVE  Machine(y) /\ Differs(x, y, {"gates"}) /\ DOMAIN y.gates = DOMAIN x.gates \cup {v}
<1> DEFINE g == Base!Put(x.gates, v, [handler |-> h, dpl |-> pl])
<1>1. y = [x EXCEPT !.gates = g] /\ DOMAIN g = DOMAIN x.gates \cup {v}
  BY DEF Base!setTrapHandler, Base!Put
<1> HIDE DEF g
<1> QED BY <1>1, SetGates

\* ... the gates of clock and keyboard,
LEMMA BaseIdt ==
  ASSUME NEW x, Machine(x), NEW y, y = Base!setIdt(x)
  PROVE  /\ Differs(x, y, {"gates", "idtr"}) /\ y.idtr = TRUE /\ {32, 33} \subseteq DOMAIN y.gates
<1> DEFINE a == Base!set_handlers(x)
           b == Base!setInterruptHandler(a, 32, "clock_handler", 0)
           c == Base!setInterruptHandler(b, 33, "keyboard_handler", 0)
           d == Base!setInterruptHandler(c, 14, "my_page_fault_handler", 0)
           e == Base!setTrapHandler(d, 128, "system_call_handler", 3)
<1>0. \A g, v, i : Base!Over(g, v) = Over(g, v)
  BY DEF Base!Over, Over
<1>1. y = Base!Lidt(e)
  BY DEF Base!setIdt, Base!set_idt_reg
<1>2. Machine(a) /\ Differs(x, a, {"gates"})
  BY <1>0, OverGates DEF Base!set_handlers
<1> HIDE DEF a
<1>3. Machine(b) /\ Differs(a, b, {"gates"}) /\ DOMAIN b.gates = DOMAIN a.gates \cup {32}
  BY <1>2, BaseHandler
<1> HIDE DEF b
<1>4. Machine(c) /\ Differs(b, c, {"gates"}) /\ DOMAIN c.gates = DOMAIN b.gates \cup {33}
  BY <1>3, BaseHandler
<1> HIDE DEF c
<1>5. Machine(d) /\ Differs(c, d, {"gates"}) /\ DOMAIN d.gates = DOMAIN c.gates \cup {14}
  BY <1>4, BaseHandler
<1> HIDE DEF d
<1>6. Machine(e) /\ Differs(d, e, {"gates"}) /\ DOMAIN e.gates = DOMAIN d.gates \cup {128}
  BY <1>5, BaseTrap
<1> HIDE DEF e
<1>7. Differs(e, y, {"idtr"}) /\ y.idtr = TRUE
  BY <1>1, <1>6, Fields DEF Base!Lidt, Differs, Machine
<1>8. y.gates = e.gates
  BY <1>7, Fields DEF Differs
<1>9. Differs(x, y, {"gates", "idtr"})
  BY <1>2, <1>3, <1>4, <1>5, <1>6, <1>7 DEF Differs
<1> QED BY <1>3, <1>4, <1>5, <1>6, <1>7, <1>8, <1>9

\* ... and the MSRs of sysenter.
LEMMA BaseMsrs ==
  ASSUME NEW x, Machine(x), NEW y, y = Base!sysenter_msrs(x)
  PROVE  Differs(x, y, {"msr"})
<1> DEFINE a == Base!Wrmsr(x, 372, "__KERNEL_CS")
           b == Base!Wrmsr(a, 373, Base!INITIAL_ESP)
<1>0. \A g, v, i : Base!Put(g, v, i) = Put(g, v, i)
  BY DEF Base!Put, Put
<1>1. y = Base!Wrmsr(b, 374, "syscall_handler_sysenter")
  BY DEF Base!sysenter_msrs, Base!writeMSR
<1>2. Machine(a) /\ Differs(x, a, {"msr"})
  BY <1>0, PutMsr DEF Base!Wrmsr
<1> HIDE DEF a
<1>3. Machine(b) /\ Differs(a, b, {"msr"})
  BY <1>0, <1>2, PutMsr DEF Base!Wrmsr
<1> HIDE DEF b
<1>4. Differs(b, y, {"msr"})
  BY <1>0, <1>1, <1>3, PutMsr DEF Base!Wrmsr
<1> QED BY <1>2, <1>3, <1>4 DEF Differs

\* The calls of the base kernel that work on registers do what the stages say.
LEMMA BaseRegisters ==
  ASSUME NEW x
  PROVE  /\ BaseInv(x, 1) => BaseInv(Base!set_eflags(x), 2)
         /\ BaseInv(x, 2) => BaseInv(Base!set_seg_regs(x), 3)
         /\ BaseInv(x, 3) => BaseInv(Base!setGdt(x), 4)
         /\ BaseInv(x, 4) => BaseInv(Base!setIdt(x), 5)
         /\ BaseInv(x, 5) => BaseInv(Base!setTSS(x), 6)
         /\ BaseInv(x, 6) => BaseInv(Base!sysenter_msrs(x), 7)
         /\ BaseInv(x, 8) => BaseInv(Base!init_sched(x), 9)
         /\ BaseInv(x, 12) => BaseInv(Base!clear_screen(x), 13)
         /\ BaseInv(x, 13) => BaseInv(Base!enable_int(x), 14)
         /\ BaseInv(x, 14) => BaseInv(Base!return_gate(x), 15)
<1>0. ASSUME NEW s, BaseInv(x, s) PROVE Machine(x) /\ BaseRegs(x, s)
  BY <1>0 DEF BaseInv
<1>1. ASSUME BaseInv(x, 1), NEW y, y = Base!set_eflags(x) PROVE BaseInv(y, 2)
  <2>1. Differs(x, y, {"IF"}) /\ y.IF = FALSE
    BY <1>0, <1>1, Fields DEF Differs, Machine, Base!set_eflags, Base!Popfl0
  <2>2. BaseRegs(y, 1 + 1)
    <3>1. BaseRegs(x, 1)
      BY <1>0, <1>1
    <3>2. /\ y.pg = x.pg /\ y.cr3 = x.cr3 /\ y.pcb = x.pcb /\ y.task1 = x.task1 /\ y.fault = x.fault
          /\ y.irqs = x.irqs /\ y.idtr = x.idtr /\ y.tr = x.tr /\ y.gates = x.gates /\ y.esp = x.esp /\ y.mode = x.mode /\ y.msr = x.msr /\ y.esp0 = x.esp0
      BY <2>1, BaseOther DEF MemoryFields
    <3>3. BaseRegs(y, 2)
      BY <2>1, <3>1, <3>2 DEF BaseRegs
    <3> QED BY <3>3
  <2>3. BaseInv(y, 1 + 1)
    BY <1>1, <2>1, <2>2, BaseStep DEF MemoryFields
  <2> QED BY <2>3
<1>2. ASSUME BaseInv(x, 2), NEW y, y = Base!set_seg_regs(x) PROVE BaseInv(y, 3)
  <2>0. Base!INITIAL_ESP - 1 = BaseEsp
    BY Sizes DEF Base!INITIAL_ESP, Base!KERNEL_START, BaseEsp
  <2>1. Differs(x, y, {"esp"}) /\ y.esp = BaseEsp
    BY <1>0, <1>2, <2>0, Fields DEF Differs, Machine, Base!set_seg_regs, Base!MovEsp
  <2>2. BaseRegs(y, 2 + 1)
    <3>1. BaseRegs(x, 2)
      BY <1>0, <1>2
    <3>2. /\ y.pg = x.pg /\ y.cr3 = x.cr3 /\ y.pcb = x.pcb /\ y.task1 = x.task1 /\ y.fault = x.fault
          /\ y.IF = x.IF /\ y.irqs = x.irqs /\ y.idtr = x.idtr /\ y.tr = x.tr /\ y.gates = x.gates /\ y.mode = x.mode /\ y.msr = x.msr /\ y.esp0 = x.esp0
      BY <2>1, BaseOther DEF MemoryFields
    <3>3. BaseRegs(y, 3)
      BY <2>1, <3>1, <3>2 DEF BaseRegs
    <3> QED BY <3>3
  <2>3. BaseInv(y, 2 + 1)
    BY <1>2, <2>1, <2>2, BaseStep DEF MemoryFields
  <2> QED BY <2>3
<1>3. ASSUME BaseInv(x, 3), NEW y, y = Base!setGdt(x) PROVE BaseInv(y, 4)
  <2>0. Base!Access(x, {GDT_PAGE}) = x
    <3>1. Machine(x) /\ BaseRegs(x, 3)
      BY <1>0, <1>3
    <3>2. x.fault = FALSE /\ x.pg = FALSE
      BY <3>1 DEF BaseRegs
    <3> QED BY <3>1, <3>2, AccessBase
  <2>1. Differs(x, y, {"gdtr"})
    BY <1>0, <1>3, <2>0, Fields DEF Differs, Machine, Base!setGdt, Base!set_gdt_reg, Base!Lgdt
  <2>2. BaseRegs(y, 3 + 1)
    <3>1. BaseRegs(x, 3)
      BY <1>0, <1>3
    <3>2. /\ y.pg = x.pg /\ y.cr3 = x.cr3 /\ y.pcb = x.pcb /\ y.task1 = x.task1 /\ y.fault = x.fault
          /\ y.IF = x.IF /\ y.irqs = x.irqs /\ y.idtr = x.idtr /\ y.tr = x.tr /\ y.gates = x.gates /\ y.esp = x.esp /\ y.mode = x.mode /\ y.msr = x.msr /\ y.esp0 = x.esp0
      BY <2>1, BaseOther DEF MemoryFields
    <3>3. BaseRegs(y, 4)
      BY <2>1, <3>1, <3>2 DEF BaseRegs
    <3> QED BY <3>3
  <2>3. BaseInv(y, 3 + 1)
    BY <1>3, <2>1, <2>2, BaseStep DEF MemoryFields
  <2> QED BY <2>3
<1>4. ASSUME BaseInv(x, 4), NEW y, y = Base!setIdt(x) PROVE BaseInv(y, 5)
  <2>1. Differs(x, y, {"gates", "idtr"}) /\ y.idtr = TRUE /\ {32, 33} \subseteq DOMAIN y.gates
    BY <1>0, <1>4, BaseIdt
  <2>2. BaseRegs(y, 4 + 1)
    <3>1. BaseRegs(x, 4)
      BY <1>0, <1>4
    <3>2. /\ y.pg = x.pg /\ y.cr3 = x.cr3 /\ y.pcb = x.pcb /\ y.task1 = x.task1 /\ y.fault = x.fault
          /\ y.IF = x.IF /\ y.irqs = x.irqs /\ y.tr = x.tr /\ y.esp = x.esp /\ y.mode = x.mode /\ y.msr = x.msr /\ y.esp0 = x.esp0
      BY <2>1, BaseOther DEF MemoryFields
    <3>3. BaseRegs(y, 5)
      BY <2>1, <3>1, <3>2 DEF BaseRegs
    <3> QED BY <3>3
  <2>3. BaseInv(y, 4 + 1)
    BY <1>4, <2>1, <2>2, BaseStep DEF MemoryFields
  <2> QED BY <2>3
<1>5. ASSUME BaseInv(x, 5), NEW y, y = Base!setTSS(x) PROVE BaseInv(y, 6)
  <2> DEFINE e == Base!INITIAL_ESP
  <2>0. y = [[x EXCEPT !.esp0 = e] EXCEPT !.tr = TRUE]
    BY <1>5 DEF Base!setTSS, Base!set_task_reg, Base!Ltr
  <2> HIDE DEF e
  <2>1. Differs(x, y, {"esp0", "tr"}) /\ y.tr = TRUE
    BY <1>0, <1>5, <2>0, Fields DEF Differs, Machine
  <2>2. BaseRegs(y, 5 + 1)
    <3>1. BaseRegs(x, 5)
      BY <1>0, <1>5
    <3>2. /\ y.pg = x.pg /\ y.cr3 = x.cr3 /\ y.pcb = x.pcb /\ y.task1 = x.task1 /\ y.fault = x.fault
          /\ y.IF = x.IF /\ y.irqs = x.irqs /\ y.idtr = x.idtr /\ y.gates = x.gates /\ y.esp = x.esp /\ y.mode = x.mode /\ y.msr = x.msr
      BY <2>1, BaseOther DEF MemoryFields
    <3>3. BaseRegs(y, 6)
      BY <2>1, <3>1, <3>2 DEF BaseRegs
    <3> QED BY <3>3
  <2>3. BaseInv(y, 5 + 1)
    BY <1>5, <2>1, <2>2, BaseStep DEF MemoryFields
  <2> QED BY <2>3
<1>6. ASSUME BaseInv(x, 6), NEW y, y = Base!sysenter_msrs(x) PROVE BaseInv(y, 7)
  <2>1. Differs(x, y, {"msr"})
    BY <1>0, <1>6, BaseMsrs
  <2>2. BaseRegs(y, 6 + 1)
    <3>1. BaseRegs(x, 6)
      BY <1>0, <1>6
    <3>2. /\ y.pg = x.pg /\ y.cr3 = x.cr3 /\ y.pcb = x.pcb /\ y.task1 = x.task1 /\ y.fault = x.fault
          /\ y.IF = x.IF /\ y.irqs = x.irqs /\ y.idtr = x.idtr /\ y.tr = x.tr /\ y.gates = x.gates /\ y.esp = x.esp /\ y.mode = x.mode /\ y.esp0 = x.esp0
      BY <2>1, BaseOther DEF MemoryFields
    <3>3. BaseRegs(y, 7)
      BY <2>1, <3>1, <3>2 DEF BaseRegs
    <3> QED BY <3>3
  <2>3. BaseInv(y, 6 + 1)
    BY <1>6, <2>1, <2>2, BaseStep DEF MemoryFields
  <2> QED BY <2>3
<1>7. ASSUME BaseInv(x, 8), NEW y, y = Base!init_sched(x) PROVE BaseInv(y, 9)
  <2>1. Differs(x, y, {"readyqueue"})
    BY <1>0, <1>7, Fields DEF Differs, Machine, Base!init_sched
  <2>2. BaseRegs(y, 8 + 1)
    <3>1. BaseRegs(x, 8)
      BY <1>0, <1>7
    <3>2. /\ y.pg = x.pg /\ y.cr3 = x.cr3 /\ y.pcb = x.pcb /\ y.task1 = x.task1 /\ y.fault = x.fault
          /\ y.IF = x.IF /\ y.irqs = x.irqs /\ y.idtr = x.idtr /\ y.tr = x.tr /\ y.gates = x.gates /\ y.esp = x.esp /\ y.mode = x.mode /\ y.msr = x.msr /\ y.esp0 = x.esp0
      BY <2>1, BaseOther DEF MemoryFields
    <3>3. BaseRegs(y, 9)
      BY <2>1, <3>1, <3>2 DEF BaseRegs
    <3> QED BY <3>3
  <2>3. BaseInv(y, 8 + 1)
    BY <1>7, <2>1, <2>2, BaseStep DEF MemoryFields
  <2> QED BY <2>3
<1>8. ASSUME BaseInv(x, 12), NEW y, y = Base!clear_screen(x) PROVE BaseInv(y, 13)
  <2> DEFINE z == [x EXCEPT !.ticks = 0]
  <2>0. Differs(x, z, {"ticks"}) /\ Machine(z) /\ z.fault = FALSE /\ z.pg = FALSE
    BY <1>0, <1>8, Fields DEF Differs, Machine, BaseRegs
  <2>1. y = Base!Access(z, {SCREEN_PAGE})
    BY <1>8 DEF Base!clear_screen
  <2> HIDE DEF z
  <2>2. Differs(x, y, {"ticks"})
    BY <2>0, <2>1, AccessBase
  <2>3. BaseRegs(y, 12 + 1)
    <3>1. BaseRegs(x, 12)
      BY <1>0, <1>8
    <3>2. /\ y.pg = x.pg /\ y.cr3 = x.cr3 /\ y.pcb = x.pcb /\ y.task1 = x.task1 /\ y.fault = x.fault
          /\ y.IF = x.IF /\ y.irqs = x.irqs /\ y.idtr = x.idtr /\ y.tr = x.tr /\ y.gates = x.gates /\ y.esp = x.esp /\ y.mode = x.mode /\ y.msr = x.msr /\ y.esp0 = x.esp0
      BY <2>2, BaseOther DEF MemoryFields
    <3>3. BaseRegs(y, 13)
      BY <2>2, <3>1, <3>2 DEF BaseRegs
    <3> QED BY <3>3
  <2>4. BaseInv(y, 12 + 1)
    BY <1>8, <2>2, <2>3, BaseStep DEF MemoryFields
  <2> QED BY <2>4
<1>9. ASSUME BaseInv(x, 13), NEW y, y = Base!enable_int(x) PROVE BaseInv(y, 14)
  <2>1. Differs(x, y, {"irqs", "IF"}) /\ y.irqs = {0, 1}
    BY <1>0, <1>9, Fields DEF Differs, Machine, Base!enable_int, Base!Sti, Base!UnmaskIrqs
  <2>2. BaseRegs(y, 13 + 1)
    <3>1. BaseRegs(x, 13)
      BY <1>0, <1>9
    <3>2. /\ y.pg = x.pg /\ y.cr3 = x.cr3 /\ y.pcb = x.pcb /\ y.task1 = x.task1 /\ y.fault = x.fault
          /\ y.idtr = x.idtr /\ y.tr = x.tr /\ y.gates = x.gates /\ y.esp = x.esp /\ y.mode = x.mode /\ y.msr = x.msr /\ y.esp0 = x.esp0
      BY <2>1, BaseOther DEF MemoryFields
    <3>3. BaseRegs(y, 14)
      BY <2>1, <3>1, <3>2 DEF BaseRegs
    <3> QED BY <3>3
  <2>3. BaseInv(y, 13 + 1)
    BY <1>9, <2>1, <2>2, BaseStep DEF MemoryFields
  <2> QED BY <2>3
<1>10. ASSUME BaseInv(x, 14), NEW y, y = Base!return_gate(x) PROVE BaseInv(y, 15)
  <2> DEFINE e == Base!USER_ESP - 1
             ps == {Base!StackPage(Base!USER_ESP), Base!TextPage, Base!StackPage(x.esp)}
  <2>0. y = [Base!Access(x, ps) EXCEPT !.mode = "user", !.esp = e]
    BY <1>10 DEF Base!return_gate, Base!Lret
  <2> HIDE DEF e, ps
  <2>4. Base!Access(x, ps) = x
    <3>1. Machine(x) /\ BaseRegs(x, 14)
      BY <1>0, <1>10
    <3>2. x.fault = FALSE /\ x.pg = FALSE
      BY <3>1 DEF BaseRegs
    <3> QED BY <3>1, <3>2, AccessBase
  <2>1. Differs(x, y, {"mode", "esp"}) /\ y.mode = "user"
    BY <1>0, <1>10, <2>0, <2>4, Fields DEF Differs, Machine
  <2>2. BaseRegs(y, 14 + 1)
    <3>1. BaseRegs(x, 14)
      BY <1>0, <1>10
    <3>2. /\ y.pg = x.pg /\ y.cr3 = x.cr3 /\ y.pcb = x.pcb /\ y.task1 = x.task1 /\ y.fault = x.fault
          /\ y.IF = x.IF /\ y.irqs = x.irqs /\ y.idtr = x.idtr /\ y.tr = x.tr /\ y.gates = x.gates /\ y.msr = x.msr /\ y.esp0 = x.esp0
      BY <2>1, BaseOther DEF MemoryFields
    <3>3. BaseRegs(y, 15)
      BY <2>1, <3>1, <3>2 DEF BaseRegs
    <3> QED BY <3>3
  <2>3. BaseInv(y, 14 + 1)
    BY <1>10, <2>1, <2>2, BaseStep DEF MemoryFields
  <2> QED BY <2>3
<1> QED BY <1>1, <1>2, <1>3, <1>4, <1>5, <1>6, <1>7, <1>8, <1>9, <1>10

\* alloc_frame of the base kernel, called n times: n frames apart from those in use.
LEMMA BaseAlloc ==
  ASSUME NEW x, x.last_kernel \in 17 .. K + 1, NEW N, IsFiniteSet(N), N \subseteq BaseFrames(x),
         x.phys_mem = BaseOwn(x) \cup N, NEW n \in Nat, n + Cardinality(N) <= 6 + U
  PROVE  /\ \A i \in 1 .. n : Base!alloc_frame(x, i) \in BaseFrames(x) \ N
         /\ \A i, j \in 1 .. n : Base!alloc_frame(x, i) = Base!alloc_frame(x, j) => i = j
<1> DEFINE free == BaseFrames(x) \ N
           L == K + 1 .. TOTAL_PAGES - 1
           A == x.last_kernel .. TOTAL_PAGES - 1
<1>0. /\ x.last_kernel \in Nat /\ x.last_kernel >= 17 /\ x.last_kernel <= K + 1 /\ K \in Nat /\ K > 17
      /\ TOTAL_PAGES \in Nat /\ K + 7 + U <= TOTAL_PAGES /\ U \in Nat
      /\ GDT_PAGE \in 1 .. K - 1 /\ SCREEN_PAGE \in 1 .. K - 1
  BY Sizes
<1>1. A \ x.phys_mem = free
  BY <1>0 DEF BaseFrames, BaseOwn
<1>2. \A i : Base!alloc_frame(x, i) = NthFree(free, i)
  <2>1. \A S, i : Base!NthFree(S, i) = NthFree(S, i)
    BY DEF Base!NthFree, NthFree, Base!Cardinality, Cardinality
  <2> QED BY <1>1, <2>1 DEF Base!alloc_frame
<1>3. IsFiniteSet(A) /\ IsFiniteSet(L) /\ Cardinality(L) = TOTAL_PAGES - 1 - K
  <2>1. IsFiniteSet(A)
    <3>1. x.last_kernel \in Int /\ TOTAL_PAGES - 1 \in Int
      BY <1>0
    <3> QED BY <3>1, FS_Interval
  <2>2. K + 1 \in Int /\ TOTAL_PAGES - 1 \in Int /\ ~(K + 1 > TOTAL_PAGES - 1)
    BY <1>0
  <2>3. IsFiniteSet(L) /\ Cardinality(L) = IF K + 1 > TOTAL_PAGES - 1 THEN 0 ELSE (TOTAL_PAGES - 1) - (K + 1) + 1
    BY <2>2, FS_Interval
  <2> QED BY <1>0, <2>1, <2>2, <2>3
<1>4. free \subseteq A /\ L \ N \subseteq free /\ free \subseteq Int
  BY <1>0 DEF BaseFrames
<1> HIDE DEF free, L, A
<1>5. IsFiniteSet(free)
  BY <1>3, <1>4, FS_Subset
<1>6. IsFiniteSet(L \ N) /\ Cardinality(L \ N) = Cardinality(L) - Cardinality(L \cap N)
  BY <1>3, FS_Difference
<1>7. IsFiniteSet(L \cap N) /\ Cardinality(L \cap N) <= Cardinality(N)
  <2>1. L \cap N \in SUBSET N
    OBVIOUS
  <2> QED BY <2>1, FS_Subset
<1>8. Cardinality(L \ N) <= Cardinality(free)
  <2>1. L \ N \in SUBSET free
    BY <1>4
  <2> QED BY <1>5, <2>1, FS_Subset
<1>9. /\ Cardinality(N) \in Nat /\ Cardinality(L) \in Nat /\ Cardinality(L \cap N) \in Nat /\ Cardinality(free) \in Nat
      /\ Cardinality(L \ N) \in Nat
  BY <1>3, <1>5, <1>6, <1>7, FS_CardinalityType
<1>10. n <= Cardinality(free)
  BY <1>0, <1>3, <1>6, <1>7, <1>8, <1>9
<1>11. /\ \A i \in 1 .. n : NthFree(free, i) \in free
       /\ \A i, j \in 1 .. n : NthFree(free, i) = NthFree(free, j) => i = j
  BY <1>4, <1>5, <1>10, FramesTaken
<1> QED BY <1>2, <1>11 DEF free

\* The kernel ends below the user pages.
LEMMA BaseLastRange ==
  ASSUME NEW x, x.sys_size \in SysSizes, x.usr_size \in UsrSizes
  PROVE  BaseLast(x) \in 17 .. K + 1
<1>1. PH_PAGE(KERNEL_START + x.sys_size + x.usr_size) \in 16 .. K
  BY CopyPages
<1> QED BY <1>1, Sizes DEF BaseLast

\* init_mm of the base kernel marks the frames of the kernel, the GDT and the screen.
LEMMA BaseMm == ASSUME NEW x, BaseInv(x, 7), NEW y, y = Base!init_mm(x) PROVE BaseInv(y, 8)
<1>1. Machine(x) /\ BaseRegs(x, 7) /\ BaseMem(x, 7) /\ BaseImage(x, 7)
  BY DEF BaseInv
<1> DEFINE f == Base!PH_PAGE(Base!KERNEL_START)
           l == BaseLast(x)
           z == [x EXCEPT !.first_kernel = f, !.last_kernel = l]
           o == (z.first_kernel .. z.last_kernel - 1) \cup {GDT_PAGE, SCREEN_PAGE}
<1>2. f = 2
  BY PageOfMultiple DEF Base!PH_PAGE, Base!KERNEL_START, PH_PAGE
<1>3. y = [z EXCEPT !.phys_mem = o]
  BY DEF Base!init_mm, Base!init_frames, BaseLast, Base!PH_PAGE, PH_PAGE, Base!KERNEL_START, KERNEL_START
<1> HIDE DEF f, l, o
<1>4. Differs(x, z, {"first_kernel", "last_kernel"}) /\ z.first_kernel = f /\ z.last_kernel = l
  BY <1>1, Fields DEF Differs, Machine
<1> HIDE DEF z
<1>5. Differs(z, y, {"phys_mem"}) /\ y.phys_mem = o
  BY <1>3, <1>4, Fields DEF Differs, Machine
<1>6. Differs(x, y, {"first_kernel", "last_kernel", "phys_mem"}) /\ y.first_kernel = f /\ y.last_kernel = l
  BY <1>4, <1>5, Fields DEF Differs
<1>7. /\ y.pg = x.pg /\ y.dirs = x.dirs /\ y.tabs = x.tabs /\ y.idle_task = x.idle_task /\ y.task1 = x.task1
      /\ y.sys_size = x.sys_size /\ y.usr_size = x.usr_size /\ y.image = x.image /\ y.mem = x.mem
  BY <1>6, Fields DEF Differs
<1>8. BaseRegs(y, 8)
  BY <1>1, <1>6, <1>7, RegistersOther DEF BaseRegs
<1>9. BaseLast(y) = l /\ ImagePages(y) = ImagePages(x)
  BY <1>7 DEF BaseLast, l, ImagePages
<1>10. BaseMem(y, 8)
  <2>1. o = BaseOwn(y)
    BY <1>2, <1>4, <1>6 DEF o, BaseOwn
  <2> QED BY <1>1, <1>2, <1>5, <1>6, <1>7, <1>9, <2>1 DEF BaseMem
<1>11. BaseImage(y, 8)
  BY <1>1, <1>7, <1>9 DEF BaseImage
<1> QED BY <1>6, <1>8, <1>10, <1>11 DEF BaseInv, Differs

\* Taking n frames.
LEMMA BaseTaking ==
  ASSUME NEW x, Machine(x), NEW n, NEW y, y = Base!Taking(x, n)
  PROVE  Differs(x, y, {"phys_mem"}) /\ y.phys_mem = x.phys_mem \cup {Base!alloc_frame(x, i) : i \in 1 .. n}
<1> DEFINE b == x.phys_mem \cup {Base!alloc_frame(x, i) : i \in 1 .. n}
<1>1. y = [x EXCEPT !.phys_mem = b]
  BY DEF Base!Taking
<1> HIDE DEF b
<1>2. Differs(x, y, {"phys_mem"}) /\ y.phys_mem = b
  BY <1>1, Fields DEF Differs, Machine
<1> QED BY <1>2 DEF b

\* init_idle takes a frame for the PCB and one for the directory, wild write or not.
LEMMA BaseIdle == ASSUME NEW x, BaseInv(x, 9), NEW w, NEW y, y = Base!init_idle(x, w) PROVE BaseInv(y, 10)
<1>1. Machine(x) /\ BaseRegs(x, 9) /\ BaseMem(x, 9) /\ BaseImage(x, 9)
  BY DEF BaseInv
<1>2. x.last_kernel = BaseLast(x) /\ x.first_kernel = 2 /\ x.phys_mem = BaseOwn(x) /\ x.dirs = << >> /\ x.tabs = << >>
      /\ x.task1 = None /\ x.last_kernel \in 17 .. K + 1
  BY <1>1, BaseLastRange DEF BaseMem, BaseImage
<1> DEFINE d == Base!alloc_frame(x, 1)
           p == Base!alloc_frame(x, 2)
<1>3. d \in BaseFrames(x) /\ p \in BaseFrames(x) /\ d # p
  <2>1. IsFiniteSet({}) /\ Cardinality({}) = 0 /\ x.phys_mem = BaseOwn(x) \cup {} /\ {} \subseteq BaseFrames(x)
    BY <1>2, FS_EmptySet
  <2>2. 2 \in Nat /\ 2 + Cardinality({}) <= 6 + U
    BY <2>1, Sizes
  <2>3. /\ \A i \in 1 .. 2 : Base!alloc_frame(x, i) \in BaseFrames(x) \ {}
        /\ \A i, j \in 1 .. 2 : Base!alloc_frame(x, i) = Base!alloc_frame(x, j) => i = j
    BY <1>2, <2>1, <2>2, BaseAlloc
  <2>4. 1 \in 1 .. 2 /\ 2 \in 1 .. 2 /\ 1 # 2
    OBVIOUS
  <2> QED BY <2>3, <2>4
<1> DEFINE z == Base!Taking(x, 2)
           g == << [table |-> None, user |-> FALSE, rw |-> FALSE] >>
           r == [PID |-> 0, dir |-> d, state |-> "ST_READY", quantum |-> 0, kernel_esp |-> Base!KERNEL_ESP(p) - 2]
           D == Put(x.dirs, d, g)
           P == Put(x.pcb, p, r)
           v == IF w \in (x.first_kernel .. x.last_kernel - 1) \cup {GDT_PAGE} THEN w ELSE None
<1>4. Differs(x, z, {"phys_mem"}) /\ z.phys_mem = x.phys_mem \cup {d, p}
  <2>1. Differs(x, z, {"phys_mem"}) /\ z.phys_mem = x.phys_mem \cup {Base!alloc_frame(x, i) : i \in 1 .. 2}
    BY <1>1, BaseTaking
  <2>2. {Base!alloc_frame(x, i) : i \in 1 .. 2} = {d, p}
    <3>1. 1 .. 2 = {1, 2}
      OBVIOUS
    <3> QED BY <3>1
  <2> QED BY <2>1, <2>2
<1>5. z.dirs = x.dirs /\ z.pcb = x.pcb
  BY <1>4, Fields DEF Differs
<1>6. y = [z EXCEPT !.dirs = D, !.wild = v, !.idle_task = p, !.pcb = P]
  <2>1. y = [z EXCEPT !.dirs = Base!Put(z.dirs, d, g), !.wild = v, !.idle_task = p, !.pcb = Base!Put(z.pcb, p, r)]
    BY DEF Base!init_idle
  <2>2. Base!Put(z.dirs, d, g) = D /\ Base!Put(z.pcb, p, r) = P
    <3> HIDE DEF z, d, g, p, r
    <3> QED BY <1>5 DEF Put, Base!Put
  <2> HIDE DEF z, D, P, v
  <2> QED BY <2>1, <2>2
<1>7. r.dir = d
  OBVIOUS
<1> HIDE DEF d, p, z, g, r, D, P, v
<1>8. Differs(z, y, {"dirs", "wild", "idle_task", "pcb"}) /\ y.dirs = D /\ y.idle_task = p /\ y.pcb = P
  BY <1>4, <1>6, Fields DEF Differs, Machine
<1>9. Differs(x, y, {"dirs", "wild", "idle_task", "pcb", "phys_mem"}) /\ y.phys_mem = x.phys_mem \cup {d, p}
  BY <1>4, <1>8, Fields DEF Differs
<1>10. /\ y.pg = x.pg /\ y.tabs = x.tabs /\ y.task1 = x.task1 /\ y.first_kernel = x.first_kernel
       /\ y.last_kernel = x.last_kernel /\ y.sys_size = x.sys_size /\ y.usr_size = x.usr_size
       /\ y.image = x.image /\ y.mem = x.mem
  BY <1>9, Fields DEF Differs
<1>11. BaseRegs(y, 10)
  BY <1>1, <1>9, <1>10, RegistersOther DEF BaseRegs
<1>12. /\ BaseLast(y) = BaseLast(x) /\ ImagePages(y) = ImagePages(x) /\ BaseOwn(y) = BaseOwn(x)
       /\ BaseFrames(y) = BaseFrames(x)
  BY <1>10 DEF BaseLast, ImagePages, BaseOwn, BaseFrames
<1>13. y.pcb[p].dir = d /\ DOMAIN y.dirs = {d} /\ p \in DOMAIN y.pcb
  <2>1. DOMAIN x.dirs = {}
    BY <1>2
  <2>2. P[p] = r /\ p \in DOMAIN P
    BY DEF P, Put
  <2>3. DOMAIN D = {} \cup {d}
    BY <2>1 DEF D, Put
  <2> QED BY <1>7, <1>8, <2>2, <2>3
<1>14. IdleSpace(y)
  <2>1. IdleNames(y) = {p, d}
    BY <1>8, <1>13 DEF IdleNames
  <2> QED BY <1>2, <1>3, <1>8, <1>9, <1>12, <1>13, <2>1 DEF IdleSpace
<1>15. BaseMem(y, 10)
  BY <1>2, <1>10, <1>12, <1>14 DEF BaseMem
<1>16. BaseImage(y, 10)
  BY <1>1, <1>10, <1>12 DEF BaseImage
<1> QED BY <1>9, <1>11, <1>15, <1>16 DEF BaseInv, Differs

\* A table that lets the user reach no page, as the system's tables do.
SystemOnly(e) == DOMAIN e = 0 .. TOTAL_PAGES - 1 /\ \A p \in 0 .. TOTAL_PAGES - 1 : e[p].user = FALSE

\* The table of the system holds no user page,
LEMMA SystemKernel ==
  ASSUME NEW x, x.first_kernel = 2, x.last_kernel \in 17 .. K + 1
  PROVE  SystemOnly(Base!set_kernel_pages(x, Base!clear_page_table))
<1> DEFINE k == Base!set_kernel_pages(x, Base!clear_page_table)
           All == 0 .. TOTAL_PAGES - 1
           ps == (x.first_kernel .. x.last_kernel - 1) \cup {GDT_PAGE, SCREEN_PAGE}
<1>1. ps \subseteq All
  BY Sizes
<1>2. Base!clear_page_table = [p \in All |-> ZeroEntry] /\ ZeroEntry.user = FALSE
  BY DEF Base!clear_page_table, Base!ZeroTable, Base!ZeroEntry, ZeroEntry
<1>3. \A p : Base!PTE(p, FALSE, TRUE).user = FALSE
  BY DEF Base!PTE
<1>4. k = Base!Over([p \in ps |-> Base!PTE(p, FALSE, TRUE)], Base!clear_page_table)
  BY DEF Base!set_kernel_pages
<1> HIDE DEF ps, All, k
<1>5. DOMAIN k = All /\ \A p \in All : k[p].user = FALSE
  BY <1>1, <1>2, <1>3, <1>4 DEF Base!Over
<1> QED BY <1>5 DEF SystemOnly, All, k

\* ... and setting an entry of the system keeps it so.
LEMMA SystemEntry ==
  ASSUME NEW e, SystemOnly(e), NEW i \in 0 .. TOTAL_PAGES - 1
  PROVE  SystemOnly(Base!set_ss_pag(e, i, i, FALSE))
<1>1. Base!PTE(i, FALSE, TRUE).user = FALSE
  BY DEF Base!PTE
<1> QED BY <1>1 DEF Base!set_ss_pag, SystemOnly

\* The table of the user pages: frames taken after the first four.
LEMMA UserEntries ==
  ASSUME NEW x, NEW t, t = Base!set_user_pages(x, 4, Base!clear_page_table)
  PROVE  \E r \in [0 .. U - 1 -> 5 .. 4 + U] :
           /\ \A p, q \in 0 .. U - 1 : r[p] = r[q] => p = q
           /\ \A i \in 5 .. 4 + U : \E p \in 0 .. U - 1 : r[p] = i
           /\ \A p \in 0 .. TOTAL_PAGES - 1 :
                t[p] = IF p < U THEN PTE(Base!alloc_frame(x, r[p]), TRUE, p < NUM_PAG_DATA) ELSE ZeroEntry
<1> DEFINE C == NUM_PAG_CODE
           D == NUM_PAG_DATA
           R(p) == 4 + IF p < D THEN C + p + 1 ELSE p - D + 1
           r == [p \in 0 .. U - 1 |-> R(p)]
<1>0. /\ C \in Nat /\ D \in Nat /\ C > 0 /\ D > 0 /\ U = C + D /\ U \in Nat /\ TOTAL_PAGES \in Nat /\ U < TOTAL_PAGES
      /\ NUM_PAG_DATA + NUM_PAG_CODE - 1 = U - 1
  BY Sizes
<1> HIDE DEF C, D
<1>1. \A p \in 0 .. U - 1 : R(p) \in 5 .. 4 + U
  BY <1>0
<1>2. \A p, q \in 0 .. U - 1 : R(p) = R(q) => p = q
  BY <1>0
<1>3. ASSUME NEW i \in 5 .. 4 + U PROVE \E p \in 0 .. U - 1 : R(p) = i
  <2>1. CASE i <= 4 + C
    <3>1. D + (i - 5) \in 0 .. U - 1 /\ R(D + (i - 5)) = i
      BY <1>0, <2>1
    <3> QED BY <3>1
  <2>2. CASE i > 4 + C
    <3>1. i - 5 - C \in 0 .. U - 1 /\ R(i - 5 - C) = i
      BY <1>0, <2>2
    <3> QED BY <3>1
  <2> QED BY <1>0, <2>1, <2>2
<1>4. r \in [0 .. U - 1 -> 5 .. 4 + U]
  BY <1>1
<1>5. ASSUME NEW p \in 0 .. TOTAL_PAGES - 1
      PROVE  t[p] = IF p < U THEN PTE(Base!alloc_frame(x, r[p]), TRUE, p < NUM_PAG_DATA) ELSE ZeroEntry
  <2> DEFINE g == [q \in 0 .. NUM_PAG_DATA + NUM_PAG_CODE - 1 |->
                  Base!alloc_frame(x, 4 + IF q < NUM_PAG_DATA THEN NUM_PAG_CODE + q + 1
                                     ELSE q - NUM_PAG_DATA + 1)]
             h == [q \in DOMAIN g |-> Base!PTE(g[q], TRUE, q < NUM_PAG_DATA)]
  <2>1. t = Base!Over(h, Base!clear_page_table)
    BY DEF Base!set_user_pages
  <2>2. DOMAIN h = 0 .. U - 1 /\ DOMAIN g = 0 .. U - 1
    BY <1>0
  <2>3. ASSUME NEW q \in 0 .. U - 1 PROVE h[q] = PTE(Base!alloc_frame(x, r[q]), TRUE, q < NUM_PAG_DATA)
    <3>1. g[q] = Base!alloc_frame(x, r[q])
      BY <2>2 DEF C, D
    <3>2. h[q] = Base!PTE(g[q], TRUE, q < NUM_PAG_DATA)
      BY <2>2
    <3> HIDE DEF g, h, r
    <3> QED BY <3>1, <3>2 DEF Base!PTE, PTE
  <2>4. Base!clear_page_table = [q \in 0 .. TOTAL_PAGES - 1 |-> ZeroEntry]
    BY DEF Base!clear_page_table, Base!ZeroTable, Base!ZeroEntry, ZeroEntry
  <2> HIDE DEF g, h, r
  <2>5. t[p] = IF p \in 0 .. U - 1 THEN h[p] ELSE ZeroEntry
    BY <2>1, <2>2, <2>4 DEF Base!Over
  <2>6. p \in 0 .. U - 1 <=> p < U
    BY <1>0
  <2> QED BY <2>3, <2>5, <2>6
<1>6. /\ \A p, q \in 0 .. U - 1 : r[p] = r[q] => p = q
      /\ \A i \in 5 .. 4 + U : \E p \in 0 .. U - 1 : r[p] = i
  BY <1>2, <1>3
<1> HIDE DEF r
<1> QED BY <1>4, <1>5, <1>6

\* init_task1: a PCB, a directory, two tables and the user pages, all in frames of their own.
LEMMA BaseTask1 == ASSUME NEW x, BaseInv(x, 10), NEW y, y = Base!init_task1(x) PROVE BaseInv(y, 11)
<1>1. Machine(x) /\ BaseRegs(x, 10) /\ BaseMem(x, 10) /\ BaseImage(x, 10)
  BY DEF BaseInv
<1>2. /\ x.last_kernel = BaseLast(x) /\ x.first_kernel = 2 /\ x.tabs = << >> /\ x.last_kernel \in 17 .. K + 1
      /\ IdleSpace(x)
  BY <1>1, BaseLastRange DEF BaseMem, BaseImage
<1> DEFINE N == IdleNames(x)
           A(i) == Base!alloc_frame(x, i)
<1>3. N \subseteq BaseFrames(x) /\ x.phys_mem = BaseOwn(x) \cup N /\ DOMAIN x.dirs = {x.pcb[x.idle_task].dir}
  BY <1>2 DEF IdleSpace
<1>4. /\ \A i \in 1 .. 4 + U : A(i) \in BaseFrames(x) \ N
      /\ \A i, j \in 1 .. 4 + U : A(i) = A(j) => i = j
  <2>1. IsFiniteSet(N) /\ Cardinality(N) \in Nat /\ Cardinality(N) <= 2
    <3> DEFINE a == x.idle_task
               b == x.pcb[x.idle_task].dir
    <3> DEFINE B == {a}
               C == {b}
    <3>1. N = B \cup C
      BY DEF IdleNames
    <3>2. IsFiniteSet(B) /\ Cardinality(B) = 1 /\ IsFiniteSet(C) /\ Cardinality(C) = 1
      <4> HIDE DEF a, b
      <4> QED BY FS_Singleton
    <3> HIDE DEF B, C, N
    <3>3. IsFiniteSet(B \cup C) /\ Cardinality(B \cup C) = Cardinality(B) + Cardinality(C) - Cardinality(B \cap C)
      BY <3>2, FS_Union
    <3>4. Cardinality(B \cap C) \in Nat
      <4>1. IsFiniteSet(B \cap C)
        BY <3>2, FS_Intersection
      <4> QED BY <4>1, FS_CardinalityType
    <3>5. Cardinality(N) \in Nat
      BY <3>1, <3>3, FS_CardinalityType
    <3>6. IsFiniteSet(N) /\ Cardinality(N) = Cardinality(B) + Cardinality(C) - Cardinality(B \cap C)
      BY <3>1, <3>3
    <3> QED BY <3>2, <3>4, <3>5, <3>6
  <2>2. 4 + U \in Nat /\ (4 + U) + Cardinality(N) <= 6 + U
    <3> HIDE DEF N
    <3> QED BY <2>1, Sizes
  <2> HIDE DEF N
  <2> QED BY <1>2, <1>3, <2>1, <2>2, BaseAlloc
<1> DEFINE d == A(1)
           st == A(2)
           ut == A(3)
           p == A(4)
           own == Base!set_ss_pag(Base!set_ss_pag(Base!set_ss_pag(Base!set_ss_pag(
                    Base!set_kernel_pages(x, Base!clear_page_table),
                    d, d, FALSE), st, st, FALSE), ut, ut, FALSE), p, p, FALSE)
           user == Base!set_user_pages(x, 4, Base!clear_page_table)
           e == << [table |-> st, user |-> FALSE, rw |-> TRUE], [table |-> ut, user |-> TRUE, rw |-> TRUE] >>
           r == [PID |-> 1, dir |-> d, state |-> "ST_RUN", quantum |-> 0, kernel_esp |-> 0]
           z == Base!Taking(x, 4 + NUM_PAG_CODE + NUM_PAG_DATA)
           S == Base!KERNEL_ESP(p)
           T == Put(Put(x.tabs, st, own), ut, user)
           E == Put(x.dirs, d, e)
           P == Put(x.pcb, p, r)
           v == [z EXCEPT !.tabs = T, !.dirs = E, !.pcb = P, !.esp0 = S, !.task1 = p]
           u == [v EXCEPT !.msr = Put(@, 373, S)]
<1>5. /\ {d, st, ut, p} \subseteq BaseFrames(x) \ N
      /\ d # st /\ d # ut /\ d # p /\ st # ut /\ st # p /\ ut # p
  <2>1. {1, 2, 3, 4} \subseteq 1 .. 4 + U
    BY Sizes
  <2> HIDE DEF A, N
  <2> QED BY <1>4, <2>1
<1>6. BaseFrames(x) \subseteq 0 .. TOTAL_PAGES - 1 /\ BaseFrames(x) \subseteq Int
  BY <1>2, Sizes DEF BaseFrames
<1>7. \A q \in 0 .. TOTAL_PAGES - 1 : own[q].user = FALSE
  <2> HIDE DEF A, own, N
  <2>1. d \in 0 .. TOTAL_PAGES - 1 /\ st \in 0 .. TOTAL_PAGES - 1 /\ ut \in 0 .. TOTAL_PAGES - 1 /\ p \in 0 .. TOTAL_PAGES - 1
    BY <1>5, <1>6
  <2> DEFINE k0 == Base!set_kernel_pages(x, Base!clear_page_table)
             k1 == Base!set_ss_pag(k0, d, d, FALSE)
             k2 == Base!set_ss_pag(k1, st, st, FALSE)
             k3 == Base!set_ss_pag(k2, ut, ut, FALSE)
  <2>2. own = Base!set_ss_pag(k3, p, p, FALSE)
    BY DEF own
  <2> HIDE DEF d, st, ut, p
  <2>3. SystemOnly(k0)
    BY <1>2, SystemKernel
  <2> HIDE DEF k0
  <2>4. SystemOnly(k1)
    BY <2>1, <2>3, SystemEntry
  <2> HIDE DEF k1
  <2>5. SystemOnly(k2)
    BY <2>1, <2>4, SystemEntry
  <2> HIDE DEF k2
  <2>6. SystemOnly(k3)
    BY <2>1, <2>5, SystemEntry
  <2> HIDE DEF k3
  <2> QED BY <2>1, <2>2, <2>6, SystemEntry DEF SystemOnly
<1>8. PICK f \in [0 .. U - 1 -> 5 .. 4 + U] :
        /\ \A i, j \in 0 .. U - 1 : f[i] = f[j] => i = j
        /\ \A i \in 5 .. 4 + U : \E j \in 0 .. U - 1 : f[j] = i
        /\ \A i \in 0 .. TOTAL_PAGES - 1 :
             user[i] = IF i < U THEN PTE(A(f[i]), TRUE, i < NUM_PAG_DATA) ELSE ZeroEntry
  <2> HIDE DEF user
  <2> QED BY UserEntries DEF user
<1>9. Differs(x, z, {"phys_mem"}) /\ z.phys_mem = x.phys_mem \cup {A(i) : i \in 1 .. 4 + U}
  <2>1. 4 + NUM_PAG_CODE + NUM_PAG_DATA = 4 + U
    BY Sizes
  <2>2. z = Base!Taking(x, 4 + U)
    BY <2>1
  <2> HIDE DEF z
  <2> QED BY <1>1, <2>2, BaseTaking
<1>10. z.dirs = x.dirs /\ z.pcb = x.pcb /\ z.tabs = x.tabs
  <2> HIDE DEF z
  <2> QED BY <1>9, Fields DEF Differs
<1>11. y = [u EXCEPT !.cr3 = d]
  <2> DEFINE vb == [z EXCEPT !.tabs = Base!Put(Base!Put(z.tabs, st, own), ut, user), !.dirs = Base!Put(z.dirs, d, e),
                             !.pcb = Base!Put(z.pcb, p, r), !.esp0 = S, !.task1 = p]
  <2>1. y = Base!set_cr3(Base!writeMSR(vb, 373, S), d)
    BY DEF Base!init_task1
  <2> HIDE DEF A, d, st, ut, p, own, user, e, r, z, S
  <2>2. vb = v
    BY <1>10 DEF Base!Put, Put
  <2> HIDE DEF vb, v
  <2>3. Base!writeMSR(vb, 373, S) = u
    BY <2>2 DEF Base!writeMSR, Base!Wrmsr, Base!Put, Put
  <2> HIDE DEF u
  <2> QED BY <2>1, <2>3 DEF Base!set_cr3, Base!MovCr3
<1>12. e[1].table = st /\ e[2].table = ut /\ r.dir = d /\ r.PID = 1
  <2> HIDE DEF A, d, st, ut
  <2> QED OBVIOUS
<1>13. S = (p + 1) * PAGE
  BY DEF Base!KERNEL_ESP
<1> HIDE DEF N, A, d, st, ut, p, own, user, e, r, z, S, T, E, P
<1>14. /\ Differs(z, v, {"tabs", "dirs", "pcb", "esp0", "task1"}) /\ v.tabs = T /\ v.dirs = E /\ v.pcb = P
       /\ v.esp0 = S /\ v.task1 = p
  BY <1>9, Fields DEF Differs, Machine
<1> HIDE DEF v
<1>15. Differs(v, u, {"msr"}) /\ u.msr[373] = S
  <2>1. Machine(v)
    BY <1>14 DEF Differs
  <2> DEFINE M == Put(v.msr, 373, S)
  <2>2. u = [v EXCEPT !.msr = M] /\ M[373] = S
    BY DEF Put
  <2> HIDE DEF u, M
  <2> QED BY <2>1, <2>2, Fields DEF Differs, Machine
<1> HIDE DEF u
<1>16. Differs(u, y, {"cr3"}) /\ y.cr3 = d
  BY <1>11, <1>15, Fields DEF Differs, Machine
<1>17. Differs(x, y, {"phys_mem", "tabs", "dirs", "pcb", "esp0", "task1", "msr", "cr3"})
  BY <1>9, <1>14, <1>15, <1>16 DEF Differs
<1>18. /\ y.tabs = T /\ y.dirs = E /\ y.pcb = P /\ y.esp0 = S /\ y.task1 = p /\ y.msr[373] = S
       /\ y.phys_mem = z.phys_mem
  BY <1>14, <1>15, <1>16, Fields DEF Differs
<1>19. /\ y.pg = x.pg /\ y.idle_task = x.idle_task /\ y.first_kernel = x.first_kernel
       /\ y.last_kernel = x.last_kernel /\ y.sys_size = x.sys_size /\ y.usr_size = x.usr_size
       /\ y.image = x.image /\ y.mem = x.mem
  BY <1>17, Fields DEF Differs
<1>20. P[p] = r /\ E[d] = e /\ DOMAIN E = DOMAIN x.dirs \cup {d}
  BY DEF P, E, Put
<1>21. T[st] = own /\ T[ut] = user /\ DOMAIN T = {st, ut}
  <2>1. DOMAIN x.tabs = {}
    BY <1>2
  <2> QED BY <1>5, <2>1 DEF T, Put
<1>22. TaskDir(y) = d /\ SystemTable(y) = st /\ UserTable(y) = ut
  <2>1. TaskDir(y) = d
    BY <1>12, <1>18, <1>20 DEF TaskDir
  <2> QED BY <1>12, <1>18, <1>20, <2>1 DEF SystemTable, UserTable
<1>23. y.pcb[y.idle_task].dir = x.pcb[x.idle_task].dir
  <2>1. x.idle_task # p
    BY <1>5 DEF N, IdleNames
  <2>2. x.idle_task \in DOMAIN x.pcb
    BY <1>2 DEF IdleSpace
  <2> QED BY <1>18, <1>19, <2>1, <2>2 DEF P, Put
<1>24. /\ BaseOwn(y) = BaseOwn(x) /\ BaseFrames(y) = BaseFrames(x) /\ BaseLast(y) = BaseLast(x)
       /\ ImagePages(y) = ImagePages(x)
  BY <1>19 DEF BaseOwn, BaseFrames, BaseLast, ImagePages
<1>25. IdleNames(y) = N /\ TaskNames(y) = {p, d, st, ut}
  BY <1>18, <1>19, <1>22, <1>23 DEF IdleNames, TaskNames, N
<1>26. ASSUME NEW i \in 0 .. U - 1 PROVE UserFrame(y, i) = A(f[i])
  <2>1. i \in 0 .. TOTAL_PAGES - 1 /\ i < U
    BY Sizes
  <2>2. user[i] = PTE(A(f[i]), TRUE, i < NUM_PAG_DATA)
    BY <1>8, <2>1
  <2>3. UserFrame(y, i) = user[i].frame
    BY <1>18, <1>21, <1>22 DEF UserFrame
  <2> QED BY <2>2, <2>3 DEF PTE
<1>27. Held(y) = {A(i) : i \in 5 .. 4 + U}
  <2>1. ASSUME NEW h \in Held(y) PROVE h \in {A(i) : i \in 5 .. 4 + U}
    <3>1. PICK i \in 0 .. U - 1 : h = UserFrame(y, i)
      BY DEF Held
    <3>2. h = A(f[i]) /\ f[i] \in 5 .. 4 + U
      BY <1>26, <3>1
    <3> QED BY <3>2
  <2>2. ASSUME NEW i \in 5 .. 4 + U PROVE A(i) \in Held(y)
    <3>1. PICK j \in 0 .. U - 1 : f[j] = i
      BY <1>8
    <3>2. A(i) = UserFrame(y, j)
      BY <1>26, <3>1
    <3> QED BY <3>2 DEF Held
  <2> QED BY <2>1, <2>2
<1>28. ASSUME NEW i \in 5 .. 4 + U PROVE A(i) \in BaseFrames(x) \ N /\ A(i) \notin {d, st, ut, p}
  <2>1. i \in 1 .. 4 + U /\ i \in Int /\ i # 1 /\ i # 2 /\ i # 3 /\ i # 4
    BY Sizes
  <2>2. 1 \in 1 .. 4 + U /\ 2 \in 1 .. 4 + U /\ 3 \in 1 .. 4 + U /\ 4 \in 1 .. 4 + U
    BY Sizes
  <2>3. A(i) # A(1) /\ A(i) # A(2) /\ A(i) # A(3) /\ A(i) # A(4)
    BY <1>4, <2>1, <2>2
  <2> QED BY <1>4, <2>1, <2>3 DEF d, st, ut, p
<1>29. \A i, j \in 0 .. U - 1 : UserFrame(y, i) = UserFrame(y, j) => i = j
  <2> SUFFICES ASSUME NEW i \in 0 .. U - 1, NEW j \in 0 .. U - 1, UserFrame(y, i) = UserFrame(y, j) PROVE i = j
    OBVIOUS
  <2>1. A(f[i]) = A(f[j])
    BY <1>26
  <2>2. f[i] \in 1 .. 4 + U /\ f[j] \in 1 .. 4 + U
    <3>1. f[i] \in 5 .. 4 + U /\ f[j] \in 5 .. 4 + U
      OBVIOUS
    <3> QED BY <3>1, Sizes
  <2>3. f[i] = f[j]
    BY <1>4, <2>1, <2>2
  <2> QED BY <1>8, <2>3
<1>30. y.phys_mem = BaseOwn(y) \cup N \cup {p, d, st, ut} \cup Held(y)
  <2>1. 1 .. 4 + U = {1, 2, 3, 4} \cup 5 .. 4 + U
    BY Sizes
  <2>2. {A(i) : i \in 1 .. 4 + U} = {p, d, st, ut} \cup {A(i) : i \in 5 .. 4 + U}
    BY <2>1 DEF d, st, ut, p
  <2> QED BY <1>3, <1>9, <1>18, <1>24, <1>27, <2>2
<1>31. TaskSpace(y)
  <2>1. DOMAIN y.dirs = {y.pcb[y.idle_task].dir, TaskDir(y)}
    BY <1>3, <1>18, <1>20, <1>22, <1>23
  <2>2. DOMAIN y.tabs = {SystemTable(y), UserTable(y)} /\ SystemTable(y) # UserTable(y)
    BY <1>5, <1>18, <1>21, <1>22
  <2>3. IdleNames(y) \cup TaskNames(y) \subseteq BaseFrames(y)
    BY <1>3, <1>5, <1>24, <1>25
  <2>4. Held(y) \subseteq BaseFrames(y) \ (IdleNames(y) \cup TaskNames(y))
    BY <1>24, <1>25, <1>27, <1>28
  <2>5. \A q \in 0 .. TOTAL_PAGES - 1 : y.tabs[SystemTable(y)][q].user = FALSE
    BY <1>7, <1>18, <1>21, <1>22
  <2>6. ASSUME NEW q \in 0 .. TOTAL_PAGES - 1
        PROVE  y.tabs[UserTable(y)][q] = IF q < U THEN PTE(UserFrame(y, q), TRUE, q < NUM_PAG_DATA) ELSE ZeroEntry
    <3>1. y.tabs[UserTable(y)][q] = user[q]
      BY <1>18, <1>21, <1>22
    <3>2. CASE q < U
      <4>1. q \in 0 .. U - 1
        BY <3>2, Sizes
      <4> QED BY <1>8, <1>26, <3>1, <3>2, <4>1
    <3>3. CASE ~(q < U)
      BY <1>8, <3>1, <3>3
    <3> QED BY <3>2, <3>3
  <2>7. y.phys_mem = BaseOwn(y) \cup IdleNames(y) \cup TaskNames(y) \cup Held(y)
    BY <1>25, <1>30
  <2> QED BY <1>29, <2>1, <2>2, <2>3, <2>4, <2>5, <2>6, <2>7 DEF TaskSpace
<1>32. BaseRegs(y, 11)
  <2>1. /\ y.fault = x.fault /\ y.mode = x.mode /\ y.esp = x.esp /\ y.irqs = x.irqs /\ y.IF = x.IF /\ y.idtr = x.idtr
        /\ y.gates = x.gates /\ y.tr = x.tr
    BY <1>17, RegistersOther
  <2>2. y.cr3 = y.pcb[y.task1].dir /\ y.pcb[y.task1].PID = 1 /\ y.esp0 = (y.task1 + 1) * PAGE /\ y.msr[373] = y.esp0
    BY <1>12, <1>13, <1>16, <1>18, <1>20
  <2> QED BY <1>1, <1>19, <2>1, <2>2 DEF BaseRegs
<1>33. BaseMem(y, 11)
  BY <1>2, <1>19, <1>24, <1>31 DEF BaseMem
<1>34. BaseImage(y, 11)
  BY <1>1, <1>19, <1>24 DEF BaseImage
<1> QED BY <1>17, <1>32, <1>33, <1>34 DEF BaseInv, Differs

\* copy_data puts the image where the user program was linked.
LEMMA BaseCopy == ASSUME NEW x, BaseInv(x, 11), NEW y, y = Base!copy_data(x) PROVE BaseInv(y, 12)
<1>1. Machine(x) /\ BaseRegs(x, 11) /\ BaseMem(x, 11) /\ BaseImage(x, 11)
  BY DEF BaseInv
<1>2. x.fault = FALSE /\ x.pg = FALSE /\ x.image = ImagePages(x) /\ x.sys_size \in SysSizes /\ x.usr_size \in UsrSizes
  BY <1>1 DEF BaseRegs, BaseImage
<1>3. Base!PAG_LOG_INIT_DATA = TOTAL_PAGES
  <2>1. TOTAL_PAGES \in Nat
    BY Sizes
  <2> QED BY <2>1, PageOfMultiple DEF Base!PAG_LOG_INIT_DATA, Base!L_USER_START, Base!PH_PAGE, PH_PAGE
<1>4. y = CopyImage(x, TOTAL_PAGES)
  BY <1>3, CopyBase DEF Base!copy_data
<1>5. \A p : Frame(x, p) = p
  BY <1>2 DEF Frame
<1>6. \A i \in ImagePages(x) : i \in Int
  BY <1>2, CopyPages, Sizes
<1> DEFINE ps == {PH_PAGE(KERNEL_START + x.sys_size + a) : a \in 0 .. x.usr_size - 1}
                   \cup {TOTAL_PAGES + i : i \in ImagePages(x)}
<1>7. Access(x, ps) = x
  <2> HIDE DEF ps
  <2> QED BY <1>1, <1>2, AccessBase
<1>8. \A i, j \in ImagePages(x) : Frame(x, TOTAL_PAGES + i) = Frame(x, TOTAL_PAGES + j) => i = j
  <2>1. \A i, j \in ImagePages(x) : TOTAL_PAGES + i = TOTAL_PAGES + j => i = j
    BY <1>6, Sizes
  <2> QED BY <1>5, <2>1
<1>9. Differs(x, y, {"mem"}) /\ \A i \in ImagePages(x) : y.mem[Frame(x, TOTAL_PAGES + i)] = i
  <2>1. TOTAL_PAGES \in Nat
    BY Sizes
  <2> QED BY <1>1, <1>2, <1>4, <1>7, <1>8, <2>1, CopyDone
<1>10. /\ y.dirs = x.dirs /\ y.tabs = x.tabs /\ y.phys_mem = x.phys_mem /\ y.first_kernel = x.first_kernel
       /\ y.last_kernel = x.last_kernel /\ y.idle_task = x.idle_task /\ y.task1 = x.task1 /\ y.pcb = x.pcb
       /\ y.pg = x.pg /\ y.cr3 = x.cr3 /\ y.sys_size = x.sys_size /\ y.usr_size = x.usr_size /\ y.image = x.image
  BY <1>9, Fields DEF Differs
<1>11. BaseLast(y) = BaseLast(x) /\ ImagePages(y) = ImagePages(x)
  BY <1>10 DEF BaseLast, ImagePages
<1>12. TaskSpace(y)
  <2>1. TaskSpace(x)
    BY <1>1 DEF BaseMem
  <2> QED BY <1>10, <2>1, SpacesKept
<1>13. BaseMem(y, 12)
  BY <1>1, <1>10, <1>11, <1>12 DEF BaseMem
<1>14. BaseRegs(y, 12)
  <2>1. /\ y.fault = x.fault /\ y.mode = x.mode /\ y.esp = x.esp /\ y.irqs = x.irqs /\ y.IF = x.IF /\ y.idtr = x.idtr
        /\ y.gates = x.gates /\ y.tr = x.tr /\ y.esp0 = x.esp0 /\ y.msr = x.msr
    BY <1>9, RegistersOther
  <2> QED BY <1>1, <1>10, <2>1 DEF BaseRegs
<1>15. BaseImage(y, 12)
  BY <1>2, <1>5, <1>9, <1>10, <1>11 DEF BaseImage
<1> QED BY <1>9, <1>13, <1>14, <1>15 DEF BaseInv, Differs

\* Every call of the base kernel's main() takes its invariant to the next stage,
LEMMA BaseCall ==
  ASSUME NEW n \in DOMAIN Base!main, NEW x, NEW w, BaseInv(x, n)
  PROVE  n \in 1 .. 14 /\ BaseInv(Base!Call(Base!main[n], x, w), n + 1)
<1>0. n \in 1 .. 14
  BY DEF Base!main
<1>1. CASE n = 1
  <2>1. Base!main[n] = "set_eflags" /\ n + 1 = 2 /\ BaseInv(x, 1)
    BY <1>1 DEF Base!main
  <2>2. Base!Call("set_eflags", x, w) = Base!set_eflags(x)
    BY DEF Base!Call
  <2> QED BY <1>0, <2>1, <2>2, BaseRegisters
<1>2. CASE n = 2
  <2>1. Base!main[n] = "set_seg_regs" /\ n + 1 = 3 /\ BaseInv(x, 2)
    BY <1>2 DEF Base!main
  <2>2. Base!Call("set_seg_regs", x, w) = Base!set_seg_regs(x)
    BY DEF Base!Call
  <2> QED BY <1>0, <2>1, <2>2, BaseRegisters
<1>3. CASE n = 3
  <2>1. Base!main[n] = "setGdt" /\ n + 1 = 4 /\ BaseInv(x, 3)
    BY <1>3 DEF Base!main
  <2>2. Base!Call("setGdt", x, w) = Base!setGdt(x)
    BY DEF Base!Call
  <2> QED BY <1>0, <2>1, <2>2, BaseRegisters
<1>4. CASE n = 4
  <2>1. Base!main[n] = "setIdt" /\ n + 1 = 5 /\ BaseInv(x, 4)
    BY <1>4 DEF Base!main
  <2>2. Base!Call("setIdt", x, w) = Base!setIdt(x)
    BY DEF Base!Call
  <2> QED BY <1>0, <2>1, <2>2, BaseRegisters
<1>5. CASE n = 5
  <2>1. Base!main[n] = "setTSS" /\ n + 1 = 6 /\ BaseInv(x, 5)
    BY <1>5 DEF Base!main
  <2>2. Base!Call("setTSS", x, w) = Base!setTSS(x)
    BY DEF Base!Call
  <2> QED BY <1>0, <2>1, <2>2, BaseRegisters
<1>6. CASE n = 6
  <2>1. Base!main[n] = "sysenter_msrs" /\ n + 1 = 7 /\ BaseInv(x, 6)
    BY <1>6 DEF Base!main
  <2>2. Base!Call("sysenter_msrs", x, w) = Base!sysenter_msrs(x)
    BY DEF Base!Call
  <2> QED BY <1>0, <2>1, <2>2, BaseRegisters
<1>7. CASE n = 7
  <2>1. Base!main[n] = "init_mm" /\ n + 1 = 8 /\ BaseInv(x, 7)
    BY <1>7 DEF Base!main
  <2>2. Base!Call("init_mm", x, w) = Base!init_mm(x)
    BY DEF Base!Call
  <2> QED BY <1>0, <2>1, <2>2, BaseMm
<1>8. CASE n = 8
  <2>1. Base!main[n] = "init_sched" /\ n + 1 = 9 /\ BaseInv(x, 8)
    BY <1>8 DEF Base!main
  <2>2. Base!Call("init_sched", x, w) = Base!init_sched(x)
    BY DEF Base!Call
  <2> QED BY <1>0, <2>1, <2>2, BaseRegisters
<1>9. CASE n = 9
  <2>1. Base!main[n] = "init_idle" /\ n + 1 = 10 /\ BaseInv(x, 9)
    BY <1>9 DEF Base!main
  <2>2. Base!Call("init_idle", x, w) = Base!init_idle(x, w)
    BY DEF Base!Call
  <2> QED BY <1>0, <2>1, <2>2, BaseIdle
<1>10. CASE n = 10
  <2>1. Base!main[n] = "init_task1" /\ n + 1 = 11 /\ BaseInv(x, 10)
    BY <1>10 DEF Base!main
  <2>2. Base!Call("init_task1", x, w) = Base!init_task1(x)
    BY DEF Base!Call
  <2> QED BY <1>0, <2>1, <2>2, BaseTask1
<1>11. CASE n = 11
  <2>1. Base!main[n] = "copy_data" /\ n + 1 = 12 /\ BaseInv(x, 11)
    BY <1>11 DEF Base!main
  <2>2. Base!Call("copy_data", x, w) = Base!copy_data(x)
    BY DEF Base!Call
  <2> QED BY <1>0, <2>1, <2>2, BaseCopy
<1>12. CASE n = 12
  <2>1. Base!main[n] = "clear_screen" /\ n + 1 = 13 /\ BaseInv(x, 12)
    BY <1>12 DEF Base!main
  <2>2. Base!Call("clear_screen", x, w) = Base!clear_screen(x)
    BY DEF Base!Call
  <2> QED BY <1>0, <2>1, <2>2, BaseRegisters
<1>13. CASE n = 13
  <2>1. Base!main[n] = "enable_int" /\ n + 1 = 14 /\ BaseInv(x, 13)
    BY <1>13 DEF Base!main
  <2>2. Base!Call("enable_int", x, w) = Base!enable_int(x)
    BY DEF Base!Call
  <2> QED BY <1>0, <2>1, <2>2, BaseRegisters
<1>14. CASE n = 14
  <2>1. Base!main[n] = "return_gate" /\ n + 1 = 15 /\ BaseInv(x, 14)
    BY <1>14 DEF Base!main
  <2>2. Base!Call("return_gate", x, w) = Base!return_gate(x)
    BY DEF Base!Call
  <2> QED BY <1>0, <2>1, <2>2, BaseRegisters
<1> QED BY <1>0, <1>1, <1>2, <1>3, <1>4, <1>5, <1>6, <1>7, <1>8, <1>9, <1>10, <1>11, <1>12, <1>13, <1>14

\* ... a clock interrupt keeps it,
LEMMA BaseCounters ==
  ASSUME NEW s \in 1 .. 15, NEW x, BaseInv(x, s), NEW y, Differs(x, y, {"ticks", "quantum"})
  PROVE  BaseInv(y, s)
<1>1. Machine(y) /\ BaseRegs(x, s) /\ BaseMem(x, s) /\ BaseImage(x, s)
  BY DEF BaseInv, Differs
<1>2. /\ y.dirs = x.dirs /\ y.tabs = x.tabs /\ y.phys_mem = x.phys_mem /\ y.first_kernel = x.first_kernel
      /\ y.last_kernel = x.last_kernel /\ y.idle_task = x.idle_task /\ y.task1 = x.task1 /\ y.pcb = x.pcb
      /\ y.pg = x.pg /\ y.cr3 = x.cr3 /\ y.sys_size = x.sys_size /\ y.usr_size = x.usr_size /\ y.image = x.image
      /\ y.mem = x.mem
  BY Fields DEF Differs
<1>3. /\ y.fault = x.fault /\ y.mode = x.mode /\ y.esp = x.esp /\ y.irqs = x.irqs /\ y.IF = x.IF /\ y.idtr = x.idtr
      /\ y.gates = x.gates /\ y.tr = x.tr /\ y.esp0 = x.esp0 /\ y.msr = x.msr
  BY RegistersOther
<1>4. BaseRegs(y, s)
  BY <1>1, <1>2, <1>3 DEF BaseRegs
<1>5. BaseLast(y) = BaseLast(x) /\ ImagePages(y) = ImagePages(x)
  BY <1>2 DEF BaseLast, ImagePages
<1>6. /\ IdleSpace(x) => IdleSpace(y)
      /\ TaskSpace(x) => TaskSpace(y)
      /\ BaseOwn(x) = BaseOwn(y)
  BY <1>2, SpacesKept
<1>7. BaseMem(y, s)
  BY <1>1, <1>2, <1>5, <1>6 DEF BaseMem
<1>8. BaseImage(y, s)
  BY <1>1, <1>2, <1>5 DEF BaseImage
<1> QED BY <1>1, <1>4, <1>7, <1>8 DEF BaseInv

\* ... no interrupt faults,
LEMMA BaseDelivered ==
  ASSUME NEW s \in 1 .. 15, BaseInv(m, s), m.IF, NEW line \in {0, 1}
  PROVE  Deliver(line) = m
<1>1. Machine(m) /\ BaseRegs(m, s)
  BY DEF BaseInv
<1>2. /\ s \in {14, 15} /\ m.fault = FALSE /\ m.pg = FALSE /\ m.idtr = TRUE /\ m.tr = TRUE
      /\ (32 + line) \in DOMAIN m.gates
  BY <1>1 DEF BaseRegs
<1> DEFINE ps == {StackPage(IF m.mode = "user" THEN m.esp0 ELSE m.esp), TextPage}
           ok == m.idtr /\ (32 + line) \in DOMAIN m.gates /\ (m.mode = "user" => m.tr)
<1>3. Deliver(line) = [Access(m, ps) EXCEPT !.fault = @ \/ ~ok]
  BY DEF Deliver
<1>4. ok = TRUE
  BY <1>2
<1> HIDE DEF ps, ok
<1>5. Access(m, ps) = m
  BY <1>1, <1>2, AccessBase
<1>6. Deliver(line) = [m EXCEPT !.fault = FALSE]
  BY <1>2, <1>3, <1>4, <1>5
<1> QED BY <1>1, <1>2, <1>6 DEF Machine

\* ... and the machine the boot sector leaves satisfies it,
LEMMA BaseReset ==
  ASSUME NEW sys \in SysSizes, NEW usr \in UsrSizes, NEW img, img = 0 .. (usr + PAGE - 1) \div PAGE - 1
  PROVE  BaseInv(ResetMachine(sys, usr, img), 1)
<1> DEFINE x == ResetMachine(sys, usr, img)
<1>1. Machine(x)
  BY DEF Machine, Off, ResetMachine
<1>2. BaseRegs(x, 1)
  BY DEF BaseRegs, ResetMachine
<1>3. BaseMem(x, 1)
  BY DEF BaseMem, ResetMachine
<1>4. BaseImage(x, 1)
  <2>1. x.sys_size = sys /\ x.usr_size = usr /\ x.image = img
    BY DEF ResetMachine
  <2> HIDE DEF x
  <2> QED BY <2>1 DEF BaseImage, ImagePages
<1> QED BY <1>1, <1>2, <1>3, <1>4 DEF BaseInv

\* ... so every step keeps it.
LEMMA BaseBootStep == ASSUME BaseBoot, PcInv, BuildInv, [Next]_vars PROVE BaseBoot'
<1>0. SUFFICES ASSUME pc' > 0, kernel' = "base" PROVE pc' \in 1 .. 15 /\ BaseInv(m', pc')
  BY DEF BaseBoot
<1>1. CASE Building
  BY <1>0, <1>1 DEF PcInv, Building, BuildNext, BuildGame, BuildEx2, BuildE1, BuildBase, build, CopyBoot,
     CopySystem, CopyUser, WriteHeader
<1>2. CASE Load
  <2>1. pc' = 1 /\ files.sys \in SysSizes /\ files.usr \in UsrSizes
    BY <1>2 DEF Load, BuildInv, FilesOK
  <2>2. BaseInv(m', 1)
    BY <1>2, <2>1, LoadedMachine, BaseReset
  <2> QED BY <2>1, <2>2
<1>3. CASE Main
  <2>1. kernel = "base" /\ pc' = pc + 1 /\ pc \in DOMAIN Base!main
    BY <1>0, <1>3 DEF Main, MainGame, MainEx2, MainE1, MainBase, Running, bvars
  <2>2. PICK w : m' = Base!Call(Base!main[pc], Before, w)
    BY <1>3, <2>1 DEF Main, MainGame, MainEx2, MainE1, MainBase, Running
  <2>3. pc \in 1 .. 14
    BY <2>1 DEF Base!main
  <2>4. BaseInv(m, pc)
    BY <2>1, <2>3 DEF BaseBoot
  <2>5. Before = m
    <3>1. Machine(m) /\ m.fault = FALSE /\ m.pg = FALSE
      BY <2>4 DEF BaseInv, BaseRegs
    <3> QED BY <3>1, AccessBase DEF Before
  <2>6. BaseInv(m', pc + 1)
    BY <2>1, <2>2, <2>4, <2>5, BaseCall
  <2> QED BY <2>1, <2>3, <2>6
<1>4. CASE Tick \/ Key
  <2>1. UNCHANGED << kernel, pc >> /\ m.IF
    BY <1>4 DEF Tick, Key, Interruptible
  <2>2. pc \in 1 .. 15 /\ BaseInv(m, pc) /\ Machine(m) /\ kernel = "base"
    BY <1>0, <2>1 DEF BaseBoot, BaseInv
  <2>3. Deliver(0) = m /\ Deliver(1) = m
    BY <2>1, <2>2, BaseDelivered
  <2>4. CASE Tick
    <3>1. m' = Base!clock_routine(m)
      BY <2>2, <2>3, <2>4 DEF Tick, clock_routine
    <3>2. Differs(m, m', {"ticks", "quantum"})
      BY <2>2, <3>1, ClockCounts
    <3> QED BY <2>1, <2>2, <3>2, BaseCounters
  <2>5. CASE Key
    <3>1. m' = m
      BY <2>3, <2>5 DEF Key
    <3> QED BY <2>1, <2>2, <3>1
  <2> QED BY <1>4, <2>4, <2>5
<1>5. CASE UNCHANGED vars
  BY <1>0, <1>5 DEF vars, BaseBoot
<1> QED BY <1>1, <1>2, <1>3, <1>4, <1>5 DEF Next

-----------------------------------------------------------------------------
(* The inductive invariant of the boot, and what follows from it.          *)

BootInv == BuildInv /\ PcInv /\ PagedBoot /\ BaseBoot

\* The invariant holds throughout.
LEMMA BootAlways == Spec => []BootInv
<1>1. Init => PcInv /\ PagedBoot /\ BaseBoot
  BY DEF Init, PcInv, PagedBoot, BaseBoot, Off, ResetMachine
<1>2. BuildInv /\ PcInv /\ PagedBoot /\ BaseBoot /\ [Next]_vars => PcInv' /\ PagedBoot' /\ BaseBoot'
  BY PcStep, PagedStep, BaseBootStep
<1> QED BY <1>1, <1>2, BuildAlways, PTL DEF Spec, BootInv

\* Where the boot is, in one of the three kernels with paging or in the base one.
LEMMA PagedAt ==
  ASSUME BootInv, Booting, Paged
  PROVE  /\ Like(kernel) \in PagedKernels /\ StageOf(kernel, pc) \in 1 .. 15
         /\ PagedInv(Like(kernel), m, StageOf(kernel, pc)) /\ kernel \in {"GAME", "Ex2", "E1"}
BY LikePaged DEF BootInv, BuildInv, FilesOK, Kernels, PagedBoot, Booting, Paged

LEMMA BaseAt ==
  ASSUME BootInv, Booting, ~Paged
  PROVE  pc \in 1 .. 15 /\ BaseInv(m, pc) /\ kernel = "base"
BY DEF BootInv, BaseBoot, Booting, Paged

\* The boot is free of faults (NoFault): for all sizes of system and user program
\* that the assumptions admit, no call of main() of any of the four kernels touches
\* an unmapped page, and every interrupt in the window before return_gate or in user
\* mode finds its gate, the TSS and a stack.
THEOREM FaultFree == Spec => []NoFault
<1>1. BootInv => NoFault
  <2> SUFFICES ASSUME BootInv, Booting PROVE ~m.fault
    BY DEF NoFault
  <2>1. CASE Paged
    <3>1. PagedInv(Like(kernel), m, StageOf(kernel, pc))
      BY <2>1, PagedAt
    <3> QED BY <3>1 DEF PagedInv, Regs
  <2>2. CASE ~Paged
    <3>1. BaseInv(m, pc)
      BY <2>2, BaseAt
    <3> QED BY <3>1 DEF BaseInv, BaseRegs
  <2> QED BY <2>1, <2>2
<1> QED BY <1>1, BootAlways, PTL

\* The page of a PCB, in the two layouts.
LEMMA PcbPages ==
  ASSUME Paged, kernel \in {"GAME", "Ex2", "E1"}, NEW t \in Tasks
  PROVE  PcbPageOf(t) = PcbAt(Like(kernel), t)
<1>1. CASE kernel = "E1"
  BY <1>1, E1Layout DEF PcbPageOf, Like
<1>2. CASE kernel # "E1"
  BY <1>2, GameLayout DEF PcbPageOf, Like
<1> QED BY <1>1, <1>2

\* The stack main() runs on is in the PCB of neither the idle process nor task 1
\* (BootStackApart): init_idle's saved context and the system stack the TSS names
\* are never overwritten by the calls that follow.
THEOREM StackCorrect == Spec => []BootStackApart
<1>1. BootInv => BootStackApart
  <2> SUFFICES ASSUME BootInv, Booting, m.mode = "kernel", m.esp # 0, NEW t \in {m.idle_task, m.task1} \ {None}
               PROVE  PcbPageOf(t) # StackPage(m.esp)
    BY DEF BootStackApart
  <2>1. CASE Paged
    <3> DEFINE k == Like(kernel)
               s == StageOf(kernel, pc)
    <3>1. k \in PagedKernels /\ s \in 1 .. 15 /\ PagedInv(k, m, s) /\ kernel \in {"GAME", "Ex2", "E1"}
      BY <2>1, PagedAt
    <3>2. t \in {Idle(k), Task(k)} /\ t \in Tasks
      <4> HIDE DEF k, s
      <4> QED BY <3>1 DEF PagedInv, Procs, Idle, Task, Tasks
    <3>3. PcbPageOf(t) = PcbAt(k, t)
      BY <2>1, <3>1, <3>2, PcbPages
    <3> HIDE DEF k, s
    <3>4. m.esp = BootEsp(k)
      <4>1. s \in 3 .. 14
        BY <3>1 DEF PagedInv, Regs
      <4> QED BY <3>1, <4>1 DEF PagedInv, Regs
    <3>5. StackPage(m.esp) = BootPage(k)
      BY <3>1, <3>4, StackPages
    <3>6. PcbAt(k, t) # BootPage(k)
      BY <3>1, <3>2 DEF PcbAt, BootPage, Idle, Task, PagedKernels
    <3> QED BY <3>3, <3>5, <3>6
  <2>2. CASE ~Paged
    <3>1. pc \in 1 .. 15 /\ BaseInv(m, pc) /\ kernel = "base"
      BY <2>2, BaseAt
    <3>2. PcbPageOf(t) = t
      BY <3>1 DEF PcbPageOf
    <3>3. m.esp = BaseEsp
      BY <3>1 DEF BaseInv, BaseRegs
    <3>4. StackPage(m.esp) = 2
      <4>1. BaseEsp - 1 = (2 + 1) * PAGE - 2
        BY Sizes DEF BaseEsp
      <4>2. PH_PAGE((2 + 1) * PAGE - 2) = 2
        BY PageBelow
      <4> QED BY <3>3, <4>1, <4>2 DEF StackPage
    <3>5. pc >= 10 /\ m.last_kernel = BaseLast(m) /\ BaseLast(m) \in 17 .. K + 1 /\ BaseMem(m, pc)
      <4>1. BaseMem(m, pc) /\ BaseImage(m, pc)
        BY <3>1 DEF BaseInv
      <4>2. pc >= 10
        BY <3>1, <4>1 DEF BaseMem
      <4> QED BY <3>1, <4>1, <4>2, BaseLastRange DEF BaseMem, BaseImage
    <3>6. t \in BaseFrames(m)
      <4>1. CASE pc = 10
        BY <3>5, <4>1 DEF BaseMem, IdleSpace, IdleNames
      <4>2. CASE pc >= 11
        BY <3>5, <4>2 DEF BaseMem, TaskSpace, IdleNames, TaskNames
      <4> QED BY <3>1, <3>5, <4>1, <4>2
    <3>7. t >= 17
      BY <3>5, <3>6, Sizes DEF BaseFrames
    <3>8. t # 2
      <4>1. t \in Int
        BY <3>5, <3>6, Sizes DEF BaseFrames
      <4> QED BY <3>7, <4>1
    <3> QED BY <3>2, <3>4, <3>8
  <2> QED BY <2>1, <2>2
<1> QED BY <1>1, BootAlways, PTL

\* The user pages and the code pages, in the two layouts.
LEMMA UserLayout ==
  ASSUME kernel \in {"GAME", "Ex2", "E1"}
  PROVE  /\ FirstUserPage = K /\ UserPages = Pages
         /\ \A p \in Pages : Writable(Like(kernel), p) <=> p \notin CodePages
<1>1. FirstUserPage = K
  <2>1. K \in Nat
    BY Sizes
  <2> QED BY <2>1, PageOfMultiple DEF FirstUserPage, Game!L_USER_START, K
<1>2. UserPages = Pages
  BY <1>1, Sizes DEF UserPages, Pages
<1>3. ASSUME NEW p \in Pages PROVE Writable(Like(kernel), p) <=> p \notin CodePages
  <2>0. p \in Nat
    BY Sizes DEF Pages
  <2>1. CASE kernel = "E1"
    <3>1. CodePages = {q \in Pages : q >= K + NUM_PAG_DATA}
      BY <1>2, <2>1, E1Layout DEF CodePages
    <3> QED BY <2>0, <2>1, <3>1, Sizes DEF Writable, Like
  <2>2. CASE kernel # "E1"
    <3>1. CodePages = {q \in Pages : q < K + NUM_PAG_CODE}
      BY <1>2, <2>2, GameLayout DEF CodePages
    <3> QED BY <2>0, <2>2, <3>1, Sizes DEF Writable, Like
  <2> QED BY <2>1, <2>2
<1> QED BY <1>1, <1>2, <1>3

\* When return_gate enters user mode, the machine is task 1's (UserEntry): its
\* directory, its system stack, and the whole image behind the pages it was linked
\* for, in all four kernels.
THEOREM EntryCorrect == Spec => []UserEntry
<1>1. BootInv => UserEntry
  <2> SUFFICES ASSUME BootInv, InUser
               PROVE  /\ m.cr3 = m.pcb[m.task1].dir /\ m.pcb[m.task1].PID = 1
                      /\ m.msr[373] = m.esp0 /\ StackPage(m.esp0) = PcbPageOf(m.task1)
                      /\ \A i \in ImagePages(m) : m.mem[Frame(m, FirstUserPage + i)] = i
    BY DEF UserEntry
  <2>0. Booting
    BY DEF BootInv, PcInv, InUser, Booting
  <2>1. CASE Paged
    <3> DEFINE k == Like(kernel)
               s == StageOf(kernel, pc)
               t == Task(k)
    <3>1. k \in PagedKernels /\ s \in 1 .. 15 /\ PagedInv(k, m, s) /\ kernel \in {"GAME", "Ex2", "E1"}
      BY <2>0, <2>1, PagedAt
    <3>2. FirstUserPage = K /\ UserPages = Pages /\ \A p \in Pages : Writable(k, p) <=> p \notin CodePages
      BY <3>1, UserLayout
    <3>3. t \in Tasks /\ PcbPageOf(t) = PcbAt(k, t)
      <4>1. t \in Tasks
        BY DEF Task, Tasks
      <4> QED BY <2>1, <3>1, <4>1, PcbPages
    <3> HIDE DEF k, s
    <3>4. s = 15
      BY <3>1 DEF PagedInv, Regs, InUser
    <3>5. /\ m.cr3 = t /\ m.task1 = t /\ m.pcb[t].dir = t /\ m.pcb[t].PID = 1 /\ m.esp0 = Top(k) /\ m.msr[373] = Top(k)
          /\ Tables(k, m, Spaces(k, 15)) /\ t \in Spaces(k, 15)
      BY <3>1, <3>4 DEF PagedInv, Regs, Paging, Procs, Directory, Spaces, Task
    <3>6. StackPage(m.esp0) = PcbPageOf(m.task1)
      BY <3>1, <3>3, <3>5, StackPages
    <3>7. ASSUME NEW i \in ImagePages(m) PROVE m.mem[Frame(m, FirstUserPage + i)] = i
      <4>1. m.usr_size \in UsrSizes /\ m.sys_size \in SysSizes /\ m.mem[FrameAt(m, t, K + i)] = i
        BY <3>1, <3>4, <3>7 DEF PagedInv, Image
      <4>2. ImagePages(m) \subseteq 0 .. U - 1
        BY <4>1, CopyPages
      <4>3. K + i \in Pages
        BY <3>7, <4>2, Sizes DEF Pages
      <4>4. Directory(k, 15) = t /\ Directory(k, 15) \in Spaces(k, 15)
        BY <3>5 DEF Directory
      <4>5. Frame(m, K + i) = FrameAt(m, t, K + i)
        BY <3>1, <3>4, <4>3, <4>4, UserMapped
      <4> QED BY <3>2, <4>1, <4>5
    <3> QED BY <3>5, <3>6, <3>7
  <2>2. CASE ~Paged
    <3>1. pc \in 1 .. 15 /\ BaseInv(m, pc) /\ kernel = "base"
      BY <2>0, <2>2, BaseAt
    <3>2. pc = 15
      BY <3>1 DEF BaseInv, BaseRegs, InUser
    <3>3. /\ m.cr3 = m.pcb[m.task1].dir /\ m.pcb[m.task1].PID = 1 /\ m.msr[373] = m.esp0 /\ m.pg = FALSE
          /\ m.esp0 = (m.task1 + 1) * PAGE
      BY <3>1, <3>2 DEF BaseInv, BaseRegs
    <3>4. StackPage(m.esp0) = PcbPageOf(m.task1)
      <4>1. m.task1 \in Nat
        <5>1. BaseMem(m, 15) /\ BaseImage(m, 15)
          BY <3>1, <3>2 DEF BaseInv
        <5>2. m.last_kernel \in 17 .. K + 1
          BY <5>1, BaseLastRange DEF BaseMem, BaseImage
        <5>3. m.task1 \in BaseFrames(m)
          BY <5>1 DEF BaseMem, TaskSpace, TaskNames
        <5> QED BY <5>2, <5>3, Sizes DEF BaseFrames
      <4>2. PH_PAGE((m.task1 + 1) * PAGE - 1) = m.task1
        BY <4>1, PageBelow
      <4>3. PcbPageOf(m.task1) = m.task1
        BY <3>1 DEF PcbPageOf
      <4> QED BY <3>3, <4>2, <4>3 DEF StackPage
    <3>5. ASSUME NEW i \in ImagePages(m) PROVE m.mem[Frame(m, FirstUserPage + i)] = i
      <4>1. FirstUserPage = TOTAL_PAGES
        <5>1. TOTAL_PAGES \in Nat
          BY Sizes
        <5> QED BY <3>1, <5>1, PageOfMultiple DEF FirstUserPage, Base!L_USER_START
      <4>2. m.mem[TOTAL_PAGES + i] = i
        BY <3>1, <3>2, <3>5 DEF BaseInv, BaseImage
      <4> QED BY <3>3, <4>1, <4>2 DEF Frame
    <3> QED BY <3>3, <3>4, <3>5
  <2> QED BY <2>1, <2>2
<1> QED BY <1>1, BootAlways, PTL

\* Behind the pages of the only table of a directory there are none.
LEMMA ActiveBehind ==
  ASSUME NEW x, x.dirs = Dirs, x.cr3 \in Tasks, NEW p \in TOTAL_PAGES .. 2 * TOTAL_PAGES - 1
  PROVE  ActiveEntry(x, p) = ZeroEntry
<1>1. p \in Nat /\ TOTAL_PAGES \in Nat \ {0} /\ p >= TOTAL_PAGES /\ p < 2 * TOTAL_PAGES
  BY Sizes
<1>2. p \div TOTAL_PAGES = 1
  BY <1>1
<1> DEFINE e == [table |-> x.cr3, user |-> TRUE, rw |-> TRUE]
<1>3. x.dirs[x.cr3] = << e >>
  BY DEF Dirs
<1>4. p \div TOTAL_PAGES + 1 = 2 /\ 2 \notin DOMAIN << e >>
  BY <1>2
<1> HIDE DEF e
<1> QED BY <1>3, <1>4 DEF ActiveEntry

\* In the kernels with paging the program is confined to its pages
\* (PagedConfined): paging is on, no other page is a user's, page 0 is absent, and
\* its code is read-only, for all sizes of the programs and of memory.  The base
\* kernel enters user mode with paging off.
THEOREM ConfinedCorrect == Spec => []PagedConfined
<1>1. BootInv => (Paged => UserConfined)
  <2> DEFINE E(p) == ActiveEntry(m, p)
  <2> SUFFICES ASSUME BootInv, Paged, InUser
               PROVE  /\ m.pg
                      /\ \A p \in 0 .. 2 * TOTAL_PAGES - 1 :
                           /\ E(p).present /\ E(p).user <=> p \in UserPages
                           /\ p \in UserPages => (E(p).rw <=> p \notin CodePages)
                      /\ ~E(0).present
    BY DEF UserConfined
  <2>0. Booting
    BY DEF BootInv, PcInv, InUser, Booting
  <2> DEFINE k == Like(kernel)
             s == StageOf(kernel, pc)
             t == Task(k)
  <2>1. k \in PagedKernels /\ s \in 1 .. 15 /\ PagedInv(k, m, s) /\ kernel \in {"GAME", "Ex2", "E1"}
    BY <2>0, PagedAt
  <2>2. UserPages = Pages /\ \A p \in Pages : Writable(k, p) <=> p \notin CodePages
    BY <2>1, UserLayout
  <2>3. t \in Tasks
    BY DEF Task, Tasks
  <2> HIDE DEF k, s, E
  <2>4. s = 15
    BY <2>1 DEF PagedInv, Regs, InUser
  <2>5. /\ m.pg = TRUE /\ m.cr3 = t /\ m.dirs = Dirs
        /\ Tables(k, m, Spaces(k, 15)) /\ t \in Spaces(k, 15)
    BY <2>1, <2>4 DEF PagedInv, Regs, Paging, Tables, Directory, Spaces, Task
  <2> HIDE DEF t
  <2>6. ASSUME NEW p \in 0 .. TOTAL_PAGES - 1
        PROVE  E(p) = IF p \in Pages THEN PTE(FrameAt(m, t, p), TRUE, Writable(k, p)) ELSE KernelEntry(k, p)
    <3>1. E(p) = m.tabs[t][p]
      BY <2>3, <2>5, ActiveAt DEF E
    <3> QED BY <2>3, <2>5, <3>1 DEF Tables, Entry
  <2>7. Pages \subseteq 0 .. TOTAL_PAGES - 1 /\ 0 \in 0 .. TOTAL_PAGES - 1 /\ 0 \notin Pages
    BY Sizes DEF Pages
  <2>8. ASSUME NEW p \in Pages
        PROVE  E(p).present /\ E(p).user /\ (E(p).rw <=> p \notin CodePages)
    <3> DEFINE w == Writable(k, p)
               f == FrameAt(m, t, p)
    <3>1. E(p) = PTE(f, TRUE, w)
      BY <2>6, <2>7
    <3>2. w <=> p \notin CodePages
      BY <2>2
    <3> HIDE DEF w, f
    <3>3. PTE(f, TRUE, w).user = TRUE /\ PTE(f, TRUE, w).present = TRUE /\ PTE(f, TRUE, w).rw = w
      BY DEF PTE
    <3>4. E(p).user = TRUE /\ E(p).present = TRUE /\ E(p).rw = w
      BY <3>1, <3>3, Zenon
    <3> QED BY <3>2, <3>4, Zenon
  <2>9. (\A p : KernelEntry(k, p).user = FALSE) /\ ZeroEntry.user = FALSE /\ ZeroEntry.present = FALSE
    BY DEF KernelEntry, PTE, ZeroEntry
  <2>10. ASSUME NEW p \in 0 .. 2 * TOTAL_PAGES - 1, p \notin Pages PROVE ~(E(p).present /\ E(p).user)
    <3>1. CASE p \in 0 .. TOTAL_PAGES - 1
      <4>1. E(p) = KernelEntry(k, p)
        BY <2>6, <2>10, <3>1
      <4>2. E(p).user = FALSE
        BY <2>9, <4>1, Zenon
      <4> QED BY <4>2, Zenon
    <3>2. CASE p \in TOTAL_PAGES .. 2 * TOTAL_PAGES - 1
      <4>1. E(p) = ZeroEntry
        BY <2>3, <2>5, <3>2, ActiveBehind DEF E
      <4>2. E(p).user = FALSE
        BY <2>9, <4>1, Zenon
      <4> QED BY <4>2, Zenon
    <3> QED BY <3>1, <3>2, Sizes
  <2>11. ~E(0).present
    <3>1. KernelEntry(k, 0) = ZeroEntry
      BY DEF KernelEntry
    <3>2. E(0) = ZeroEntry
      BY <2>6, <2>7, <3>1
    <3> QED BY <2>9, <3>2, Zenon
  <2> QED BY <2>2, <2>5, <2>8, <2>10, <2>11
<1>2. BootInv => (InUser /\ ~Paged => ~m.pg)
  <2> SUFFICES ASSUME BootInv, InUser, ~Paged PROVE ~m.pg
    OBVIOUS
  <2>1. Booting
    BY DEF BootInv, PcInv, InUser, Booting
  <2>2. BaseInv(m, pc)
    BY <2>1, BaseAt
  <2> QED BY <2>2 DEF BaseInv, BaseRegs
<1>3. BootInv => PagedConfined
  BY <1>1, <1>2 DEF PagedConfined
<1> QED BY <1>3, BootAlways, PTL

\* The parts of FramesAccounted, by name.
OwnFrames ==
  IF Paged THEN 0 .. NUM_PAG_KERNEL - 1
  ELSE (m.first_kernel .. m.last_kernel - 1) \cup {GDT_PAGE, SCREEN_PAGE}
UserSlots ==
  {s \in (DOMAIN m.tabs) \X (0 .. TOTAL_PAGES - 1) :
     m.tabs[s[1]][s[2]].present /\ m.tabs[s[1]][s[2]].user}
NamedFrames ==
  IF Paged THEN {} ELSE (DOMAIN m.dirs \cup DOMAIN m.tabs \cup {m.idle_task, m.task1}) \ {None}
HeldFrames == {m.tabs[s[1]][s[2]].frame : s \in UserSlots}

\* In the three kernels with paging the user slots are the user pages of the address
\* spaces.
LEMMA PagedSlots ==
  ASSUME NEW k \in PagedKernels, NEW S \in SUBSET Tasks, Tables(k, m, S)
  PROVE  UserSlots = S \X Pages
<1>1. Pages \subseteq 0 .. TOTAL_PAGES - 1
  BY Sizes DEF Pages
<1>2. DOMAIN m.tabs = Tasks
  BY DEF Tables
<1>3. ASSUME NEW t \in Tasks, NEW p \in 0 .. TOTAL_PAGES - 1
      PROVE  (m.tabs[t][p].present /\ m.tabs[t][p].user) <=> (t \in S /\ p \in Pages)
  <2>1. m.tabs[t][p] = Entry(k, m, S, t, p)
    BY DEF Tables
  <2>2. CASE t \in S /\ p \in Pages
    <3> DEFINE f == FrameAt(m, t, p)
               w == Writable(k, p)
    <3>1. m.tabs[t][p] = PTE(f, TRUE, w)
      BY <2>1, <2>2 DEF Entry
    <3> HIDE DEF f, w
    <3>2. PTE(f, TRUE, w).present = TRUE /\ PTE(f, TRUE, w).user = TRUE
      BY DEF PTE
    <3> QED BY <2>2, <3>1, <3>2, Zenon
  <2>3. CASE ~(t \in S /\ p \in Pages)
    <3>1. m.tabs[t][p] = KernelEntry(k, p)
      BY <2>1, <2>3 DEF Entry
    <3>2. KernelEntry(k, p).user = FALSE
      BY DEF KernelEntry, PTE, ZeroEntry
    <3> QED BY <2>3, <3>1, <3>2, Zenon
  <2> QED BY <2>2, <2>3
<1>4. ASSUME NEW s PROVE s \in UserSlots <=> s \in S \X Pages
  <2>1. s \in UserSlots => s \in S \X Pages
    <3> SUFFICES ASSUME s \in UserSlots PROVE s \in S \X Pages
      OBVIOUS
    <3>1. s \in Tasks \X (0 .. TOTAL_PAGES - 1) /\ m.tabs[s[1]][s[2]].present /\ m.tabs[s[1]][s[2]].user
      BY <1>2, Zenon DEF UserSlots
    <3>2. s[1] \in Tasks /\ s[2] \in 0 .. TOTAL_PAGES - 1 /\ s = << s[1], s[2] >>
      BY <3>1
    <3>3. s[1] \in S /\ s[2] \in Pages
      BY <1>3, <3>1, <3>2, Zenon
    <3> QED BY <3>2, <3>3
  <2>2. s \in S \X Pages => s \in UserSlots
    <3> SUFFICES ASSUME s \in S \X Pages PROVE s \in UserSlots
      OBVIOUS
    <3>1. s[1] \in S /\ s[2] \in Pages /\ s = << s[1], s[2] >>
      OBVIOUS
    <3>2. s[1] \in Tasks /\ s[2] \in 0 .. TOTAL_PAGES - 1
      BY <1>1, <3>1
    <3>3. m.tabs[s[1]][s[2]].present /\ m.tabs[s[1]][s[2]].user
      BY <1>3, <3>1, <3>2, Zenon
    <3>4. s \in (DOMAIN m.tabs) \X (0 .. TOTAL_PAGES - 1)
      BY <1>2, <3>1, <3>2
    <3> QED BY <3>3, <3>4, Zenon DEF UserSlots
  <2> QED BY <2>1, <2>2
<1> QED BY <1>4

\* In the base kernel they are the pages of task 1's user table.
LEMMA BaseSlots ==
  ASSUME TaskSpace(m)
  PROVE  UserSlots = {UserTable(m)} \X (0 .. U - 1)
<1> DEFINE b == UserTable(m)
           a == SystemTable(m)
<1>1. 0 .. U - 1 \subseteq 0 .. TOTAL_PAGES - 1
  BY Sizes
<1>2. DOMAIN m.tabs = {a, b} /\ a # b
  BY DEF TaskSpace
<1>3. \A p \in 0 .. TOTAL_PAGES - 1 : m.tabs[a][p].user = FALSE
  BY DEF TaskSpace
<1>4. ASSUME NEW p \in 0 .. TOTAL_PAGES - 1
      PROVE  (m.tabs[b][p].present /\ m.tabs[b][p].user) <=> p \in 0 .. U - 1
  <2>1. m.tabs[b][p] = IF p < U THEN PTE(UserFrame(m, p), TRUE, p < NUM_PAG_DATA) ELSE ZeroEntry
    BY DEF TaskSpace
  <2>2. p < U <=> p \in 0 .. U - 1
    BY Sizes
  <2>3. CASE p < U
    <3> DEFINE f == UserFrame(m, p)
               w == p < NUM_PAG_DATA
    <3>1. m.tabs[b][p] = PTE(f, TRUE, w)
      BY <2>1, <2>3
    <3> HIDE DEF f, w
    <3>2. PTE(f, TRUE, w).present = TRUE /\ PTE(f, TRUE, w).user = TRUE
      BY DEF PTE
    <3> QED BY <2>2, <2>3, <3>1, <3>2, Zenon
  <2>4. CASE ~(p < U)
    <3>1. m.tabs[b][p] = ZeroEntry
      BY <2>1, <2>4
    <3>2. ZeroEntry.user = FALSE
      BY DEF ZeroEntry
    <3> QED BY <2>2, <2>4, <3>1, <3>2, Zenon
  <2> QED BY <2>3, <2>4
<1> HIDE DEF a, b
<1>5. ASSUME NEW s PROVE s \in UserSlots <=> s \in {b} \X (0 .. U - 1)
  <2>1. s \in UserSlots => s \in {b} \X (0 .. U - 1)
    <3> SUFFICES ASSUME s \in UserSlots PROVE s \in {b} \X (0 .. U - 1)
      OBVIOUS
    <3>1. s \in {a, b} \X (0 .. TOTAL_PAGES - 1) /\ m.tabs[s[1]][s[2]].present /\ m.tabs[s[1]][s[2]].user
      BY <1>2, Zenon DEF UserSlots
    <3>2. s[1] \in {a, b} /\ s[2] \in 0 .. TOTAL_PAGES - 1 /\ s = << s[1], s[2] >>
      BY <3>1
    <3>3. s[1] # a
      BY <1>3, <3>1, <3>2, Zenon
    <3>4. s[1] = b
      BY <3>2, <3>3
    <3>5. s[2] \in 0 .. U - 1
      BY <1>4, <3>1, <3>2, <3>4, Zenon
    <3> QED BY <3>2, <3>4, <3>5
  <2>2. s \in {b} \X (0 .. U - 1) => s \in UserSlots
    <3> SUFFICES ASSUME s \in {b} \X (0 .. U - 1) PROVE s \in UserSlots
      OBVIOUS
    <3>1. s[1] = b /\ s[2] \in 0 .. U - 1 /\ s = << s[1], s[2] >>
      OBVIOUS
    <3>2. s[2] \in 0 .. TOTAL_PAGES - 1
      BY <1>1, <3>1
    <3>3. m.tabs[s[1]][s[2]].present /\ m.tabs[s[1]][s[2]].user
      BY <1>4, <3>1, <3>2, Zenon
    <3>4. s \in (DOMAIN m.tabs) \X (0 .. TOTAL_PAGES - 1)
      BY <1>2, <3>1, <3>2
    <3> QED BY <3>3, <3>4, Zenon DEF UserSlots
  <2> QED BY <2>1, <2>2
<1> QED BY <1>5 DEF b

Apart ==
  /\ m.phys_mem = OwnFrames \cup NamedFrames \cup HeldFrames
  /\ \A s, r \in UserSlots : m.tabs[s[1]][s[2]].frame = m.tabs[r[1]][r[2]].frame => s = r
  /\ OwnFrames \cap (NamedFrames \cup HeldFrames) = {} /\ NamedFrames \cap HeldFrames = {}

\* The frames are accounted for in the kernels with paging,
LEMMA PagedApart == ASSUME BootInv, Booting, Paged, m.phys_mem # {} PROVE Apart
<1> DEFINE k == Like(kernel)
           s == StageOf(kernel, pc)
           S == Spaces(k, s)
<1>1. k \in PagedKernels /\ s \in 1 .. 15 /\ PagedInv(k, m, s)
  BY PagedAt
<1>2. S \in SUBSET Tasks
  BY DEF Spaces, Tasks
<1> HIDE DEF k
<1> HIDE DEF s
<1>3. Tables(k, m, S) /\ Frames(m, S)
  <2> HIDE DEF S
  <2>1. s >= 7
    BY <1>1 DEF PagedInv, Paging
  <2> QED BY <1>1, <2>1 DEF PagedInv, Paging, S
<1> HIDE DEF S
<1>4. UserSlots = S \X Pages
  BY <1>1, <1>2, <1>3, PagedSlots
<1>5. NamedFrames = {} /\ OwnFrames = 0 .. K - 1
  BY DEF NamedFrames, OwnFrames, K
<1>6. HeldFrames = {FrameAt(m, r[1], r[2]) : r \in S \X Pages}
  BY <1>4 DEF HeldFrames, FrameAt
<1>7. HeldFrames \subseteq Even
  <2>1. ASSUME NEW r \in S \X Pages PROVE FrameAt(m, r[1], r[2]) \in Even
    <3>1. r[1] \in S /\ r[2] \in Pages
      OBVIOUS
    <3> QED BY <1>3, <3>1 DEF Frames
  <2> QED BY <1>6, <2>1
<1>8. m.phys_mem = (0 .. K - 1) \cup HeldFrames
  BY <1>3, <1>6 DEF Frames
<1>9. ASSUME NEW q \in UserSlots, NEW r \in UserSlots, m.tabs[q[1]][q[2]].frame = m.tabs[r[1]][r[2]].frame
      PROVE  q = r
  <2>1. q[1] \in S /\ q[2] \in Pages /\ r[1] \in S /\ r[2] \in Pages /\ q = << q[1], q[2] >> /\ r = << r[1], r[2] >>
    BY <1>4
  <2>2. FrameAt(m, q[1], q[2]) = FrameAt(m, r[1], r[2])
    BY <1>9 DEF FrameAt
  <2>3. q[1] = r[1] /\ q[2] = r[2]
    BY <1>3, <2>1, <2>2 DEF Frames
  <2> QED BY <2>1, <2>3
<1>10. (0 .. K - 1) \cap HeldFrames = {}
  <2>1. \A f \in Even : f \notin 0 .. K - 1
    BY Sizes DEF Even
  <2> QED BY <1>7, <2>1
<1> QED BY <1>5, <1>8, <1>9, <1>10 DEF Apart

\* ... and in the base kernel.
LEMMA BaseApart == ASSUME BootInv, Booting, ~Paged, m.phys_mem # {} PROVE Apart
<1>1. pc \in 1 .. 15 /\ BaseMem(m, pc) /\ BaseImage(m, pc)
  BY BaseAt DEF BaseInv
<1>2. pc >= 8
  BY <1>1 DEF BaseMem
<1>3. m.first_kernel = 2 /\ m.last_kernel \in 17 .. K + 1
  BY <1>1, <1>2, BaseLastRange DEF BaseMem, BaseImage
<1>4. OwnFrames = BaseOwn(m)
  BY <1>3 DEF OwnFrames, BaseOwn
<1>5. BaseFrames(m) \subseteq Int /\ BaseOwn(m) \cap BaseFrames(m) = {}
  BY <1>3, Sizes DEF BaseFrames, BaseOwn
<1>6. None \notin BaseFrames(m)
  BY <1>5, Sizes
<1>7. CASE pc \in {8, 9}
  <2>1. m.dirs = << >> /\ m.tabs = << >> /\ m.idle_task = None /\ m.task1 = None /\ m.phys_mem = BaseOwn(m)
    BY <1>1, <1>7 DEF BaseMem
  <2>2. DOMAIN m.dirs = {} /\ DOMAIN m.tabs = {}
    BY <2>1
  <2>3. UserSlots = {}
    BY <2>2 DEF UserSlots
  <2>4. NamedFrames = {} /\ HeldFrames = {}
    BY <2>1, <2>2, <2>3 DEF NamedFrames, HeldFrames
  <2> QED BY <1>4, <2>1, <2>3, <2>4 DEF Apart
<1>8. CASE pc = 10
  <2>1. m.tabs = << >> /\ m.task1 = None /\ IdleSpace(m)
    BY <1>1, <1>8 DEF BaseMem
  <2>2. DOMAIN m.tabs = {}
    BY <2>1
  <2>3. UserSlots = {}
    BY <2>2 DEF UserSlots
  <2>4. HeldFrames = {}
    BY <2>3 DEF HeldFrames
  <2>5. IdleNames(m) \subseteq BaseFrames(m)
    BY <2>1 DEF IdleSpace
  <2>6. DOMAIN m.dirs \cup DOMAIN m.tabs \cup {m.idle_task, m.task1} = IdleNames(m) \cup {None}
    BY <2>1, <2>2 DEF IdleSpace, IdleNames
  <2>7. NamedFrames = IdleNames(m)
    BY <1>6, <2>5, <2>6 DEF NamedFrames
  <2>8. m.phys_mem = BaseOwn(m) \cup IdleNames(m)
    BY <2>1 DEF IdleSpace
  <2> QED BY <1>4, <1>5, <2>3, <2>4, <2>5, <2>7, <2>8 DEF Apart
<1>9. CASE pc >= 11
  <2>1. TaskSpace(m)
    BY <1>1, <1>9 DEF BaseMem
  <2>2. UserSlots = {UserTable(m)} \X (0 .. U - 1)
    BY <2>1, BaseSlots
  <2>3. ASSUME NEW s \in UserSlots
        PROVE  s[2] \in 0 .. U - 1 /\ s = << UserTable(m), s[2] >> /\ m.tabs[s[1]][s[2]].frame = UserFrame(m, s[2])
    <3>1. s[1] = UserTable(m) /\ s[2] \in 0 .. U - 1 /\ s = << s[1], s[2] >>
      BY <2>2
    <3> QED BY <3>1 DEF UserFrame
  <2>4. HeldFrames = Held(m)
    <3>1. HeldFrames \subseteq Held(m)
      BY <2>3 DEF HeldFrames, Held
    <3>2. ASSUME NEW p \in 0 .. U - 1 PROVE UserFrame(m, p) \in HeldFrames
      <4>1. << UserTable(m), p >> \in UserSlots
        BY <2>2
      <4> QED BY <4>1 DEF HeldFrames, UserFrame
    <3> QED BY <3>1, <3>2 DEF Held
  <2>5. IdleNames(m) \cup TaskNames(m) \subseteq BaseFrames(m)
    BY <2>1 DEF TaskSpace
  <2>6. DOMAIN m.dirs \cup DOMAIN m.tabs \cup {m.idle_task, m.task1} = IdleNames(m) \cup TaskNames(m)
    BY <2>1 DEF TaskSpace, IdleNames, TaskNames
  <2>7. NamedFrames = IdleNames(m) \cup TaskNames(m)
    BY <1>6, <2>5, <2>6 DEF NamedFrames
  <2>8. m.phys_mem = BaseOwn(m) \cup NamedFrames \cup HeldFrames
    BY <2>1, <2>4, <2>7 DEF TaskSpace
  <2>9. HeldFrames \subseteq BaseFrames(m) \ NamedFrames
    BY <2>1, <2>4, <2>7 DEF TaskSpace
  <2>10. ASSUME NEW s \in UserSlots, NEW r \in UserSlots, m.tabs[s[1]][s[2]].frame = m.tabs[r[1]][r[2]].frame
         PROVE  s = r
    <3>1. UserFrame(m, s[2]) = UserFrame(m, r[2])
      BY <2>3, <2>10
    <3>2. s[2] = r[2]
      BY <2>1, <2>3, <3>1 DEF TaskSpace
    <3> QED BY <2>3, <3>2
  <2>11. OwnFrames \cap (NamedFrames \cup HeldFrames) = {} /\ NamedFrames \cap HeldFrames = {}
    BY <1>4, <1>5, <2>5, <2>7, <2>9
  <2> QED BY <1>4, <2>8, <2>10, <2>11 DEF Apart
<1> QED BY <1>1, <1>2, <1>7, <1>8, <1>9

\* Every frame in use has one owner (FramesAccounted): alloc_frame, as init_mm,
\* monoprocess_init_addr_space, init_idle and init_task1 of the four kernels use it,
\* never gives a frame of the kernel or one frame twice, and phys_mem lists no other.
THEOREM FramesCorrect == Spec => []FramesAccounted
<1>1. BootInv => FramesAccounted
  <2> SUFFICES ASSUME BootInv, Booting, m.phys_mem # {}
               PROVE  Apart
    BY DEF FramesAccounted, Apart, OwnFrames, UserSlots, NamedFrames, HeldFrames
  <2> QED BY PagedApart, BaseApart
<1> QED BY <1>1, BootAlways, PTL
=============================================================================
