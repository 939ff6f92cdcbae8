---------------------------- MODULE UserAccess ------------------------------
(***************************************************************************)
(* How the kernels reach the memory of a user program: access_ok, which    *)
(* judges a block by the numbers of its first and last page, and the       *)
(* copies, by words while more than a word is left and then by bytes.      *)
(*                                                                         *)
(* Addresses are those of a machine of SPACE bytes, PAGE to the page; sums *)
(* of addresses wrap.  Page 0 is never mapped; the kernel is behind it.    *)
(***************************************************************************)
EXTENDS Integers, Sequences

CONSTANTS
  PAGE, SPACE,               \* bytes of a page, and of the address space
  WORD,                      \* sizeof(DWord)
  USER_FIRST_PAGE,           \* L_USER_START >> 12
  NUM_PAG_CODE, NUM_PAG_DATA

END_PAGE == USER_FIRST_PAGE + NUM_PAG_CODE + NUM_PAG_DATA

ASSUME UserAssumption ==
  /\ {PAGE, WORD, USER_FIRST_PAGE, NUM_PAG_CODE, NUM_PAG_DATA} \subseteq Nat \ {0}
  /\ SPACE \in Nat /\ SPACE % PAGE = 0 /\ SPACE > (END_PAGE + 1) * PAGE

VERIFY_READ == 0
VERIFY_WRITE == 1

PageOf(a) == a \div PAGE
Block(addr, size) == {(addr + i) % SPACE : i \in 0 .. size - 1}

addr_ini(addr) == PageOf(addr)
addr_fin(addr, size) == PageOf((addr + size) % SPACE)

\* A block that may not be written falls through to the test for reading.
Granted(type, ini, fin, firstData, endData) ==
  \/ type = VERIFY_WRITE /\ ini >= firstData /\ fin <= endData
  \/ ini >= USER_FIRST_PAGE /\ fin <= END_PAGE

access_okGameBug(type, addr, size) ==
  Granted(type, addr_ini(addr), addr_fin(addr, size), USER_FIRST_PAGE + NUM_PAG_CODE, END_PAGE)
access_okGame(type, addr, size) ==
  /\ addr_fin(addr, size) >= addr_ini(addr)
  /\ Granted(type, addr_ini(addr), addr_fin(addr, size), USER_FIRST_PAGE + NUM_PAG_CODE, END_PAGE)

access_okEx2(type, addr, size) ==
  /\ addr_fin(addr, size) >= addr_ini(addr)
  /\ Granted(type, addr_ini(addr), addr_fin(addr, size), USER_FIRST_PAGE + NUM_PAG_CODE, END_PAGE)

\* The data pages come first here.
access_okBase(type, addr, size) ==
  /\ addr_fin(addr, size) >= addr_ini(addr)
  /\ Granted(type, addr_ini(addr), addr_fin(addr, size), USER_FIRST_PAGE, USER_FIRST_PAGE + NUM_PAG_DATA)

\* What a copy of the first size bytes of s leaves at the destination: the words
\* the first loop moves, then the bytes the second one does.
Words(size) == IF size > 0 THEN (size - 1) \div WORD ELSE 0
copy_from_user(s, size) ==
  SubSeq(s, 1, WORD * Words(size)) \o SubSeq(s, WORD * Words(size) + 1, size)
copy_to_user(s, size) ==
  SubSeq(s, 1, WORD * Words(size)) \o SubSeq(s, WORD * Words(size) + 1, size)
=============================================================================
