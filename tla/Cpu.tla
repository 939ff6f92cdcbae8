-------------------------------- MODULE Cpu --------------------------------
(***************************************************************************)
(* What the four kernels of the repository find under their feet when      *)
(* bootsect.S jumps to main(): the registers and the memory of the PC, and *)
(* the instructions with which they change them.  A machine is one record; *)
(* an instruction, and every kernel function of the modules Kernel*, maps  *)
(* a machine to a machine, so that the body of a function reads as the     *)
(* composition of the calls it makes.                                      *)
(*                                                                         *)
(* Addresses count cells of memory and PAGE of them make a page.  The      *)
(* kernel image holds, from KERNEL_START on, its code and static data (one *)
(* page), the page directories and tables (one page, whatever their        *)
(* number), and twelve pages of .data.task for the PCBs.                   *)
(***************************************************************************)
EXTENDS Integers, Sequences, FiniteSets, TLC

CONSTANTS
  PAGE,            \* PAGE_SIZE, in cells
  TOTAL_PAGES,     \* pages of physical memory; also entries of a page table
  NUM_PAG_KERNEL,  \* pages reserved to the kernel (games, exams, E1)
  NUM_PAG_CODE, NUM_PAG_DATA,   \* pages of the user's code and data
  GDT_PAGE, SCREEN_PAGE,        \* 0x90 and 0xb8
  None             \* no task, no directory, no frame

NR_TASKS == 10
KERNEL_START == 2 * PAGE
TextPage == 2
TablesPage == 3
FirstTaskPage == 4              \* of the section .data.task that holds PCBs

ASSUME LayoutAssumption ==
  /\ {PAGE, TOTAL_PAGES, NUM_PAG_KERNEL, NUM_PAG_CODE, NUM_PAG_DATA} \subseteq Nat \ {0}
  /\ FirstTaskPage + NR_TASKS + 2 < GDT_PAGE
  /\ {GDT_PAGE, SCREEN_PAGE} \subseteq 0 .. NUM_PAG_KERNEL - 1
  /\ NUM_PAG_KERNEL + 2 * (NUM_PAG_CODE + NUM_PAG_DATA) < TOTAL_PAGES

\* The function f with the entries of g put over it, and with one entry put.
Over(g, f) == [a \in DOMAIN g \cup DOMAIN f |-> IF a \in DOMAIN g THEN g[a] ELSE f[a]]
Put(f, a, b) == [c \in DOMAIN f \cup {a} |-> IF c = a THEN b ELSE f[c]]

PH_PAGE(a) == a \div PAGE
StackPage(esp) == PH_PAGE(esp - 1)      \* the page the next push writes

(***************************************************************************)
(* Page table entries.                                                     *)
(***************************************************************************)
PTE(f, u, w) == [frame |-> f, user |-> u, rw |-> w, present |-> TRUE]
ZeroEntry == [frame |-> 0, user |-> FALSE, rw |-> FALSE, present |-> FALSE]
ZeroTable == [p \in 0 .. TOTAL_PAGES - 1 |-> ZeroEntry]

ZeroPcb == [PID |-> 0, dir |-> None, state |-> "ST_RUN", quantum |-> 0, kernel_esp |-> 0]

(***************************************************************************)
(* The machine bootsect.S hands over: protected mode, interrupts off and   *)
(* masked, the GDT of the boot sector, no IDT, no paging, and the words    *)
(* sys_size and usr_size at KERNEL_START.  image says which pages of the   *)
(* user image are in memory behind the system.                             *)
(***************************************************************************)
ResetMachine(sys, usr, img) ==
  [IF |-> FALSE, irqs |-> {}, idtr |-> FALSE, gdtr |-> FALSE, tr |-> FALSE,
   gates |-> << >>, esp |-> 0, mode |-> "kernel",
   cr3 |-> None, pg |-> FALSE, msr |-> << >>, esp0 |-> 0,
   dirs |-> << >>, tabs |-> << >>, phys_mem |-> {}, first_kernel |-> 0, last_kernel |-> 0,
   pcb |-> [t \in 0 .. NR_TASKS - 1 |-> ZeroPcb], freequeue |-> << >>, readyqueue |-> << >>,
   idle_task |-> None, task1 |-> None, quantum |-> 0, ticks |-> 0, kbuf |-> FALSE,
   sys_size |-> sys, usr_size |-> usr, image |-> img, mem |-> << >>,
   fault |-> FALSE, wild |-> None]

\* The nth frame that calling alloc_frame again and again returns, when it takes
\* the lowest frame of free each time.
NthFree(free, n) ==
  IF \E f \in free : Cardinality({g \in free : g < f}) = n - 1
  THEN CHOOSE f \in free : Cardinality({g \in free : g < f}) = n - 1
  ELSE None

(***************************************************************************)
(* The instructions.                                                       *)
(***************************************************************************)
Popfl0(m) == [m EXCEPT !.IF = FALSE]
Lidt(m) == [m EXCEPT !.idtr = TRUE]
Lgdt(m) == [m EXCEPT !.gdtr = TRUE]
Ltr(m) == [m EXCEPT !.tr = TRUE]
UnmaskIrqs(m, lines) == [m EXCEPT !.irqs = lines]
Sti(m) == [m EXCEPT !.IF = TRUE]
MovEsp(m, a) == [m EXCEPT !.esp = a]
MovCr3(m, d) == [m EXCEPT !.cr3 = d]
OrCr0PG(m) == [m EXCEPT !.pg = TRUE]
Wrmsr(m, r, v) == [m EXCEPT !.msr = Put(@, r, v)]
Lret(m, esp) == [m EXCEPT !.mode = "user", !.esp = esp]

(***************************************************************************)
(* Translation.  With paging on, a logical page goes through the entry of  *)
(* the active directory that covers it and the table it points to; an      *)
(* access to a page that is not present raises the fault no kernel here    *)
(* recovers from.  Ring 0 ignores rw and user (CR0.WP is never set).       *)
(***************************************************************************)
ActiveEntry(m, p) ==
  LET d == m.dirs[m.cr3]
      i == p \div TOTAL_PAGES + 1
  IN IF i \in DOMAIN d THEN m.tabs[d[i].table][p % TOTAL_PAGES] ELSE ZeroEntry

Mapped(m, p) == ~m.pg \/ (m.cr3 \in DOMAIN m.dirs /\ ActiveEntry(m, p).present)
Frame(m, p) == IF m.pg THEN ActiveEntry(m, p).frame ELSE p
Access(m, ps) == [m EXCEPT !.fault = @ \/ \E p \in ps : ~Mapped(m, p)]

\* The word-by-word copy of the user image, seen by pages: page i of the image
\* lands in the frame behind logical page first + i.  A page of the image that
\* the boot sector did not load is not copied, because it is not there.
ImagePages(m) == 0 .. (m.usr_size + PAGE - 1) \div PAGE - 1
CopyImage(m, first) ==
  LET src == {PH_PAGE(KERNEL_START + m.sys_size + a) : a \in 0 .. m.usr_size - 1}
      dst == {first + i : i \in ImagePages(m)}
  IN [Access(m, src \cup dst) EXCEPT
        !.mem = Over([f \in {Frame(m, p) : p \in dst} |->
                   LET i == CHOOSE i \in ImagePages(m) : Frame(m, first + i) = f
                   IN IF i \in m.image THEN i ELSE None], @)]
=============================================================================
