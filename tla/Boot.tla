-------------------------------- MODULE Boot --------------------------------
(***************************************************************************)
(* From the three files to the first instruction of user mode: build makes *)
(* the image, bootsect.S loads it, and main() of the chosen kernel runs,   *)
(* one call at a time, until return_gate.  A clock or keyboard interrupt   *)
(* may come at any moment interrupts are enabled: in user mode, and in the *)
(* window of main() between the sti of enable_int and return_gate, where   *)
(* it runs on the boot stack.                                              *)
(***************************************************************************)
EXTENDS Build

CONSTANTS
  MaxTicks,     \* bound: clock interrupts modelled
  WildPages     \* pages a write through a garbage pointer may hit

\* The system contains the PCBs and their guard pages, system and user program
\* fit in the pages reserved to the kernel, the user program in its own pages,
\* and memory holds what main() allocates: in E1 two address spaces in every other
\* frame, in the base kernel directories, tables and PCBs too.
ASSUME ImageAssumption ==
  /\ None \notin Int /\ SCREEN_PAGE # 0 /\ PAGE > 1
  /\ \A s \in SysSizes, u \in UsrSizes :
       /\ (FirstTaskPage + NR_TASKS + 2) * PAGE <= KERNEL_START + s
       /\ KERNEL_START + s + u <= NUM_PAG_KERNEL * PAGE
       /\ u <= (NUM_PAG_CODE + NUM_PAG_DATA) * PAGE
  /\ NUM_PAG_KERNEL + 4 * (NUM_PAG_CODE + NUM_PAG_DATA) <= TOTAL_PAGES
  /\ NUM_PAG_KERNEL + 7 + NUM_PAG_CODE + NUM_PAG_DATA <= TOTAL_PAGES

Game == INSTANCE KernelGame
Ex2 == INSTANCE KernelEx2
E1 == INSTANCE KernelE1
Base == INSTANCE KernelBase

VARIABLES m, pc
vars == << kernel, files, step, out, pos, left, m, pc >>

Off == ResetMachine(0, 0, {})

Init == BuildInit /\ m = Off /\ pc = 0

Building == BuildNext /\ UNCHANGED << m, pc >>

\* bootsect.S: the machine as main() finds it.
Load ==
  /\ step = "exit0" /\ pc = 0
  /\ LET sys == LoadedCells[1].at
         usr == LoadedCells[2].at
     IN m' = ResetMachine(sys, usr, LoadedImage(LoadedCells, sys, usr))
  /\ pc' = 1
  /\ UNCHANGED bvars

\* Every call of main() runs code in the text page and pushes on its stack.
Stack(x) == IF x.esp = 0 THEN {} ELSE {StackPage(x.esp)}
Running(k, prog) ==
  /\ kernel = k /\ pc \in DOMAIN prog /\ ~m.fault
  /\ pc' = pc + 1
  /\ UNCHANGED bvars
Before == Access(m, {TextPage} \cup Stack(m))

MainGame == Running("GAME", Game!main) /\ m' = Game!Call(Game!main[pc], Before)
MainEx2 == Running("Ex2", Ex2!main) /\ m' = Ex2!Call(Ex2!main[pc], Before)
MainE1 == Running("E1", E1!main) /\ m' = E1!Call(E1!main[pc], Before)
\* No write of init_idle of the base kernel went over what it uses.
Sound == m.wild = None

MainBase ==
  /\ Running("base", Base!main) /\ Sound
  /\ \E w \in IF Base!main[pc] = "init_idle" THEN WildPages \cup {None} ELSE {None} :
       m' = Base!Call(Base!main[pc], Before, w)

(***************************************************************************)
(* An interrupt on a line goes through its gate and pushes on the current  *)
(* stack, or from user mode on the one the TSS names; without a gate, an   *)
(* IDT, a TSS or a mapped stack the processor faults instead.              *)
(***************************************************************************)
Deliver(line) ==
  LET stack == StackPage(IF m.mode = "user" THEN m.esp0 ELSE m.esp)
      ok == m.idtr /\ (32 + line) \in DOMAIN m.gates /\ (m.mode = "user" => m.tr)
  IN [Access(m, {stack, TextPage}) EXCEPT !.fault = @ \/ ~ok]

clock_routine(x) ==
  CASE kernel = "GAME" -> Game!clock_routine(x)
    [] kernel = "Ex2" -> Ex2!clock_routine(x)
    [] kernel = "E1" -> E1!clock_routine(x)
    [] kernel = "base" -> Base!clock_routine(x)

Interruptible(line) == pc > 0 /\ m.IF /\ line \in m.irqs /\ ~m.fault

Tick ==
  /\ Interruptible(0) /\ m.ticks < MaxTicks
  /\ m' = clock_routine(Deliver(0))
  /\ UNCHANGED << kernel, files, step, out, pos, left, pc >>

\* What a key does is the matter of the module Keyboard.
Key ==
  /\ Interruptible(1)
  /\ m' = Deliver(1)
  /\ UNCHANGED << kernel, files, step, out, pos, left, pc >>

Main == MainGame \/ MainEx2 \/ MainE1 \/ MainBase
Next == Building \/ Load \/ Main \/ Tick \/ Key

Spec == Init /\ [][Next]_vars

(***************************************************************************)
(* Properties.                                                             *)
(***************************************************************************)
Booting == pc > 0 /\ Sound
InUser == m.mode = "user" /\ Sound
Paged == kernel # "base"

FirstUserPage == PH_PAGE(CASE kernel = "base" -> Base!L_USER_START [] OTHER -> Game!L_USER_START)
UserPages == FirstUserPage .. FirstUserPage + NUM_PAG_CODE + NUM_PAG_DATA - 1
CodePages == CASE kernel \in {"GAME", "Ex2"} -> {p \in UserPages : p < Game!PAG_LOG_INIT_DATA}
               [] kernel = "E1" -> {p \in UserPages : p >= E1!PAG_LOG_INIT_CODE}
               [] OTHER -> {p \in UserPages : p >= Base!PAG_LOG_INIT_CODE}
PcbPageOf(t) == CASE kernel \in {"GAME", "Ex2"} -> Game!PcbPage(t)
                  [] kernel = "E1" -> E1!PcbPage(t)
                  [] OTHER -> t

\* No call of main() touches a page its active table does not map (the tables
\* switched on by init_mm and by init_task1 cover the code, the PCBs, the loaded
\* image and the stack, and the guard pages lie beside them), and no interrupt in
\* the window or in user mode finds a gate, the TSS or a stack missing.  (This and
\* the properties below say nothing of a base kernel that overwrote itself.)
NoFault == Booting => ~m.fault

\* The stack main() runs on lies in the PCB of neither the idle process, whose
\* saved context it would overwrite, nor task 1, whose system stack the first
\* interrupt from user mode overwrites.
BootStackApart ==
  (Booting /\ m.mode = "kernel" /\ m.esp # 0) =>
    \A t \in {m.idle_task, m.task1} \ {None} : PcbPageOf(t) # StackPage(m.esp)

\* On entry to user mode the machine is task 1's: cr3 holds its directory, the TSS
\* and the sysenter MSR name its system stack, and every page of the user image is
\* behind the logical page it was linked for.  In the base kernel paging is off:
\* cr3 is not used, and the logical page is the physical one.
UserEntry ==
  InUser =>
    /\ m.cr3 = m.pcb[m.task1].dir /\ m.pcb[m.task1].PID = 1
    /\ m.msr[373] = m.esp0 /\ StackPage(m.esp0) = PcbPageOf(m.task1)
    /\ \A i \in ImagePages(m) : m.mem[Frame(m, FirstUserPage + i)] = i

\* In user mode paging is on, and of the pages the two entries of a directory
\* cover the program reaches its own and no other, neither the kernel's nor page 0;
\* its code it cannot write.
UserConfined ==
  InUser =>
    /\ m.pg
    /\ \A p \in 0 .. 2 * TOTAL_PAGES - 1 :
         LET e == ActiveEntry(m, p)
         IN /\ e.present /\ e.user <=> p \in UserPages
            /\ p \in UserPages => (e.rw <=> p \notin CodePages)
    /\ ~ActiveEntry(m, 0).present

\* GAME, Ex2 and E1 confine the program to its pages.  The base kernel does not:
\* it enters user mode with paging off, as nothing calls its set_pe_flag, although
\* Zeos.txt says that the boot has turned paging on.
PagedConfined ==
  /\ Paged => UserConfined
  /\ InUser /\ ~Paged => ~m.pg

\* Every frame in use is the kernel's or is named by exactly one thing: an entry
\* for a user page of some table, or in the base kernel a directory, a table or a
\* PCB.  (In E1 the tables of task[0] and of task 1 both hold user pages.)
FramesAccounted ==
  (Booting /\ m.phys_mem # {}) =>
    LET own == IF Paged THEN 0 .. NUM_PAG_KERNEL - 1
               ELSE (m.first_kernel .. m.last_kernel - 1) \cup {GDT_PAGE, SCREEN_PAGE}
        slots == {s \in (DOMAIN m.tabs) \X (0 .. TOTAL_PAGES - 1) :
                    m.tabs[s[1]][s[2]].present /\ m.tabs[s[1]][s[2]].user}
        names == IF Paged THEN {}
                 ELSE (DOMAIN m.dirs \cup DOMAIN m.tabs \cup {m.idle_task, m.task1}) \ {None}
        held == {m.tabs[s[1]][s[2]].frame : s \in slots}
    IN /\ m.phys_mem = own \cup names \cup held
       /\ \A s, r \in slots : m.tabs[s[1]][s[2]].frame = m.tabs[r[1]][r[2]].frame => s = r
       /\ own \cap (names \cup held) = {} /\ names \cap held = {}
=============================================================================
