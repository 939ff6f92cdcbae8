----------------------------- MODULE KernelGame -----------------------------
(***************************************************************************)
(* The boot code of the game kernel (so2_old/GAME/zeos): every function    *)
(* main() calls until it leaves for user mode, as a map on the machine.    *)
(***************************************************************************)
EXTENDS Cpu

DEFAULT_QUANTUM == 10
L_USER_START == NUM_PAG_KERNEL * PAGE
PAG_LOG_INIT_CODE == PH_PAGE(L_USER_START)
PAG_LOG_INIT_DATA == PAG_LOG_INIT_CODE + NUM_PAG_CODE
USER_ESP == L_USER_START + (NUM_PAG_CODE + NUM_PAG_DATA) * PAGE - 1

\* protected_tasks has a page before and a page after the ten PCBs.
protected_tasks(i) == (FirstTaskPage + i) * PAGE
PcbPage(t) == PH_PAGE(protected_tasks(t + 1))
KERNEL_ESPBug(t) == protected_tasks(t) + PAGE
KERNEL_ESP(t) == protected_tasks(t + 1) + PAGE
INITIAL_ESP == KERNEL_ESP(1)
TaskAt(page) == page - PcbPage(0)

set_eflags(m) == Popfl0(m)
set_idt_reg(m) == Lidt(m)
set_gdt_reg(m) == Lgdt(m)
set_task_reg(m) == Ltr(m)
enable_int(m) == Sti(UnmaskIrqs(m, {0, 1}))
setMSR(m, r, v) == Wrmsr(m, r, v)

\* The word the build left for p_rdtr goes to the top of the user's stack, the
\* selectors and the entry point on the boot stack, and lret drops to ring 3.
return_gate(m) == Lret(Access(m, {PH_PAGE(USER_ESP), TextPage, StackPage(m.esp)}), USER_ESP)

\* The boot stack starts five words below protected_tasks[5].
set_seg_regsBug(m) == MovEsp(m, protected_tasks(2) - 1)
set_seg_regs(m) == MovEsp(m, protected_tasks(5) - 1)

setGdt(m) == set_gdt_reg(Access(m, {GDT_PAGE}))
setTSS(m) == set_task_reg([m EXCEPT !.esp0 = INITIAL_ESP])

setInterruptHandler(m, v, handler, pl) ==
  [m EXCEPT !.gates = Put(@, v, [handler |-> handler, dpl |-> pl])]

\* libzeos.a: default routines for the exceptions of the processor.
set_handlers(m) ==
  [m EXCEPT !.gates = Over([v \in 0 .. 17 |-> [handler |-> "exception", dpl |-> 0]], @)]

setSysenter(m) ==
  setMSR(setMSR(setMSR(m, 372, "__KERNEL_CS"), 373, INITIAL_ESP), 374, "system_call_handler")

setIdt(m) ==
  LET clk == setInterruptHandler(set_handlers(m), 32, "clock_handler", 0)
      kbd == setInterruptHandler(clk, 33, "keyboard_handler", 0)
  IN set_idt_reg(setSysenter(kbd))

(***************************************************************************)
(* Memory.                                                                 *)
(***************************************************************************)
GuardsBug == {PH_PAGE(protected_tasks(0)), PH_PAGE(protected_tasks(10))}
Guards == {PH_PAGE(protected_tasks(0)), PH_PAGE(protected_tasks(11))}

init_table_pages(m) ==
  [m EXCEPT !.tabs = [j \in 0 .. NR_TASKS - 1 |->
     [p \in 0 .. TOTAL_PAGES - 1 |->
        IF p \in 1 .. NUM_PAG_KERNEL - 1
        THEN [PTE(p, FALSE, TRUE) EXCEPT !.present = p \notin Guards]
        ELSE ZeroEntry]]]

init_dir_pages(m) ==
  [m EXCEPT !.dirs = [i \in 0 .. NR_TASKS - 1 |->
     << [table |-> i, user |-> TRUE, rw |-> TRUE] >>]]

init_frames(m) == [m EXCEPT !.phys_mem = 0 .. NUM_PAG_KERNEL - 1]

\* alloc_frame looks at every other frame: the holes are intended.
Allocatable(m) == {i \in NUM_PAG_KERNEL .. TOTAL_PAGES - 1 :
                     (i - NUM_PAG_KERNEL) % 2 = 0 /\ i \notin m.phys_mem}
alloc_frameBug(m, n) == NthFree(Allocatable(m), IF n > 2 THEN n - 1 ELSE n)
alloc_frame(m, n) == NthFree(Allocatable(m), n)

get_DIR(m, t) == m.pcb[t].dir
get_PT(m, t) == m.dirs[get_DIR(m, t)][1].table
set_cr3(m, d) == MovCr3(m, d)
set_pe_flag(m) == OrCr0PG(m)

allocate_DIR(m, t) == [m EXCEPT !.pcb[t].dir = t]

set_user_pagesBug(m, t) ==
  LET pages == PAG_LOG_INIT_CODE .. PAG_LOG_INIT_DATA + NUM_PAG_DATA - 1
      frame == [p \in pages |-> alloc_frame(m, p - PAG_LOG_INIT_CODE + 1)]
  IN [m EXCEPT !.phys_mem = @ \cup {frame[p] : p \in pages},
               !.tabs[get_PT(m, t)] = Over([p \in pages |-> PTE(frame[p], TRUE, TRUE)], @)]
\* Code pages are read only for the user, data pages are not.
set_user_pages(m, t) ==
  LET pages == PAG_LOG_INIT_CODE .. PAG_LOG_INIT_DATA + NUM_PAG_DATA - 1
      frame == [p \in pages |-> alloc_frame(m, p - PAG_LOG_INIT_CODE + 1)]
  IN [m EXCEPT !.phys_mem = @ \cup {frame[p] : p \in pages},
               !.tabs[get_PT(m, t)] =
                  Over([p \in pages |-> PTE(frame[p], TRUE, p >= PAG_LOG_INIT_DATA)], @)]

init_mm(m) ==
  LET tables == init_dir_pages(init_frames(init_table_pages(Access(m, {TablesPage}))))
      first == allocate_DIR(tables, 0)
  IN set_pe_flag(set_cr3(first, get_DIR(first, 0)))

(***************************************************************************)
(* Processes.                                                              *)
(***************************************************************************)
init_freequeue(m) ==
  [Access(m, {PcbPage(t) : t \in 0 .. NR_TASKS - 1}) EXCEPT
     !.pcb = [t \in DOMAIN @ |-> [@[t] EXCEPT !.PID = -1]],
     !.freequeue = [i \in 1 .. NR_TASKS |-> i - 1]]

init_sched(m) == [init_freequeue(m) EXCEPT !.readyqueue = << >>]

\* The idle task starts at cpu_idle, whose address is the last word of its stack.
init_idle(m) ==
  LET t == Head(m.freequeue) IN
  allocate_DIR([Access(m, {PcbPage(t)}) EXCEPT
     !.freequeue = Tail(@), !.idle_task = t,
     !.pcb[t].PID = 0, !.pcb[t].quantum = DEFAULT_QUANTUM,
     !.pcb[t].kernel_esp = KERNEL_ESP(t) - 2], t)

init_task1(m) ==
  LET t == Head(m.freequeue)
      pcb == [Access(m, {PcbPage(t)}) EXCEPT
                !.freequeue = Tail(@), !.task1 = t, !.quantum = DEFAULT_QUANTUM,
                !.pcb[t].PID = 1, !.pcb[t].quantum = DEFAULT_QUANTUM, !.pcb[t].state = "ST_RUN"]
      space == set_user_pages(allocate_DIR(pcb, t), t)
      stack == setMSR([space EXCEPT !.esp0 = KERNEL_ESP(t)], 373, KERNEL_ESP(t))
  IN set_cr3(stack, get_DIR(stack, t))

keyboard_init(m) == [m EXCEPT !.kbuf = TRUE]
copy_data(m) == CopyImage(m, PAG_LOG_INIT_CODE)

(***************************************************************************)
(* The clock calls schedule() on the task whose stack it interrupted.      *)
(* With no process ready there is no switch; a used up quantum is renewed  *)
(* from the PCB under that stack.                                          *)
(***************************************************************************)
current(m) == TaskAt(StackPage(IF m.mode = "user" THEN m.esp0 ELSE m.esp))
clock_routine(m) ==
  LET q == m.quantum - 1 IN
  [m EXCEPT !.ticks = @ + 1,
            !.quantum = IF q = 0 THEN m.pcb[current(m)].quantum ELSE q]

main == << "set_eflags", "set_seg_regs", "setGdt", "setIdt", "setTSS", "init_mm",
           "init_sched", "init_idle", "init_task1", "keyboard_init", "copy_data",
           "enable_int", "return_gate" >>

Call(f, m) ==
  CASE f = "set_eflags" -> set_eflags(m)
    [] f = "set_seg_regs" -> set_seg_regs(m)
    [] f = "setGdt" -> setGdt(m)
    [] f = "setIdt" -> setIdt(m)
    [] f = "setTSS" -> setTSS(m)
    [] f = "init_mm" -> init_mm(m)
    [] f = "init_sched" -> init_sched(m)
    [] f = "init_idle" -> init_idle(m)
    [] f = "init_task1" -> init_task1(m)
    [] f = "keyboard_init" -> keyboard_init(m)
    [] f = "copy_data" -> copy_data(m)
    [] f = "enable_int" -> enable_int(m)
    [] f = "return_gate" -> return_gate(m)
=============================================================================
