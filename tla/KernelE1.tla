------------------------------ MODULE KernelE1 ------------------------------
(***************************************************************************)
(* The boot code of the E1_E2 kernel.  The PCBs are task[0..9] with no     *)
(* guard pages, the free list is filled with list_add, so that task[9] is  *)
(* its head, the data pages come before the code pages, and main() still   *)
(* builds the address space of the single-process system.                  *)
(***************************************************************************)
EXTENDS Cpu

DEFAULT_QUANTUM == 100
L_USER_START == NUM_PAG_KERNEL * PAGE
PAG_LOG_INIT_DATA == PH_PAGE(L_USER_START)
PAG_LOG_INIT_CODE == PAG_LOG_INIT_DATA + NUM_PAG_DATA
USER_ESP == L_USER_START + NUM_PAG_DATA * PAGE - 1

task(i) == (FirstTaskPage + i) * PAGE
PcbPage(t) == PH_PAGE(task(t))
KERNEL_ESP(t) == task(t) + PAGE
INITIAL_ESP == KERNEL_ESP(1)
TaskAt(page) == page - FirstTaskPage

\* hardware.c
set_eflags(m) == Popfl0(m)
set_idt_reg(m) == Lidt(m)
set_gdt_reg(m) == Lgdt(m)
set_task_reg(m) == Ltr(m)
enable_int(m) == Sti(UnmaskIrqs(m, {0, 1}))
return_gate(m) == Lret(Access(m, {PH_PAGE(USER_ESP), TextPage, StackPage(m.esp)}), USER_ESP)

\* interrupt.c
setInterruptHandler(m, v, handler, pl) ==
  [m EXCEPT !.gates = Put(@, v, [handler |-> handler, dpl |-> pl])]
\* An interrupt gate too: system calls run with interrupts off.
setTrapHandler(m, v, handler, pl) ==
  [m EXCEPT !.gates = Put(@, v, [handler |-> handler, dpl |-> pl])]
set_handlers(m) ==
  [m EXCEPT !.gates = Over([v \in 0 .. 17 |-> [handler |-> "exception", dpl |-> 0]], @)]

setIdt(m) ==
  LET kbd == setInterruptHandler(set_handlers(m), 33, "keyboard_handler", 0)
      clk == setInterruptHandler(kbd, 32, "clock_handler", 0)
      pf == setInterruptHandler(clk, 14, "my_page_fault_handler", 0)
      sys == setTrapHandler(pf, 128, "system_call_handler", 3)
  IN set_idt_reg(Wrmsr(Wrmsr(Wrmsr(sys, 372, "__KERNEL_CS"), 373, INITIAL_ESP),
                       374, "syscall_handler_sysenter"))

clock_routine(m) == [m EXCEPT !.ticks = @ + 1]

\* mm.c
setGdt(m) == set_gdt_reg(Access(m, {GDT_PAGE}))
setTSS(m) == set_task_reg([m EXCEPT !.esp0 = INITIAL_ESP])

init_table_pages(m) ==
  [m EXCEPT !.tabs = [j \in 0 .. NR_TASKS - 1 |->
     [p \in 0 .. TOTAL_PAGES - 1 |->
        IF p \in 1 .. NUM_PAG_KERNEL - 1 THEN PTE(p, FALSE, TRUE) ELSE ZeroEntry]]]
init_dir_pages(m) ==
  [m EXCEPT !.dirs = [i \in 0 .. NR_TASKS - 1 |->
     << [table |-> i, user |-> TRUE, rw |-> TRUE] >>]]
init_frames(m) == [m EXCEPT !.phys_mem = 0 .. NUM_PAG_KERNEL - 1]

alloc_frame(m, n) ==
  NthFree({i \in NUM_PAG_KERNEL .. TOTAL_PAGES - 1 :
             (i - NUM_PAG_KERNEL) % 2 = 0 /\ i \notin m.phys_mem}, n)

get_DIR(m, t) == m.pcb[t].dir
get_PT(m, t) == m.dirs[get_DIR(m, t)][1].table
allocate_DIR(m, t) == [m EXCEPT !.pcb[t].dir = t]
set_cr3(m, d) == MovCr3(m, d)
set_pe_flag(m) == OrCr0PG(m)

\* The code pages get their frames first, though they are mapped last.
set_user_pages(m, t) ==
  LET code == PAG_LOG_INIT_CODE .. PAG_LOG_INIT_CODE + NUM_PAG_CODE - 1
      data == PAG_LOG_INIT_DATA .. PAG_LOG_INIT_DATA + NUM_PAG_DATA - 1
      frame == [p \in code \cup data |->
                  alloc_frame(m, IF p \in code THEN p - PAG_LOG_INIT_CODE + 1
                                 ELSE NUM_PAG_CODE + p - PAG_LOG_INIT_DATA + 1)]
  IN [m EXCEPT !.phys_mem = @ \cup {frame[p] : p \in code \cup data},
               !.tabs[get_PT(m, t)] =
                  Over([p \in code \cup data |-> PTE(frame[p], TRUE, p \in data)], @)]

init_mm(m) ==
  LET tables == init_dir_pages(init_frames(init_table_pages(Access(m, {TablesPage}))))
      first == allocate_DIR(tables, 0)
  IN set_pe_flag(set_cr3(first, get_DIR(first, 0)))

\* libzeos.a: user pages for task[0], whose directory init_mm activated.
monoprocess_init_addr_space(m) ==
  LET space == set_user_pages(m, 0) IN set_cr3(space, get_DIR(space, 0))

\* sched.c
init_sched(m) ==
  [Access(m, {PcbPage(t) : t \in 0 .. NR_TASKS - 1}) EXCEPT
     !.freequeue = [i \in 1 .. NR_TASKS |-> NR_TASKS - i], !.readyqueue = << >>,
     !.quantum = DEFAULT_QUANTUM]

init_idle(m) ==
  LET t == Head(m.freequeue) IN
  allocate_DIR([Access(m, {PcbPage(t)}) EXCEPT
     !.freequeue = Tail(@), !.idle_task = t,
     !.pcb[t].PID = 0, !.pcb[t].quantum = DEFAULT_QUANTUM, !.pcb[t].state = "ST_READY",
     !.pcb[t].kernel_esp = KERNEL_ESP(t) - 2], t)

init_task1(m) ==
  LET t == Head(m.freequeue)
      pcb == [Access(m, {PcbPage(t)}) EXCEPT
                !.freequeue = Tail(@), !.task1 = t,
                !.pcb[t].PID = 1, !.pcb[t].quantum = DEFAULT_QUANTUM, !.pcb[t].state = "ST_RUN"]
      space == set_user_pages(allocate_DIR(pcb, t), t)
      stack == Wrmsr([space EXCEPT !.esp0 = KERNEL_ESP(t)], 373, KERNEL_ESP(t))
  IN set_cr3(stack, get_DIR(stack, t))

\* utils.c, io.c, system.c
copy_data(m) == CopyImage(m, PAG_LOG_INIT_DATA)
clear_screen(m) == Access(m, {SCREEN_PAGE})
set_seg_regs(m) == MovEsp(m, task(4) - 1)

main == << "set_eflags", "set_seg_regs", "setGdt", "setIdt", "setTSS", "init_mm",
           "monoprocess_init_addr_space", "init_sched", "init_idle", "init_task1",
           "copy_data", "clear_screen", "enable_int", "return_gate" >>

Call(f, m) ==
  CASE f = "set_eflags" -> set_eflags(m)
    [] f = "set_seg_regs" -> set_seg_regs(m)
    [] f = "setGdt" -> setGdt(m)
    [] f = "setIdt" -> setIdt(m)
    [] f = "setTSS" -> setTSS(m)
    [] f = "init_mm" -> init_mm(m)
    [] f = "monoprocess_init_addr_space" -> monoprocess_init_addr_space(m)
    [] f = "init_sched" -> init_sched(m)
    [] f = "init_idle" -> init_idle(m)
    [] f = "init_task1" -> init_task1(m)
    [] f = "copy_data" -> copy_data(m)
    [] f = "clear_screen" -> clear_screen(m)
    [] f = "enable_int" -> enable_int(m)
    [] f = "return_gate" -> return_gate(m)
=============================================================================
