----------------------------- MODULE KernelBase -----------------------------
(***************************************************************************)
(* The boot code of the base kernel of the course (src/zeos), where PCBs,  *)
(* page directories and page tables live in frames taken with alloc_frame, *)
(* and a directory has two entries: the system pages and the user pages.   *)
(* Directories, tables and PCBs are named by the frame they live in.       *)
(***************************************************************************)
EXTENDS Cpu

L_USER_START == TOTAL_PAGES * PAGE          \* 0x400000, the second directory entry
PAG_LOG_INIT_DATA == PH_PAGE(L_USER_START)
PAG_LOG_INIT_CODE == PAG_LOG_INIT_DATA + NUM_PAG_DATA
USER_ESP == L_USER_START + NUM_PAG_DATA * PAGE

KERNEL_ESP(frame) == (frame + 1) * PAGE
INITIAL_ESP == KERNEL_START + PAGE          \* the end of initial_stack, in the data of the kernel

\* hardware.S
set_eflags(m) == Popfl0(m)
set_idt_reg(m) == Lidt(m)
set_gdt_reg(m) == Lgdt(m)
set_task_reg(m) == Ltr(m)
writeMSR(m, r, v) == Wrmsr(m, r, v)
set_cr3(m, d) == MovCr3(m, d)
enable_int(m) == Sti(UnmaskIrqs(m, {0, 1}))
set_seg_regs(m) == MovEsp(m, INITIAL_ESP - 1)
return_gate(m) == Lret(Access(m, {StackPage(USER_ESP), TextPage, StackPage(m.esp)}), USER_ESP - 1)

\* interrupt.c
setInterruptHandler(m, v, handler, pl) ==
  [m EXCEPT !.gates = Put(@, v, [handler |-> handler, dpl |-> pl])]
setTrapHandler(m, v, handler, pl) ==
  [m EXCEPT !.gates = Put(@, v, [handler |-> handler, dpl |-> pl])]
set_handlers(m) ==
  [m EXCEPT !.gates = Over([v \in 0 .. 17 |-> [handler |-> "exception", dpl |-> 0]], @)]

setIdt(m) ==
  LET clk == setInterruptHandler(set_handlers(m), 32, "clock_handler", 0)
      kbd == setInterruptHandler(clk, 33, "keyboard_handler", 0)
      pf == setInterruptHandler(kbd, 14, "my_page_fault_handler", 0)
  IN set_idt_reg(setTrapHandler(pf, 128, "system_call_handler", 3))

clock_routine(m) == [m EXCEPT !.ticks = @ + 1]

\* mm.c
setGdt(m) == set_gdt_reg(Access(m, {GDT_PAGE}))
setTSS(m) == set_task_reg([m EXCEPT !.esp0 = INITIAL_ESP])

clear_page_table == ZeroTable
set_ss_pag(pt, p, frame, user) == [pt EXCEPT ![p] = PTE(frame, user, TRUE)]

init_frames(m) ==
  [m EXCEPT !.phys_mem = (m.first_kernel .. m.last_kernel - 1) \cup {GDT_PAGE, SCREEN_PAGE}]

\* init_mm turns no paging on, and nothing that main() calls later does.
init_mm(m) ==
  init_frames([m EXCEPT
    !.first_kernel = PH_PAGE(KERNEL_START),
    !.last_kernel = PH_PAGE(KERNEL_START + m.sys_size + m.usr_size) + 1])

\* The nth frame a function takes, and the machine after it took n.
alloc_frame(m, n) == NthFree((m.last_kernel .. TOTAL_PAGES - 1) \ m.phys_mem, n)
Taking(m, n) == [m EXCEPT !.phys_mem = @ \cup {alloc_frame(m, i) : i \in 1 .. n}]

set_kernel_pages(m, pt) ==
  LET ps == (m.first_kernel .. m.last_kernel - 1) \cup {GDT_PAGE, SCREEN_PAGE}
  IN Over([p \in ps |-> PTE(p, FALSE, TRUE)], pt)

\* Indices of the user table: data from 0, code, which gets its frames first,
\* from NUM_PAG_DATA; the caller has taken n frames before.
set_user_pages(m, n, pt) ==
  LET frame == [p \in 0 .. NUM_PAG_DATA + NUM_PAG_CODE - 1 |->
                  alloc_frame(m, n + IF p < NUM_PAG_DATA THEN NUM_PAG_CODE + p + 1
                                     ELSE p - NUM_PAG_DATA + 1)]
  IN Over([p \in DOMAIN frame |-> PTE(frame[p], TRUE, p < NUM_PAG_DATA)], pt)

\* sched.c
init_sched(m) == [m EXCEPT !.readyqueue = << >>]

\* init_task is still NULL: get_PT reads the directory address out of the
\* interrupt vectors of the BIOS, so entry 0 of the new directory is garbage and
\* the two table entries are written through a garbage pointer, over page hit or
\* where there is no memory (hit = None).  Over the kernel, the image behind it or
\* the GDT the write is recorded in wild: nothing can be said of the machine from
\* there on.  Elsewhere nobody reads it: a frame is filled before it is used.
init_idle(m, hit) ==
  LET dir == alloc_frame(m, 1)
      pcb == alloc_frame(m, 2)
      garbage == << [table |-> None, user |-> FALSE, rw |-> FALSE] >>
      used == (m.first_kernel .. m.last_kernel - 1) \cup {GDT_PAGE}
  IN [Taking(m, 2) EXCEPT
        !.dirs = Put(@, dir, garbage), !.wild = IF hit \in used THEN hit ELSE None,
        !.idle_task = pcb,
        !.pcb = Put(@, pcb, [PID |-> 0, dir |-> dir, state |-> "ST_READY", quantum |-> 0,
                             kernel_esp |-> KERNEL_ESP(pcb) - 2])]

init_task1(m) ==
  LET dir == alloc_frame(m, 1)
      spt == alloc_frame(m, 2)
      upt == alloc_frame(m, 3)
      pcb == alloc_frame(m, 4)
      kern == set_kernel_pages(m, clear_page_table)
      user == set_user_pages(m, 4, clear_page_table)
      own == set_ss_pag(set_ss_pag(set_ss_pag(set_ss_pag(kern,
               dir, dir, FALSE), spt, spt, FALSE), upt, upt, FALSE), pcb, pcb, FALSE)
      entries == << [table |-> spt, user |-> FALSE, rw |-> TRUE],
                    [table |-> upt, user |-> TRUE, rw |-> TRUE] >>
      task == [PID |-> 1, dir |-> dir, state |-> "ST_RUN", quantum |-> 0, kernel_esp |-> 0]
      stack == [Taking(m, 4 + NUM_PAG_CODE + NUM_PAG_DATA) EXCEPT
                  !.tabs = Put(Put(@, spt, own), upt, user),
                  !.dirs = Put(@, dir, entries), !.pcb = Put(@, pcb, task),
                  !.esp0 = KERNEL_ESP(pcb), !.task1 = pcb]
  IN set_cr3(writeMSR(stack, 373, KERNEL_ESP(pcb)), dir)

\* utils.c, io.c, system.c
copy_data(m) == CopyImage(m, PAG_LOG_INIT_DATA)
clear_screen(m) == Access([m EXCEPT !.ticks = 0], {SCREEN_PAGE})
sysenter_msrs(m) ==
  writeMSR(writeMSR(writeMSR(m, 372, "__KERNEL_CS"), 373, INITIAL_ESP),
           374, "syscall_handler_sysenter")

main == << "set_eflags", "set_seg_regs", "setGdt", "setIdt", "setTSS", "sysenter_msrs",
           "init_mm", "init_sched", "init_idle", "init_task1", "copy_data", "clear_screen",
           "enable_int", "return_gate" >>

Call(f, m, hit) ==
  CASE f = "set_eflags" -> set_eflags(m)
    [] f = "set_seg_regs" -> set_seg_regs(m)
    [] f = "setGdt" -> setGdt(m)
    [] f = "setIdt" -> setIdt(m)
    [] f = "setTSS" -> setTSS(m)
    [] f = "sysenter_msrs" -> sysenter_msrs(m)
    [] f = "init_mm" -> init_mm(m)
    [] f = "init_sched" -> init_sched(m)
    [] f = "init_idle" -> init_idle(m, hit)
    [] f = "init_task1" -> init_task1(m)
    [] f = "copy_data" -> copy_data(m)
    [] f = "clear_screen" -> clear_screen(m)
    [] f = "enable_int" -> enable_int(m)
    [] f = "return_gate" -> return_gate(m)
=============================================================================
