----------------------------- MODULE KernelEx2 ------------------------------
(***************************************************************************)
(* The boot code of the second exam kernel (so2_old/EXAM/Ex2/zeos).  Its   *)
(* hardware.c, mm.c, sched.c and utils.c are the game kernel's line for    *)
(* line, so their functions are the operators of KernelGame under the      *)
(* names of this kernel; interrupt.c and system.c are its own: there is no *)
(* event buffer to reset.                                                  *)
(***************************************************************************)
EXTENDS Cpu

Game == INSTANCE KernelGame

\* hardware.c
set_eflags(m) == Game!set_eflags(m)
set_idt_reg(m) == Game!set_idt_reg(m)
return_gate(m) == Game!return_gate(m)
enable_int(m) == Game!enable_int(m)

\* mm.c
init_table_pages(m) == Game!init_table_pages(m)
init_dir_pages(m) == Game!init_dir_pages(m)
init_frames(m) == Game!init_frames(m)
set_cr3(m, d) == Game!set_cr3(m, d)
set_pe_flag(m) == Game!set_pe_flag(m)
set_user_pages(m, t) == Game!set_user_pages(m, t)
setGdt(m) == Game!setGdt(m)
setTSS(m) == Game!setTSS(m)

init_mm(m) ==
  LET tables == init_dir_pages(init_frames(init_table_pages(Access(m, {TablesPage}))))
      first == Game!allocate_DIR(tables, 0)
  IN set_pe_flag(set_cr3(first, Game!get_DIR(first, 0)))

\* sched.c
init_freequeue(m) == Game!init_freequeue(m)
init_sched(m) == [init_freequeue(m) EXCEPT !.readyqueue = << >>]
init_idle(m) == Game!init_idle(m)

init_task1(m) ==
  LET t == Head(m.freequeue)
      pcb == [Access(m, {Game!PcbPage(t)}) EXCEPT
                !.freequeue = Tail(@), !.task1 = t, !.quantum = Game!DEFAULT_QUANTUM,
                !.pcb[t].PID = 1, !.pcb[t].quantum = Game!DEFAULT_QUANTUM, !.pcb[t].state = "ST_RUN"]
      space == set_user_pages(Game!allocate_DIR(pcb, t), t)
      stack == Wrmsr([space EXCEPT !.esp0 = Game!KERNEL_ESP(t)], 373, Game!KERNEL_ESP(t))
  IN set_cr3(stack, Game!get_DIR(stack, t))

\* utils.c
copy_data(m) == Game!copy_data(m)

\* interrupt.c
setInterruptHandler(m, v, handler, pl) ==
  [m EXCEPT !.gates = Put(@, v, [handler |-> handler, dpl |-> pl])]

setSysenter(m) ==
  Wrmsr(Wrmsr(Wrmsr(m, 372, "__KERNEL_CS"), 373, Game!INITIAL_ESP), 374, "system_call_handler")

setIdt(m) ==
  LET clk == setInterruptHandler(Game!set_handlers(m), 32, "clock_handler", 0)
  IN set_idt_reg(setSysenter(setInterruptHandler(clk, 33, "keyboard_handler", 0)))

clock_routine(m) == Game!clock_routine(m)

\* system.c
set_seg_regs(m) == MovEsp(m, Game!protected_tasks(5) - 1)

main == << "set_eflags", "set_seg_regs", "setGdt", "setIdt", "setTSS", "init_mm",
           "init_sched", "init_idle", "init_task1", "copy_data", "enable_int", "return_gate" >>

Call(f, m) ==
  CASE f = "set_eflags" -> set_eflags(m)
    [] f = "set_seg_regs" -> set_seg_regs(m)
    [] f = "setGdt" -> setGdt(m)
    [] f = "setIdt" -> setIdt(m)
    [] f = "setTSS" -> setTSS(m)
    [] f = "init_mm" -> init_mm(m)
    [] f = "init_sched" -> init_sched(m)
    [] f = "init_idle" -> init_idle(m)
    [] f = "init_task1" -> init_task1(m)
    [] f = "copy_data" -> copy_data(m)
    [] f = "enable_int" -> enable_int(m)
    [] f = "return_gate" -> return_gate(m)
=============================================================================
