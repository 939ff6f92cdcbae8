----------------------------- MODULE ZeosSwitch -----------------------------
(***************************************************************************)
(* The context switch of the ZeOS kernel (so2_old/GAME/zeos): ZeosProc     *)
(* with the kernel stacks.  task_switch makes the CPU enter the kernel on  *)
(* the new process's stack (TSS and MSR), loads its page directory, saves  *)
(* the stack pointer of the process it leaves in register_esp and pops the *)
(* one of the new process.  What matters of a saved stack pointer is the   *)
(* path through the kernel whose frames it points to.                      *)
(*                                                                         *)
(* The kernel of the second exam (so2_old/EXAM/Ex2/zeos) has the same text *)
(* of sched.c, mm.c, fork, exit and yield: the module models both.         *)
(***************************************************************************)
EXTENDS ZeosProc

VARIABLES
    register_esp,   \* field of task[t]: the path it last left the CPU on
    esp0,           \* whose kernel stack TSS.esp0 and MSR 0x175 point to
    cr3,            \* the page table the CPU translates with
    lost            \* the CPU has popped a stack pointer to overwritten frames

cpu == <<register_esp, esp0, cr3, lost>>
swVars == <<vars, cpu>>

\* zero: a PCB that never left the CPU; cpu_idle and ret_from_fork: the frames
\* init_idle and fork forge; the others: the handler that called task_switch.
Paths == {"zero", "cpu_idle", "ret_from_fork", "clock", "yield", "exit"}

SwInit ==
    /\ Init
    /\ register_esp = [t \in Tasks |-> IF t = idle_task THEN "cpu_idle" ELSE "zero"]
    /\ esp0 = task1 /\ cr3 = dir[task1]
    /\ lost = FALSE

InnerSwitchBug(t) == esp0' = t /\ UNCHANGED cr3
\* inner_task_switch before it changes the stack.
InnerSwitch(t) == esp0' = t /\ cr3' = dir[t]

\* task_switch(current') called on the kernel path p.  inner_task_switch reads
\* the new register_esp before switch_stack saves the old one: a process that
\* is switched to itself pops the pointer of an earlier switch, and the frames
\* there have been overwritten unless it came the same way.
TaskSwitch(p) ==
    /\ InnerSwitch(current')
    /\ register_esp' = [register_esp EXCEPT ![current] = p]
    /\ lost' = (current' = current /\ register_esp[current] # p)

SwClockSwitch == ~lost /\ ClockSwitch /\ TaskSwitch("clock")
SwYield == ~lost /\ sys_yield /\ TaskSwitch("yield")
SwExit == ~lost /\ sys_exit /\ TaskSwitch("exit")

\* The copy of the parent's task_union brings its register_esp along.
SwForkBegin ==
    /\ ~lost /\ ForkBegin
    /\ register_esp' = [register_esp EXCEPT ![child'] = register_esp[current]]
    /\ UNCHANGED <<esp0, cr3, lost>>

ChildContextBug(t) == UNCHANGED register_esp
\* fork forges the frames on which the child returns 0 through ret_from_fork.
ChildContext(t) == register_esp' = [register_esp EXCEPT ![t] = "ret_from_fork"]

SwForkEnd ==
    /\ ~lost /\ ForkEnd
    /\ ChildContext(child)
    /\ cr3' = dir[current]
    /\ UNCHANGED <<esp0, lost>>

SwClockStay == ~lost /\ ClockStay /\ UNCHANGED cpu

\* The rest of fork touches neither the stacks nor the registers.
SwForkOther ==
    /\ ~lost
    /\ \/ ForkNoTask \/ ForkAlloc \/ ForkNoFrame
       \/ ForkShareCode \/ ForkCopyPage
    /\ UNCHANGED cpu

\* The CPU runs on garbage: no handler of the kernel is modelled any more.
SwLost == lost /\ UNCHANGED swVars

SwNext == \/ SwClockSwitch \/ SwClockStay \/ SwYield \/ SwExit
          \/ SwForkBegin \/ SwForkOther \/ SwForkEnd \/ SwLost

SwSpec == SwInit /\ [][SwNext]_swVars

-----------------------------------------------------------------------------
SwTypeOK ==
    /\ register_esp \in [Tasks -> Paths]
    /\ esp0 \in Tasks
    /\ cr3 \in Tasks
    /\ lost \in BOOLEAN

\* Every process that may be given the CPU has a context to return to: one a
\* handler saved or one that init_idle or fork forged, never the frames of an
\* exit, a register_esp copied from the parent, or the zero of a fresh PCB.
ResumeSound ==
    /\ \A t \in Waiting : register_esp[t] \in {"ret_from_fork", "clock", "yield"}
    /\ current # idle_task => register_esp[idle_task] = "cpu_idle"

\* In user mode the CPU translates with the table of the running process and
\* will enter the kernel on its stack (current() is computed from esp).
RunsOnOwnStack == esp0 = current /\ cr3 = dir[current]

\* The one switch that does not restore a context is a yield with nobody else
\* ready; the clock, exit and any other yield always resume a saved one.
OnlyLoneYieldLoses ==
    [][~lost /\ lost' => sys_yield /\ readyqueue = <<>>]_swVars

\* The inductive invariant of the proofs, beside ZeosProc's SchedInv.
SwInv == SwTypeOK /\ ResumeSound /\ RunsOnOwnStack

\* Zeos.txt says that inner_task_switch restores the new process in the state
\* it had before: the CPU never continues on overwritten frames.
ContextKept == ~lost
=============================================================================
