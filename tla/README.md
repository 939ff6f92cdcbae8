# A verification project for the ZeOS kernels

The repository holds several versions of ZeOS, a small 32-bit x86 teaching kernel:
`src/zeos` (the base the course hands out), `src/so2_old/E1_E2/zeos` (a student's
process management with block, unblock and children), `src/so2_old/EXAM/Ex1` and
`Ex2`, and `src/so2_old/GAME/zeos`, the most complete one. `Zeos.txt` is the course's
description of what the kernel should do. In GAME and Ex2 `sched.c` and the process
calls of `sys.c` are the same text, so the models of process management are models of
both (the map points to the one for some definitions and to the other for the rest).
Where the kernels differ, in boot, memory, write, dispatch and keyboard, each has
definitions of its own.

## Inventory

### The system's parts

| part | state | operations | talks to |
|---|---|---|---|
| process management (GAME `sched.c`, `sys.c`) | `task[]` (PID, state, quantum, directory), `freequeue`, `readyqueue`, `remaining_quantum`, `global_PID` | fork, exit, yield, `schedule` from the clock, idle | lists, frames, context switch, statistics |
| frames and page tables (`mm.c`) | `phys_mem` byte map, one page table per PCB | `alloc_frame`, `free_frame`, `set_ss_pag`, `del_ss_pag`, `get_frame`, `allocate_DIR`, `set_user_pages` | fork, exit |
| context switch (`inner_task_switch`, `kernel-utils.S`) | kernel stacks, `register_esp`, TSS, MSR 0x175, cr3 | `task_switch`, `switch_stack`, the stacks forged by `init_idle` and fork | scheduler |
| statistics (`p_stats.c`, `entry.S`) | `p_stats` of each PCB, the time-stamp counter | `init_stats`, `update_stats` on every change of mode or process, `get_stats` | interrupt handlers, scheduler |
| keyboard (`interrupt.c`) | the ring `k_buffer` | `keyboard_routine` stores, `clock_routine` takes and shows | interrupts, console |
| console (`io.c`, `devices.c`) | cursor `x`, `y`, the screen | `printc`, `printc_xy`, `printk`, `sys_write_console` | write, keyboard, clock |
| system calls (`entry.S`, `sys_call_table.S`, `sys.c`) | number and arguments, `bytes_left`, the local buffer | dispatch, tests, loop over chunks, return | user memory, console |
| user memory (`utils.c`) | page numbers of a block | `access_ok`, `copy_from_user`, `copy_to_user` | system calls |
| C library (`libc.c`, wrappers) | `errno` | `itoa`, `strlen`, `perror` | write |
| lists (`list.c`) | `next`, `prev` of every `list_head` | add, add_tail, del, empty, is_last, first, for_each | everything that queues PCBs |
| process management of E1_E2 | the same lists plus `blocked`, `kids`, `parent`, `pending_unblocks` | fork, exit, block, unblock | lists |
| memory of E1_E2 | `phys_mem`, tables, the TLB | `init_child_address_space`, exit, `alloc_frame` | fork, exit, switch |
| image and boot (`build.c`, `bootsect.S`, `system.c`, `mm.c`, `hardware.c`) | the image; GDT, IDT, TSS, cr3, cr0, MSRs, EFLAGS, frames, tables, PCBs | build, load, `main()` call by call | all of the above start from what it leaves |
| pipes of Ex1, binary libraries | | | not modelled, see below |

Interrupts are off in the kernel: the interrupt gates and sysenter clear IF and no
handler sets it before it returns. A handler is therefore atomic, and what is hard
is not two handlers inside one another but

* *sequences* of legal calls: lists, states and counters that must agree after any
  order of ticks, forks, exits and yields (a wrong state is noticed several calls later);
* *resources at their limit*: the last PCB, the last frame, a full ring, a quantum of zero;
* *failure half way*: fork gives up in the middle of its allocation loop;
* *stale copies*: fork starts from a copy of the parent's whole PCB and stack;
* *the switch itself*: for a few instructions the TSS, the MSR, cr3 and the stack
  pointer belong to different processes;
* *fairness*: every ready process must get the CPU, and a full ring must drain;
* *the window in `main()`* between `enable_int` and `return_gate`, where interrupts
  arrive on the boot stack;
* *stale translations*: fork maps and unmaps frames behind the parent's pages while the
  TLB remembers;
* *edges of numbers*: the page of `addr + size`, the length of the system call table,
  chunks, rows and the screen that are exactly full.

`PROJECT.json` lists these as hazards at their lines, with the properties that would
notice. What makes each part correct: a PCB is in one place; a frame has one owner
and is never lost; nobody runs on another's page table or stack; whoever is switched
to has a context to resume; the counters add up; events come out as they went in;
the links of a list are the list; waiting is bounded; text appears once, in order and
where the last one ended; the machine that enters user mode is the one the process
needs; a process sees its own stores and nobody else's.

## The modules

| module | models | how |
|---|---|---|
| `ZeosProc` | GAME process management, frames, page tables | lists are sequences of PCBs; `exit`, `yield` and the clock are one action each; fork is a step per turn of its loops (`kpath`, `child`, `pag` say where it is) and nothing else is enabled until it returns |
| `ProcLife`, `ZeosProcRefines` | the abstract life of a process: free, new, ready, running, owning frames of a pool | refinement mapping from the lists and page tables |
| `ZeosSwitch` | the same kernel with kernel stacks | every action of `ZeosProc` with what it does to `register_esp`, TSS and cr3; a stack pointer is the kernel path whose frames it points to |
| `ZeosStats` | the same kernel with its accounting | `truth` is an observer with a clock; `get_ticks` may advance or stand still between any two readings |
| `Console` | `io.c`, `devices.c` | a console is a record, each function maps one to the next; `port` and `shown` collect what a call put out |
| `UserAccess` | `utils.c` | `access_ok` of three kernels on an address space that wraps; copies by words and bytes |
| `Terminal` | a user program's system calls on any of the four kernels: the dispatch of every number, `sys_write`, `pollEvent`, `get_stats`, the answers of the calls on processes, `perror`, with the keyboard and the clock | composes `Keyboard`, `Console` and `UserAccess`; a write is a step per chunk and per character, so that an interrupt could come in between if the gates let it; `start` notes where the last text ended; what fork, exit, yield, block and unblock do to the processes is in `ZeosProc` and `E1Proc` |
| `Cpu` | the registers, segments, paging and interrupt hardware main() works on | a machine is a record, an instruction an operator |
| `Build` | `build.c`, any system call of which may fail | the image is a sequence of cells that know where they come from |
| `KernelGame`, `KernelEx2`, `KernelE1`, `KernelBase` | `main()` of each kernel and everything it calls | each function maps a machine to a machine; `main` is the sequence of calls |
| `Boot` | build, load, `main()`, interrupts | composes the above, one call of `main()` per step; a wild write of the base kernel over memory it uses stops it (`Sound`), and nothing is claimed from there on |
| `E1Memory` | address spaces of E1_E2 | page contents, tables and a TLB that forgets only when cr3 is written; which process runs next is left open |
| `Keyboard`, `KeyFifo` | the ring of key events, and the bounded FIFO it implements | `typed` notes what was done to the keys; held keys repeat |
| `ListHead`, `ListQueues` | `list.c` link by link; several lists under the kernel's discipline | each operation is the heap it leaves, its writes in the order of the code |
| `E1Proc` | process management of E1_E2 | on `ListHead`'s links, because one `list_head` per PCB is used for two lists; a walk that cannot come back to its head, or a wild pointer, sets `hung`; a fork finds its frames or does not; `gone` are the PCBs that hold no process |
| `ZeosProcProofs`, `E1MemoryProofs`, `TerminalProofs`, `ListQueuesProofs`, `E1ProcProofs` | | the theorems about the module of that name |
| `ZeosStatsProofs`, `BootProofs` | | the theorems about `ZeosSwitch` and `ZeosStats`, and about `Build` and `Boot` |
| `ListHeadProofs` | | what `list.c` does to a well-formed list: lemmas for the two modules that use it |
| `MC...` | | what TLC runs |

Definitions keep the source's names where they can. Definitions named `...Bug` are
faulty variants of the one that follows; no specification uses them. They show that a
property would notice the bug they stand for.

What is abstracted: in `ZeosProc` the contents of pages and the flags of entries (`Boot`
and `E1Memory` have them); wording (a message is one character); user code (any order of
system calls and stores). Sizes are small but keep their relations: the array of PCBs has
its guard pages, `alloc_frame` its holes, addresses their wrap-around.

## The runs

| run | question | bounds and why they suffice |
|---|---|---|
| `proc_ample` | do lists, states, quanta, frames, tables and PIDs agree after any sequence? Is waiting bounded? Is the invariant of the proofs true? | 5 PCBs: idle, one running, three that may be ready, free or half forked in any order; memory for all, as shipped; quantum 2, so that a tick may or may not end it; 5 forks reuse every PCB |
| `proc_tight` | fork without memory: is everything rolled back, does every step implement `ProcLife`, does every ready process get the CPU? | 5 PCBs, frames for three processes and one over: alloc fails at the second page of a fork, after the first was mapped |
| `switch_yield` | finding: a lone yield (below) | |
| `stats` | do the counters agree with the observer? Is there always a context to resume, on the right stack and page table? | 4 PCBs, frames for two processes so that fork also fails, 3 time units and 2 switches per process: every kind of switch into every kind of resume |
| `terminal` | does write print exactly its bytes, whatever keys come? Are the blocks the user's? Does every call return? Is the ring a FIFO that drains? | screen of 2 by 2 (rows, the screen and newlines end inside a text), pages of 4 bytes with blocks at, before and across every boundary and round the end of memory, chunks of 4 and 2 with sizes below, at and above, numbers of every call and on both sides of the table's end; ring of 4 slots; scancodes inside and behind `char_map` |
| `boot` | is the image loaded where `main()` looks, does nothing fault, is the machine ready for task 1, and confined where paging is on? | image sizes on both sides of a block, a paragraph and a segment; 11 ticks, one more than the quantum, which `clock_routine` then renews; keys at any time; the wild write of the base kernel hits its text, the GDT or a free frame |
| `e1_memory` | does everybody see his own data and no stale translation, are frames given back? | 4 PCBs, 2 data pages, frames for three processes less one: fork fails at its second page; 2 values |
| `lists` | are the links the lists they are meant to be, both ways? | 4 entries in 3 lists, every arrangement reached |
| `e1_lists` | are the queues of E1_E2 sound while nobody forks twice, are PIDs unique? | 4 PCBs: idle, one running, two that are free or ready in any order; 5 forks, and any number that find no frames |
| `e1_block`, `e1_unblock`, `e1_exit` | findings (below) | 5 PCBs |

Three runs do not check for deadlock. `stats` ends when the modelled time is used up. In
`terminal` and `boot` the machine may stop: a program exits, a fault ends in `while(1)` with interrupts
off, a call of the word behind the table goes anywhere, a build that fails leaves no
image to load, and a base kernel that wrote over itself is not followed any further. `e1_memory` and the others do check it. Bounds appear in guards and have
names: `MaxPID` (fork is not called any more), `MaxTime`, `MaxTrans`, `MaxPending`,
`MaxTicks`.

**Fairness.** `ReadyRuns` assumes strong fairness of the clock and weak fairness of
the steps of a fork. Weak fairness of the clock would not do: a process may spend its
time in forks that fail, and the clock is disabled again and again while it does.
The hardware is better than that: a tick raised while interrupts are off is held by
the interrupt controller and delivered when the call returns to user mode, which is
strong fairness. `RingDrains` rests on the same: weak fairness of the steps of a call,
strong fairness of the tick. `Returns` needs only the first. No fairness is assumed of
processes, users, the build or the boot: they may do nothing for ever.

## Findings

* **A lone yield (GAME, `sched.c:256`).** With nobody else ready, `yield` switches the
  process to itself. `inner_task_switch` reads `new->register_esp` before
  `switch_stack` saves the current stack pointer, so an old one is popped: zero for
  task 1, whose first call may be such a yield. `OnlyLoneYieldLoses`, checked and proved, says that
  this is the only such case: the clock never switches with an empty readyqueue, and exit
  never returns to the process that exits.
* **E1_E2: block does not block** (`sched.c:264`): `schedule()` moves the process
  from `blocked` to the readyqueue.
* **E1_E2: unblock of a child that is not blocked credits the caller** (`sys.c:405`).
* **E1_E2: exit with children never completes** (`sys.c:311`): the loop deletes its own
  cursor.

Not the subject of a run of its own, but found by reading the code for the models, and where a
property has to leave a case out it says so:

* E1_E2: a second fork of a process loses ready processes (`sys.c:229`): the first child's
  only `list_head` is in the readyqueue when it is used as an element of `kids`. `ListsSound`,
  checked and proved, is the complement: without a second fork the queues stay sound, with
  blocks, unblocks and exits in any order.
* E1_E2: the last chunk of a write of more than `BUFFER_SIZE` bytes is printed from the start of
  the user's buffer instead of the kernel's copy (`sys.c:484`, against the comment at
  `sys.c:441-444`). `WriteExact`, checked and proved, excepts the bytes of this chunk: all before
  it, and every other write of the four kernels, come out in order.
* Base: paging is never turned on: `set_pe_flag` (`mm.c:94`) is called nowhere, though
  `Zeos.txt:2387` says that boot has enabled it, `Zeos.txt:2423` that the code provided does,
  and `sched.c:115` that `init_task1` activates an address space. `PagedConfined`, checked and
  proved, says so, and that user mode is confined to its own pages in the other three kernels.
* Base: `init_idle` runs before `init_task1` and reads through `init_task`, which is still NULL
  (`sched.c:39`), so idle does not share the system page table of process 1, as the comment at
  `sched.c:37` says. What lies at address 0 is unknown, so the two entries it writes go to any
  of `WildPages`. Where that is the kernel, the image behind it or the GDT the model does not
  go on, and the properties of boot say nothing; elsewhere nobody reads what was written.
* GAME, Ex2, E1_E2: the number `MAX_SYSCALL` passes the test of the dispatch (`jg`) and calls
  the word behind the table. `Contained`, checked and proved, says that no other number
  does; the base kernel tests with `jge`.
* GAME, Ex2: `access_ok` accepts a block that ends in the page behind the user's
  (`utils.c:82`); the copy then faults and the kernel stops. `Contained` says that nothing
  further away is touched. A block refused for writing is still accepted when it may be
  read (`utils.c:75-83`).
* GAME: `keyboard_buffer`, which `pollEvent` copies (`sys.c:248`), is never written;
  `k_buffer` is declared (`keyboard.h:22`) and defined nowhere.
* E1_E2: the clock never calls `schedule()` (`interrupt.c:136`, against the comment at
  `sched.c:244`); fork gives the child code pages that can be written (`sys.c:122`, against
  the comment at `sys.c:118`); the frames of `monoprocess_init_addr_space` are never freed
  (`system.c:87`).
* GAME: the failing path of fork leaves the parent's PID in the PCB it frees
  (`sys.c:89-102`), where `get_stats` would find it, but with the shipped sizes memory never
  runs out before PCBs (`ForkFindsFrames`). The one of E1_E2 does the same (`sys.c:75-85`,
  `ForkNoFrames` of `E1Proc`), so `PIDsUnique` speaks of processes, not of free PCBs. `get_stats` stores the running process's quantum in whichever record
  it returns (`sys.c:232`).

## The proofs

Each theorem holds for every value of the constants its module's assumptions allow; the
assumptions are evaluated by TLC in the runs.

### Process management (`ZeosProcProofs`)

Assumed: at least two PCBs, at least one kernel, code and data page, room for task 1 and
for fork's temporary pages, a positive quantum.

* `TypeCorrect`, `OnePlaceCorrect`, `StateCorrect`, `IdleCorrect`, `QuantumCorrect`,
  `FramesPrivateCorrect`, `FramesConservedCorrect`, `AddressSpaceCorrect`,
  `PIDCorrect`: the invariants of the same names; `InvCorrect`: the inductive invariant
  `IInv`; `WaitCorrect`: nobody is overtaken, and each tick brings every waiting process
  nearer.
* `ImplementsProcLife`: every step of the lists, page tables and `phys_mem` is a step of
  `ProcLife` under the mapping of `ZeosProcRefines`, or none.
* `ForkFindsFrames`, `PIDLookupCorrect`: under `AmpleMemory`, the hypothesis that every
  second frame behind the kernel's, the ones `alloc_frame` looks at, suffices for the code
  and the data of all PCBs but idle. It is a hypothesis of these two theorems, not an
  assumption of the module, because `proc_tight` is about the other case. The shipped sizes
  satisfy it: 256 + 2 (8 + 9 * 20) = 632, of 1024.

None of the invariants is inductive alone. `OnePlace` needs
`StateMatchesQueue` (what `update_process_state_rr` unlinks depends on the state) and
`IdleOnlyIfNoneReady` (otherwise the clock would queue idle); that in turn needs that a
tick which ends the quantum of idle finds nobody ready. Together with the quanta and
`OwnTable` they are `SchedInv`, inductive with `TypeOK`. The memory invariants need two
facts that are no property of interest themselves: a dead PCB's table is empty
(`DeadTablesEmpty`, or a new child would start with frames of its predecessor), and how
far fork has come (`ForkProgress`, which makes the rollback free exactly what was taken).
With these `MemInv` is inductive relative to `SchedInv`. `IInv` joins them; `proc_ample` checks
it. `LivePIDsUnique` is inductive relative to `SchedInv`.

`ForkFindsFrames` counts: if no frame were left, each of the first frames `alloc_frame`
scans would be the code's or back a data page of some PCB, and two of them the same page.
`PIDLookup` then follows because the only path that leaves a live PID in a free PCB is the
one that is never taken.

### Switch and statistics (`ZeosStatsProofs`)

* `SwImplementsProc`, `StImplementsSwitch`: the kernel with its stacks implements `ZeosProc`
  and the one with its accounting implements the one with its stacks, so that each inherits
  the theorems of the one below; `ResumeCorrect`, `OwnStackCorrect`, `LoneYieldCorrect`.
* `StatsCorrect`, `StampsCorrect`.

For the stacks, `SwInv` adds the type of the saved pointers to `ResumeSound` and
`RunsOnOwnStack`; whom a switch takes and leaves comes from two lemmas (`SwitchGives`,
`ExitGives`) about `ZeosProc`. For the statistics `StInv` is the type with both properties.
The key is that `update_stats` does not change the sum of a process's counters less its
stamp (`Balance`), provided that the stamp is not later than the counter: this is where the
unsigned subtraction would bite, and why `StampsPast` is needed for `StatsExact`.

### Memory of E1_E2 (`E1MemoryProofs`)

* `MemoryCorrect`, `TlbCorrect`, `FramesCorrect`.

`EmInv` joins the type with: which PCBs can be where (`Places`), whose frames are whose
(`OwnFrames`, `NewFrames`), which are marked (`Marked`), where a fork stands (`ForkAt`: up to
which page it has copied, and that what it copied is the parent's view), what the TLB can
hold at that point (`TlbSound`: the running process's own pages, and the temporary pages the
fork has already used), and `MemoryIsMine`. `MemoryIsMine` alone is not inductive: a stale
translation of the next temporary page would send the copy to the wrong frame. TLC checked `EmInv` on
the instance of `e1_memory` before it was proved. The count in `FramesInUse` is a bijection
between processes times pages and their frames.

### Terminal (`TerminalProofs`)

Assumed: `UserAssumption` (the address space is a whole number of pages and larger than the
user's part), `TerminalAssumption` and `CallsAssumption`: arguments are as wide as an
address, sizes are signed, so a positive one is less than half of the address space; so are
the fixed sizes of `pollEvent` and `get_stats`. As in the C, where both are 32 bits wide. The address a fault
reports is one of 32 bits, which `hex_convertor` shows in eight digits.

* `RingTypeCorrect`, `RingImplementsFifo`: of the ring inside the whole terminal: every step
  of a system call leaves it alone, and a step of the interrupts is one of `KeyFifo`.
* `ContainedCorrect`.
* `WriteCorrect`: what a write puts on the port and on the screen are the bytes it was given, for
  every size of the screen, of the chunks and of the text, and whatever keys and ticks come; of
  the last chunk of a long write of E1_E2 it only says how many bytes and where.

`Contained` rests on a lemma about `access_ok`: a block of at most half the address space
whose first and last page numbers are in the user's range lies between them, since a block
that wrapped would end before it begins. `TermInv` adds what a write in progress has left of
the block that was tested (`Writing`), why the machine stopped (`Stopped`), and that `errno`
is a number `perror` has a text for (`Errors`), because `perror`'s own write goes through the same
test with the address and the length of that text.

`WriteExact` needs `WInv` on top of `TermInv`:

* `OnScreen`: there is a list of cells, one for each character on the port, that starts at
  `start` and goes on to the cursor as `printc` moves it, and `shown` has every character in its cell
  unless a later one covered it (`Placed`). Each `printc` extends the list by one; a key
  or the clock writes in its corner and puts the cursor back (`CornerKeeps`).
* `Printing`: what is on the port followed by what is still queued (`Sent`) is a prefix of
  `Expected`, the output of the code as it is: the text of the call, in E1_E2 with the last
  chunk from its start. All chunks before the last are the user's bytes, and `LastChunk` is
  the arithmetic of where the last one starts. `Expected` is part of the proof, not of the
  theorem.
* `Idle`, `Answered`, `Numbers`, `Dying`: nothing is on its way in user mode; what a call that
  returns has printed and where it leaves `errno`; the text of `perror` reads as the
  number in `errno`; what a fault prints ends in the digits of its address.

`Place` and `Value`, the recursive functions in which `WriteExact` is stated, are followed along
these lists by a least counterexample (`StepByStep`), as the walks of the lists below are. TLC
checked `WInv` on the instance of `terminal`, with `Place` for the list of cells, before
it was proved.

### Lists (`ListHeadProofs`, `ListQueuesProofs`, `E1ProcProofs`)

* `LinksCorrect`, `UnlinkedCorrect`: for any number of lists and entries.
* `PIDsCorrect`, `ListsCorrect`: for any number of PCBs; assumed is only what `E1Proc` assumes
  of its constants.

A heap has a *chain* from a head along a sequence when `next` and `prev` of every element are
its neighbours, and the sequence with its head is a *ring* when nothing repeats. The lemmas
`AddTail`, `AddHead` and `DelEntry` say which chain each operation of `list.c` leaves, and `ChainFrame`
that a chain survives writes elsewhere. What the recursive walk computes on a chain
(`WalkIs`, `WalkBackIs`) would need induction; it is shown by a least counterexample instead: of
the steps at which the walk is not at the element expected, the first one has a predecessor
that is. `LQInv` says that each list of `ListQueues` is a chain of its own and disjoint from the
others. `E1Inv` says that there are two sequences, one from each queue of E1_E2, that hold
everybody but the running process and idle, and that a list of children which looks empty
from its head is empty from its end too (`KidsSound`: a first fork then links its child there
without writing into a queue). This part, `QueuesSound`, is claimed while nobody has forked
twice and no walk has hung, which is as much as is true of this code. A form of it in which the
sequences are computed by the walk was checked by TLC on the instance of `e1_lists` first.

### Image and boot (`BootProofs`)

Assumed: `BuildAssumption` and `SizesAssumption` (the system begins with the three words the
lengths are written over, and the fields can count the sizes; `build` tests neither),
`LayoutAssumption` and `ImageAssumption` (the PCBs and their guard pages are inside the system,
system and user program fit in the pages reserved to them, memory holds what `main()`
allocates). The makefiles and `mm_address.h` give all of them; how large the pages, the memory
and the files are is open.

* `ImageCorrect`: for all sizes of the files, and whichever system call of `build` fails.
* `FaultFree`, `StackCorrect`, `EntryCorrect`, `FramesCorrect`: `NoFault`, `BootStackApart`,
  `UserEntry` and `FramesAccounted`, for all four kernels, with interrupts at any time
  they are on; of the base kernel as long as its wild write has not hit what it uses.
* `ConfinedCorrect`: `PagedConfined`, of the three kernels that turn paging on.

`BuildInv` says, for each point of `build`, which cells have been copied and which of the
lengths have been written over them; of a build that died nothing is claimed, and nothing is
loaded. `main()` is a sequence of calls, and the invariant of the boot is one formula with the
number of the next call as a parameter. GAME, Ex2 and E1_E2 share it: `PagedInv(k, x, s)`
says for layout `k` what the machine `x` looks like at stage `s`: its registers (`Regs`: which of
the GDT, the IDT, the TSS, paging and the MSRs are set, and on which stack it runs), its
directories, page tables and frames (`Paging`: tables of processes that exist map the kernel and
user pages, and their frames are different, taken ones), its PCBs and lists (`Procs`) and where
the user program lies (`Image`). Ex2's calls are shown to be GAME's, in its own order. The base
kernel allocates its PCBs, directories and tables as pages and has `BaseInv`, in which the wild write
of `init_idle` may have gone to any page. `BootInv` joins these with `PcInv` (nothing runs
before the image is loaded). The allocator's part is a count: of the frames it looks at, fewer
are taken than there are, so that each call returns a new one.
TLC checked `BootInv` on the instance of `boot` before it was proved. The five properties then
follow from it at the stages they speak of.

### Only model-checked

Liveness (`ReadyRuns`, `RingDrains`, `Returns`), which the prover does not do. Every
other property of a run that passes is also a theorem.

## Not modelled

* The pipes of Ex1: an exam answer that does not compile (it uses names nothing declares),
  so there is no behaviour to follow. The rest of Ex1 is Ex2.
* `libzeos.a`, `libauxjp.a`, `libuser.a`: binaries; what `main()` calls in them is external.
* The saving and restoring of registers in `entry.S` and the wrappers, and the encoding of
  descriptors: a gate or segment is present with its properties or it is not.
* The display of the clock, and the test programs of `user.c`: user code is arbitrary.
* The page fault routine of the base kernel, which cannot run, and the machine of a base kernel
  that has written over itself.

## Plan

1. Done: process management with frames (`ZeosProc`, `ProcLife`), the switch, the
   statistics, the keyboard, the lists, E1_E2's process management and memory, boot of the
   four kernels, system calls with the console; the theorems above.
2. Done: proofs of the refinements `LifeSpec` and `FifoSpec`, of the statistics, of E1_E2's
   memory and queues, of the lists link by link, of `Contained` and `WriteExact`, of the image
   and of the boot of the four kernels.
3. Open: liveness stays with TLC. What has no model is listed above.
