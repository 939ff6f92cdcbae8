------------------------------ MODULE E1Memory ------------------------------
(***************************************************************************)
(* Address spaces of the E1_E2 kernel: fork gives the child frames of its  *)
(* own, maps them behind the parent's pages to copy the data, unmaps them  *)
(* and flushes the TLB; exit gives the frames back.  Stores of user code   *)
(* and the copies of the kernel go through the TLB, which keeps what it    *)
(* has once translated until cr3 is written.                               *)
(*                                                                         *)
(* Which process runs next is left open here (E1Proc models the queues).   *)
(* Directories are those of the task, so cr3 is the task whose directory   *)
(* it holds.                                                               *)
(***************************************************************************)
EXTENDS Integers, Sequences, FiniteSets, FiniteSetsExt

CONSTANTS
  NR_TASKS,
  NUM_PAG_KERNEL, NUM_PAG_CODE, NUM_PAG_DATA, TOTAL_PAGES,
  Values           \* what a user program may store in a page

ASSUME E1MemoryAssumption ==
  /\ NR_TASKS \in Nat /\ NR_TASKS >= 3
  /\ {NUM_PAG_KERNEL, NUM_PAG_CODE, NUM_PAG_DATA, TOTAL_PAGES} \subseteq Nat \ {0}
  \* the kernel, twice the pages of the single-process system, with holes
  /\ TOTAL_PAGES > NUM_PAG_KERNEL + 4 * (NUM_PAG_CODE + NUM_PAG_DATA)

Tasks == 0 .. NR_TASKS - 1
idle_task == NR_TASKS - 1
task1 == NR_TASKS - 2
NoTask == -1

PAG_LOG_INIT_DATA == NUM_PAG_KERNEL
PAG_LOG_INIT_CODE == PAG_LOG_INIT_DATA + NUM_PAG_DATA
TOTAL_SPACE == NUM_PAG_KERNEL + NUM_PAG_CODE + NUM_PAG_DATA
Pages == 0 .. TOTAL_SPACE + NUM_PAG_DATA - 1
DataPages == PAG_LOG_INIT_DATA .. PAG_LOG_INIT_DATA + NUM_PAG_DATA - 1
CodePages == PAG_LOG_INIT_CODE .. PAG_LOG_INIT_CODE + NUM_PAG_CODE - 1
Index == 0 .. NUM_PAG_DATA - 1

VARIABLES
  phys_mem,     \* frames marked USED_FRAME
  pt,           \* pagusr_table[t]
  freequeue, live,
  current,
  tlb,          \* translations the processor holds: page -> frame
  mem,          \* contents of the frames
  child,        \* child_pcb of the fork under way, or NoTask
  todo,         \* "alloc", "map", "copy", "flush": where that fork is
  i,            \* its loop variable
  new_frames,   \* frames it has taken so far
  view          \* not in the code: what each process stored, or inherited

vars == << phys_mem, pt, freequeue, live, current, tlb, mem, child, todo, i, new_frames, view >>
fork == << child, todo, i, new_frames >>

-----------------------------------------------------------------------------
(* mm.c *)

Entry(f, u, w) == [frame |-> f, user |-> u, rw |-> w, present |-> TRUE]
NoEntry == [frame |-> 0, user |-> FALSE, rw |-> FALSE, present |-> FALSE]

alloc_frame == LET free == {f \in NUM_PAG_KERNEL .. TOTAL_PAGES - 1 :
                              (f - NUM_PAG_KERNEL) % 2 = 0 /\ f \notin phys_mem}
               IN IF free = {} THEN -1 ELSE Min(free)

free_frame(used, fs) == used \ {f \in fs : f > NUM_PAG_KERNEL /\ f < TOTAL_PAGES}

\* User, writable and present, whatever the page is.
set_ss_pag(tab, p, f) == [tab EXCEPT ![p] = Entry(f, TRUE, TRUE)]
del_ss_pag(tab, p) == [tab EXCEPT ![p] = NoEntry]
get_frame(tab, p) == tab[p].frame

\* A load or store of page p by the process whose directory is active.
Translate(tab, p) == IF p \in DOMAIN tlb THEN tlb[p] ELSE get_frame(tab, p)
Cached(tab, ps) == [p \in DOMAIN tlb \cup ps |-> Translate(tab, p)]
Flushed == << >>

-----------------------------------------------------------------------------
(* The state main() leaves: init_mm, monoprocess_init_addr_space on the      *)
(* table of task[0], then init_task1 on the table of task 1.                 *)

KernelTable == [p \in Pages |-> IF p \in 1 .. NUM_PAG_KERNEL - 1 THEN Entry(p, FALSE, TRUE) ELSE NoEntry]
Nth(n) == NUM_PAG_KERNEL + 2 * n
UserTable(first) ==
  [p \in Pages |-> CASE p \in CodePages -> Entry(Nth(first + p - PAG_LOG_INIT_CODE), TRUE, FALSE)
                     [] p \in DataPages -> Entry(Nth(first + NUM_PAG_CODE + p - PAG_LOG_INIT_DATA), TRUE, TRUE)
                     [] OTHER -> KernelTable[p]]
MonoFrames == {Nth(n) : n \in 0 .. NUM_PAG_CODE + NUM_PAG_DATA - 1}
CodeFrames == {Nth(n) : n \in NUM_PAG_CODE + NUM_PAG_DATA .. 2 * NUM_PAG_CODE + NUM_PAG_DATA - 1}
BootFrames == {Nth(n) : n \in 0 .. 2 * (NUM_PAG_CODE + NUM_PAG_DATA) - 1}

Init ==
  /\ phys_mem = (0 .. NUM_PAG_KERNEL - 1) \cup BootFrames
  /\ pt = [t \in Tasks |-> CASE t = 0 -> UserTable(0)
                             [] t = task1 -> UserTable(NUM_PAG_CODE + NUM_PAG_DATA)
                             [] OTHER -> KernelTable]
  /\ freequeue = [n \in 1 .. NR_TASKS - 2 |-> NR_TASKS - 2 - n]
  /\ live = {task1} /\ current = task1
  /\ tlb = Flushed
  /\ mem = [f \in 0 .. TOTAL_PAGES - 1 |-> 0]
  /\ child = NoTask /\ todo = "none" /\ i = 0 /\ new_frames = << >>
  /\ view = [t \in Tasks |-> [n \in Index |-> 0]]

\* The processor is in user code: the kernel is not in a fork.
InUserCode == todo = "none" /\ current # idle_task

\* A user program stores v in one of its data pages.
Store(p, v) ==
  /\ InUserCode /\ p \in DataPages
  /\ mem' = [mem EXCEPT ![Translate(pt[current], p)] = v]
  /\ tlb' = Cached(pt[current], {p})
  /\ view' = [view EXCEPT ![current][p - PAG_LOG_INIT_DATA] = v]
  /\ UNCHANGED << phys_mem, pt, freequeue, live, current, fork >>

-----------------------------------------------------------------------------
(* sys.c *)

\* No free PCB is ENOMEM, which changes nothing.
sys_fork ==
  /\ InUserCode /\ freequeue # << >>
  /\ child' = Head(freequeue) /\ freequeue' = Tail(freequeue)
  /\ todo' = "alloc" /\ i' = 0 /\ new_frames' = << >>
  /\ UNCHANGED << phys_mem, pt, live, current, tlb, mem, view >>

AllocPage ==
  /\ todo = "alloc" /\ i < NUM_PAG_DATA /\ alloc_frame # -1
  /\ phys_mem' = phys_mem \cup {alloc_frame}
  /\ new_frames' = Append(new_frames, alloc_frame)
  /\ i' = i + 1
  /\ UNCHANGED << pt, freequeue, live, current, tlb, mem, child, todo, view >>

\* The frames to give back when the nth allocation fails.
TakenBug == {new_frames[n] : n \in 1 .. i - 1}
Taken == {new_frames[n] : n \in 1 .. i}

AllocFails ==
  /\ todo = "alloc" /\ i < NUM_PAG_DATA /\ alloc_frame = -1
  /\ phys_mem' = free_frame(phys_mem, Taken)
  /\ freequeue' = Append(freequeue, child)
  /\ child' = NoTask /\ todo' = "none" /\ i' = 0 /\ new_frames' = << >>
  /\ UNCHANGED << pt, live, current, tlb, mem, view >>

\* Kernel pages, page 0 among them, and code pages point where the parent's do;
\* data pages point to the new frames.
MapChild ==
  /\ todo = "alloc" /\ i = NUM_PAG_DATA
  /\ pt' = [pt EXCEPT ![child] = [p \in Pages |->
       CASE p \in 0 .. NUM_PAG_KERNEL - 1 \cup CodePages -> Entry(get_frame(pt[current], p), TRUE, TRUE)
         [] p \in DataPages -> Entry(new_frames[p - PAG_LOG_INIT_DATA + 1], TRUE, TRUE)
         [] OTHER -> pt[child][p]]]
  /\ todo' = "copy" /\ i' = 0
  /\ UNCHANGED << phys_mem, freequeue, live, current, tlb, mem, child, new_frames, view >>

\* The page of the parent through which the frame of data page n is reached.
TempPageBug(n) == TOTAL_SPACE
TempPage(n) == TOTAL_SPACE + n

CopyPage ==
  LET tab == set_ss_pag(pt[current], TempPage(i), new_frames[i + 1])
      src == PAG_LOG_INIT_DATA + i
  IN /\ todo = "copy" /\ i < NUM_PAG_DATA
     /\ mem' = [mem EXCEPT ![Translate(tab, TempPage(i))] = mem[Translate(tab, src)]]
     /\ tlb' = Cached(tab, {src, TempPage(i)})
     /\ pt' = [pt EXCEPT ![current] = del_ss_pag(tab, TempPage(i))]
     /\ i' = i + 1
     /\ UNCHANGED << phys_mem, freequeue, live, current, child, todo, new_frames, view >>

AfterForkBug == tlb
AfterFork == Flushed

\* set_cr3(get_DIR(current())), and the rest of sys_fork, which makes the child
\* ready (E1Proc).
ForkEnds ==
  /\ todo = "copy" /\ i = NUM_PAG_DATA
  /\ tlb' = AfterFork
  /\ live' = live \cup {child}
  /\ view' = [view EXCEPT ![child] = view[current]]
  /\ child' = NoTask /\ todo' = "none" /\ i' = 0 /\ new_frames' = << >>
  /\ UNCHANGED << phys_mem, pt, freequeue, current, mem >>

\* inner_task_switch: another live process, or idle, gets the processor.
Switch(t) ==
  /\ todo = "none" /\ t \in live \cup {idle_task} /\ t # current
  /\ current' = t /\ tlb' = Flushed
  /\ UNCHANGED << phys_mem, pt, freequeue, live, mem, fork, view >>

\* The data frames and their mappings go, the PCB is freed and somebody else runs.
\* The first process ends only with the system.
sys_exit ==
  /\ InUserCode /\ current # task1
  /\ phys_mem' = free_frame(phys_mem, {get_frame(pt[current], p) : p \in DataPages})
  /\ pt' = [pt EXCEPT ![current] = [p \in Pages |-> IF p \in DataPages THEN NoEntry ELSE @[p]]]
  /\ freequeue' = Append(freequeue, current)
  /\ live' = live \ {current}
  /\ \E t \in live' \cup {idle_task} : current' = t
  /\ tlb' = Flushed
  /\ UNCHANGED << mem, fork, view >>

Next ==
  \/ \E p \in DataPages, v \in Values : Store(p, v)
  \/ sys_fork \/ AllocPage \/ AllocFails \/ MapChild \/ CopyPage \/ ForkEnds
  \/ \E t \in Tasks : Switch(t)
  \/ sys_exit

Spec == Init /\ [][Next]_vars

-----------------------------------------------------------------------------
(* Properties *)

\* A process finds in its data pages what it stored there itself or inherited
\* when it was forked, whoever ran, forked and exited in between: no copy or store
\* goes to another frame through a stale translation, and no frame has two owners.
MemoryIsMine ==
  \A t \in live, n \in Index : mem[get_frame(pt[t], PAG_LOG_INIT_DATA + n)] = view[t][n]

\* In user code the TLB holds nothing the page table does not: in particular no
\* translation of the temporary pages of a fork, nor of another process.
TlbAgrees ==
  InUserCode => \A p \in DOMAIN tlb : pt[current][p].present /\ tlb[p] = get_frame(pt[current], p)

\* The frames in use are the kernel's, those of the single-process system, the
\* shared code, the data of the live processes and what the fork under way took;
\* a fork given up half way and an exit give everything back.
FramesInUse ==
  /\ phys_mem = (0 .. NUM_PAG_KERNEL - 1) \cup MonoFrames \cup CodeFrames
                \cup {get_frame(pt[t], p) : t \in live, p \in DataPages}
                \cup {new_frames[n] : n \in DOMAIN new_frames}
  /\ Cardinality(phys_mem) = NUM_PAG_KERNEL + Cardinality(MonoFrames \cup CodeFrames)
                + NUM_PAG_DATA * Cardinality(live) + Len(new_frames)
=============================================================================
