------------------------------ MODULE ZeosProc ------------------------------
(***************************************************************************)
(* Process management of the ZeOS kernel (so2_old/GAME/zeos): the PCB      *)
(* table task[], the freequeue and the readyqueue, the round-robin policy, *)
(* the byte map of physical frames, the per-process page tables, and the   *)
(* calls that change them: the clock interrupt, fork, exit and yield.      *)
(*                                                                         *)
(* Interrupts are off in system mode (interrupt gates; sysenter clears     *)
(* IF), so a handler runs to its end before another one starts.  exit,     *)
(* yield and the clock are one action each.  fork allocates its frames in  *)
(* a loop whose k-th turn depends on the ones before, so each turn is a    *)
(* step; kpath says where fork is, and nothing else is enabled until it    *)
(* returns to user mode.                                                   *)
(***************************************************************************)
EXTENDS Integers, Sequences, Functions

CONSTANTS
    NR_TASKS,         \* entries of task[]
    TOTAL_PAGES,      \* frames of physical memory = entries of a page table
    NUM_PAG_KERNEL,   \* frames and pages of the kernel
    NUM_PAG_CODE,     \* code pages of a process, shared by all
    NUM_PAG_DATA,     \* data and stack pages of a process, its own
    DEFAULT_QUANTUM,  \* ticks of a quantum
    MaxPID            \* bound: fork is not called once global_PID is MaxPID

ASSUME TasksAssumption == NR_TASKS \in Nat /\ NR_TASKS >= 2
ASSUME PagesAssumption ==
    /\ NUM_PAG_KERNEL \in Nat \ {0}
    /\ NUM_PAG_CODE \in Nat \ {0}
    /\ NUM_PAG_DATA \in Nat \ {0}
    /\ TOTAL_PAGES \in Nat
\* set_user_pages never tests alloc_frame, and fork maps its temporary pages
\* above the data pages: both need this much room.
ASSUME RoomAssumption ==
    /\ NUM_PAG_KERNEL + 2 * (NUM_PAG_CODE + NUM_PAG_DATA) <= TOTAL_PAGES
    /\ NUM_PAG_KERNEL + NUM_PAG_CODE + 2 * NUM_PAG_DATA <= TOTAL_PAGES
ASSUME QuantumAssumption == DEFAULT_QUANTUM \in Nat \ {0}
ASSUME MaxPIDAssumption == MaxPID \in Nat

Tasks == 0 .. NR_TASKS - 1
idle_task == 0            \* init_idle takes the first PCB of the freequeue
task1 == 1                \* and init_task1 the second

FREE_FRAME == 0
USED_FRAME == 1
Frames == 0 .. TOTAL_PAGES - 1
NoFrame == 0              \* pbase_addr of an empty page table entry
NoDir == -1               \* dir_pages_baseAddr of a PCB never used

PAG_LOG_INIT_CODE == NUM_PAG_KERNEL
PAG_LOG_INIT_DATA == PAG_LOG_INIT_CODE + NUM_PAG_CODE
CodePages == PAG_LOG_INIT_CODE .. PAG_LOG_INIT_DATA - 1
DataPages == PAG_LOG_INIT_DATA .. PAG_LOG_INIT_DATA + NUM_PAG_DATA - 1
TempPages == PAG_LOG_INIT_DATA + NUM_PAG_DATA ..
             PAG_LOG_INIT_DATA + 2 * NUM_PAG_DATA - 1
UserPages == CodePages \cup DataPages \cup TempPages

States == {"ST_RUN", "ST_READY", "ST_BLOCKED"}
INITIAL_PID == 1000

VARIABLES
    freequeue, readyqueue,      \* the two lists of PCBs, first to last
    PID, state, total_quantum,  \* fields of task[t]
    dir,                        \* dir[t]: whose page table task[t] runs on
    current,                    \* the PCB of the running kernel stack
    remaining_quantum,
    global_PID,
    phys_mem,                   \* the byte map of frames
    pt,                         \* pt[d][page]: frame mapped, or NoFrame
    kpath, child, pag           \* where fork is, its PCB and its loop index

sched == <<freequeue, readyqueue, PID, state, total_quantum, dir, current,
           remaining_quantum, global_PID>>
memory == <<phys_mem, pt>>
forking == <<kpath, child, pag>>
vars == <<sched, memory, forking>>

-----------------------------------------------------------------------------
(* list.c: a list is the sequence of its entries, first to last.  ListHead   *)
(* models the links.                                                         *)

\* Faulty variants of a definition, named ...Bug, come before it; no
\* specification uses them: each one shows that a property would notice.
list_emptyBug(q) == Len(q) <= 1
list_empty(q) == q = <<>>

list_add(q, t) == <<t>> \o q
list_add_tail(q, t) == Append(q, t)

ListDelFirstBug(q) == q
ListDelFirst(q) == Tail(q)

-----------------------------------------------------------------------------
(* mm.c *)

\* The frames alloc_frame looks at: every second one from NUM_PAG_KERNEL.
ScanFrames == {f \in Frames : f >= NUM_PAG_KERNEL
                              /\ (f - NUM_PAG_KERNEL) % 2 = 0}

\* f is the frame alloc_frame returns.
AllocFrame(f) ==
    /\ f \in ScanFrames
    /\ phys_mem[f] = FREE_FRAME
    /\ \A g \in ScanFrames : g < f => phys_mem[g] # FREE_FRAME

\* alloc_frame returns -1.
NoFreeFrame == \A f \in ScanFrames : phys_mem[f] # FREE_FRAME

FreeFramesBug(S) ==
    [f \in Frames |-> IF f \in S /\ f > PAG_LOG_INIT_DATA + NUM_PAG_DATA
                      THEN FREE_FRAME ELSE phys_mem[f]]
\* phys_mem after free_frame of every frame of S.
FreeFrames(S) ==
    [f \in Frames |-> IF f \in S /\ f > NUM_PAG_KERNEL /\ f < TOTAL_PAGES
                      THEN FREE_FRAME ELSE phys_mem[f]]

DelPagesBug(table, P) == table
\* A page table after del_ss_pag of every page of P.
DelPages(table, P) == [p \in UserPages |-> IF p \in P THEN NoFrame ELSE table[p]]

\* A page table after set_ss_pag.
SetPage(table, page, frame) == [table EXCEPT ![page] = frame]

\* The frames a page table maps at the pages of P.
FramesOf(table, P) == {table[p] : p \in P}

\* init_table_pages empties every table and set_user_pages then fills task
\* 1's: the k-th call of alloc_frame at boot returns the k-th scanned frame.
BootFrame(p) == NUM_PAG_KERNEL + 2 * (p - PAG_LOG_INIT_CODE)
BootTable == [p \in UserPages |->
                 IF p \in CodePages \cup DataPages THEN BootFrame(p) ELSE NoFrame]

-----------------------------------------------------------------------------
(* sched.c *)

\* update_process_state_rr(t, &readyqueue): the readyqueue it leaves.
Requeue(t) ==
    list_add_tail(IF state[t] # "ST_RUN"
                  THEN SelectSeq(readyqueue, LAMBDA u : u # t) ELSE readyqueue,
                  t)

AllocateDIRBug(t) == dir[current]
\* allocate_DIR: the directory of a PCB is the one at its own index.
AllocateDIR(t) == t

SchedNextBug(q, st) ==
    LET t == IF ~list_empty(q) THEN Head(q) ELSE idle_task IN
    /\ readyqueue' = IF ~list_empty(q) THEN ListDelFirst(q) ELSE q
    /\ state' = st
    /\ remaining_quantum' = total_quantum[t]
    /\ current' = t

\* sched_next_rr with the ready queue q and the process states st: the first
\* of q, or idle, gets the CPU with its quantum restored.
SchedNext(q, st) ==
    LET t == IF ~list_empty(q) THEN Head(q) ELSE idle_task IN
    /\ readyqueue' = IF ~list_empty(q) THEN ListDelFirst(q) ELSE q
    /\ state' = [st EXCEPT ![t] = "ST_RUN"]
    /\ remaining_quantum' = total_quantum[t]
    /\ current' = t

\* force_task_switch, and the body of schedule once a switch is needed.
ForceTaskSwitch ==
    /\ SchedNext(Requeue(current), [state EXCEPT ![current] = "ST_READY"])
    /\ UNCHANGED <<freequeue, PID, total_quantum, dir, global_PID>>

\* init_freequeue, init_idle and init_task1, in main's order; the rest of the
\* PCBs are still zero, which is state ST_RUN.
Init ==
    /\ freequeue = [i \in 1 .. NR_TASKS - 2 |-> i + 1]
    /\ readyqueue = <<>>
    /\ PID = [t \in Tasks |-> CASE t = idle_task -> 0
                                [] t = task1 -> 1
                                [] OTHER -> -1]
    /\ state = [t \in Tasks |-> "ST_RUN"]
    /\ total_quantum = [t \in Tasks |-> IF t \in {idle_task, task1}
                                        THEN DEFAULT_QUANTUM ELSE 0]
    /\ dir = [t \in Tasks |-> IF t \in {idle_task, task1} THEN t ELSE NoDir]
    /\ current = task1
    /\ remaining_quantum = DEFAULT_QUANTUM
    /\ global_PID = INITIAL_PID
    /\ phys_mem = [f \in Frames |->
                     IF f < NUM_PAG_KERNEL
                        \/ f \in FramesOf(BootTable, CodePages \cup DataPages)
                     THEN USED_FRAME ELSE FREE_FRAME]
    /\ pt = [t \in Tasks |-> IF t = task1 THEN BootTable
                             ELSE [p \in UserPages |-> NoFrame]]
    /\ kpath = "user" /\ child = idle_task /\ pag = 0

RefillBug(rq) == rq
\* needs_sched_rr, when nobody waits: an expired quantum starts again.
Refill(rq) == IF rq = 0 THEN total_quantum[current] ELSE rq

QuantumOverBug == remaining_quantum - 1 = 0
\* update_sched_data_rr, and needs_sched_rr returns 1.
QuantumOver == remaining_quantum - 1 = 0 /\ ~list_empty(readyqueue)

\* clock_routine -> schedule, when the quantum is over and somebody waits.
ClockSwitch ==
    /\ kpath = "user"
    /\ QuantumOver
    /\ ForceTaskSwitch
    /\ UNCHANGED <<memory, forking>>

\* clock_routine -> schedule, when the current process keeps the CPU.
ClockStay ==
    /\ kpath = "user"
    /\ ~QuantumOver
    /\ remaining_quantum' = Refill(remaining_quantum - 1)
    /\ UNCHANGED <<freequeue, readyqueue, PID, state, total_quantum, dir,
                   current, global_PID, memory, forking>>

Clock == ClockSwitch \/ ClockStay

-----------------------------------------------------------------------------
(* sys.c: idle runs cpu_idle and never makes a system call. *)

InUserCode == kpath = "user" /\ current # idle_task

\* With nobody else ready the process is switched to itself; ZeosSwitch shows
\* what that does to its kernel stack, of which nothing is said here.
sys_yield ==
    /\ InUserCode
    /\ ForceTaskSwitch
    /\ UNCHANGED <<memory, forking>>

ExitPIDBug == PID[current]
ExitPID == -1

\* Frees the data frames, returns the PCB to the freequeue and gives the CPU
\* away; the state of the freed PCB stays ST_RUN.
sys_exit ==
    /\ InUserCode
    /\ phys_mem' = FreeFrames(FramesOf(pt[dir[current]], DataPages))
    /\ pt' = [pt EXCEPT ![dir[current]] = DelPages(@, DataPages)]
    /\ freequeue' = list_add_tail(freequeue, current)
    /\ PID' = [PID EXCEPT ![current] = ExitPID]
    /\ SchedNext(readyqueue, state)
    /\ UNCHANGED <<total_quantum, dir, global_PID, forking>>

\* fork with no free PCB returns -ENOMEM.
ForkNoTask ==
    /\ InUserCode /\ list_empty(freequeue)
    /\ UNCHANGED vars

\* fork takes the first free PCB, copies the parent's whole task_union into
\* it and gives it its own directory.
ForkBegin ==
    /\ InUserCode /\ ~list_empty(freequeue) /\ global_PID < MaxPID
    /\ LET c == Head(freequeue) IN
       /\ child' = c
       /\ PID' = [PID EXCEPT ![c] = PID[current]]
       /\ state' = [state EXCEPT ![c] = state[current]]
       /\ total_quantum' = [total_quantum EXCEPT ![c] = total_quantum[current]]
       /\ dir' = [dir EXCEPT ![c] = AllocateDIR(c)]
    /\ freequeue' = ListDelFirst(freequeue)
    /\ kpath' = "alloc" /\ pag' = 0
    /\ UNCHANGED <<readyqueue, current, remaining_quantum, global_PID, memory>>

MorePagesBug == pag <= NUM_PAG_DATA
\* The condition of fork's two loops over the data pages.
MorePages == pag < NUM_PAG_DATA

\* One turn of the loop that allocates the child's data pages.
ForkAlloc ==
    /\ kpath = "alloc" /\ MorePages
    /\ \E f \in Frames :
         /\ AllocFrame(f)
         /\ phys_mem' = [phys_mem EXCEPT ![f] = USED_FRAME]
         /\ pt' = [pt EXCEPT ![dir[child]] = SetPage(@, PAG_LOG_INIT_DATA + pag, f)]
    /\ pag' = pag + 1
    /\ UNCHANGED <<sched, kpath, child>>

DonePagesBug == {PAG_LOG_INIT_DATA + i : i \in 0 .. pag - 2}
\* The pages of the rollback loop: those before the one that failed.
DonePages == {PAG_LOG_INIT_DATA + i : i \in 0 .. pag - 1}

\* alloc_frame fails: the pages allocated so far are freed and unmapped, the
\* PCB goes to the end of the freequeue, fork returns -EAGAIN.  The PCB keeps
\* the parent's PID that was copied into it.
ForkNoFrame ==
    /\ kpath = "alloc" /\ MorePages
    /\ NoFreeFrame
    /\ phys_mem' = FreeFrames(FramesOf(pt[dir[child]], DonePages))
    /\ pt' = [pt EXCEPT ![dir[child]] = DelPages(@, DonePages)]
    /\ freequeue' = list_add_tail(freequeue, child)
    /\ kpath' = "user" /\ child' = idle_task /\ pag' = 0
    /\ UNCHANGED <<readyqueue, PID, state, total_quantum, dir, current,
                   remaining_quantum, global_PID>>

\* The child shares the parent's code frames.
ForkShareCode ==
    /\ kpath = "alloc" /\ ~MorePages
    /\ pt' = [pt EXCEPT ![dir[child]] =
                [p \in UserPages |-> IF p \in CodePages
                                     THEN pt[dir[current]][p] ELSE @[p]]]
    /\ kpath' = "copy" /\ pag' = 0
    /\ UNCHANGED <<sched, phys_mem, child>>

\* One turn of the copy loop: the child's page is mapped in the parent's table
\* NUM_PAG_DATA pages up, written, and that entry deleted again.
ForkCopyPage ==
    /\ kpath = "copy" /\ MorePages
    /\ LET page == PAG_LOG_INIT_DATA + pag
           temp == page + NUM_PAG_DATA
       IN  pt' = [pt EXCEPT ![dir[current]] =
                    DelPages(SetPage(@, temp, pt[dir[child]][page]), {temp})]
    /\ pag' = pag + 1
    /\ UNCHANGED <<sched, phys_mem, kpath, child>>

NewPIDBug == PID[current] + 1
NewPID == global_PID + 1

\* The rest of fork: a new PID, state READY, and the end of the readyqueue.
ForkEnd ==
    /\ kpath = "copy" /\ ~MorePages
    /\ global_PID' = global_PID + 1
    /\ PID' = [PID EXCEPT ![child] = NewPID]
    /\ state' = [state EXCEPT ![child] = "ST_READY"]
    /\ readyqueue' = list_add_tail(readyqueue, child)
    /\ kpath' = "user" /\ child' = idle_task /\ pag' = 0
    /\ UNCHANGED <<freequeue, total_quantum, dir, current, remaining_quantum,
                   memory>>

ForkStep == \/ ForkAlloc \/ ForkNoFrame \/ ForkShareCode
            \/ ForkCopyPage \/ ForkEnd

sys_fork == ForkNoTask \/ ForkBegin \/ ForkStep

Next == Clock \/ sys_yield \/ sys_exit \/ sys_fork

\* The timer keeps interrupting: a tick raised during a system call is held by
\* the interrupt controller and delivered when the call returns, so strong
\* fairness; and a fork that has begun runs on.
Fairness == SF_vars(Clock) /\ WF_vars(ForkStep)
Spec == Init /\ [][Next]_vars
LiveSpec == Spec /\ Fairness

-----------------------------------------------------------------------------
(* Properties *)

Waiting == Range(readyqueue)
Free == Range(freequeue)
Forking == IF kpath = "user" THEN {} ELSE {child}
\* The processes of the user: the running one and the ones that wait.
Live == Waiting \cup ({current} \ {idle_task})
\* The PCBs whose data pages hold frames.
Owners == Live \cup Forking
CodeFrame(p) == BootFrame(p)

TypeOK ==
    /\ freequeue \in Seq(Tasks) /\ readyqueue \in Seq(Tasks)
    /\ PID \in [Tasks -> Int]
    /\ state \in [Tasks -> States]
    /\ total_quantum \in [Tasks -> Nat]
    /\ dir \in [Tasks -> Tasks \cup {NoDir}]
    /\ current \in Tasks
    /\ remaining_quantum \in Int
    /\ global_PID \in Nat
    /\ phys_mem \in [Frames -> {FREE_FRAME, USED_FRAME}]
    /\ pt \in [Tasks -> [UserPages -> Frames]]
    /\ kpath \in {"user", "alloc", "copy"}
    /\ child \in Tasks
    /\ pag \in 0 .. NUM_PAG_DATA

\* Every PCB is in exactly one place: once in the freequeue, once in the
\* readyqueue, on the CPU, or being filled by fork; idle is never queued.
\* A PCB linked in two lists, twice, or in none would corrupt the lists
\* (list.c) or be lost for ever.
OnePlace ==
    /\ IsInjective(freequeue) /\ IsInjective(readyqueue)
    /\ Free \cap Waiting = {}
    /\ idle_task \notin Free \cup Waiting
    /\ current \notin Free \cup Waiting
    /\ Forking \cap (Free \cup Waiting \cup {current, idle_task}) = {}
    /\ Tasks = Free \cup Waiting \cup Forking \cup {current, idle_task}

\* The state field agrees with the list: update_process_state_rr unlinks a PCB
\* only if its state is not ST_RUN, so a wrong state would unlink the running
\* process or leave a waiting one linked twice.
StateMatchesQueue ==
    /\ state[current] = "ST_RUN"
    /\ \A t \in Waiting : state[t] = "ST_READY"

\* Idle has the CPU only when no process is ready (sched_next_rr).
IdleOnlyIfNoneReady == current = idle_task => readyqueue = <<>>

\* needs_sched_rr compares remaining_quantum with 0 after decrementing it, so
\* it must be at least 1 whenever the clock may tick: at 0 the process would
\* never again be preempted.
QuantumNeverOver ==
    /\ remaining_quantum \in 1 .. DEFAULT_QUANTUM
    /\ \A t \in Owners \cup {idle_task} : total_quantum[t] = DEFAULT_QUANTUM

\* Each process runs on its own page table (allocate_DIR undoes the copy of
\* the parent's directory pointer).
OwnTable == \A t \in Owners \cup {current, idle_task} : dir[t] = t

\* A frame holds one data page of one process: no two processes, and no two
\* pages, share one, and none is a kernel or a code frame.
FramesPrivate ==
    \A t \in Owners : \A p \in DataPages :
      pt[dir[t]][p] # NoFrame =>
        /\ pt[dir[t]][p] \in ScanFrames \ FramesOf(BootTable, CodePages)
        /\ \A u \in Owners : \A q \in DataPages :
             pt[dir[u]][q] = pt[dir[t]][p] => u = t /\ q = p

\* alloc_frame, fork (with its rollback) and exit neither lose a frame nor hand
\* out one in use: a scanned frame is marked used exactly when it is a code
\* frame or some process maps it as data.
FramesConserved ==
    \A f \in ScanFrames :
      phys_mem[f] = USED_FRAME <=>
        \/ f \in FramesOf(BootTable, CodePages)
        \/ \E t \in Owners : \E p \in DataPages : pt[dir[t]][p] = f

\* A process of the user has all its data pages and the code of task 1, and
\* fork's temporary mappings are gone.
AddressSpaceComplete ==
    \A t \in Live :
      /\ \A p \in DataPages : pt[dir[t]][p] # NoFrame
      /\ \A p \in CodePages : pt[dir[t]][p] = CodeFrame(p)
      /\ \A p \in TempPages : pt[dir[t]][p] = NoFrame

\* Two processes never have the same PID, and idle's 0 is nobody else's.
LivePIDsUnique ==
    /\ global_PID >= INITIAL_PID
    /\ \A t \in Live : PID[t] = 1 \/ PID[t] \in INITIAL_PID + 1 .. global_PID
    /\ \A t, u \in Live : PID[t] = PID[u] => t = u
    /\ PID[idle_task] = 0

\* sys_get_stats finds a process by scanning task[] for its PID: the first
\* PCB with the PID of a live process is that process, and no other PCB has
\* a PID that was ever given out.  (True while alloc_frame never fails in
\* fork: the -EAGAIN path leaves the parent's PID in a free PCB.)
PIDLookup ==
    kpath = "user" =>
      \A t \in Tasks : t \notin Live \cup {idle_task} => PID[t] = -1

\* How many ticks the i-th process of the readyqueue still waits at most.
WaitOf(i) == (i - 1) * DEFAULT_QUANTUM + remaining_quantum

\* Nobody overtakes in the readyqueue, and no process waits longer than the
\* full quanta of the ones before it: whatever step is taken, a process that
\* keeps waiting comes no farther from the CPU, and each clock tick brings it
\* at least one tick nearer.
BoundedWait ==
    [][\A i \in 1 .. Len(readyqueue) :
         \/ current' = readyqueue[i] /\ i = 1
         \/ \E j \in {i - 1, i} \cap 1 .. Len(readyqueue') :
              /\ readyqueue'[j] = readyqueue[i]
              /\ WaitOf(j)' <= WaitOf(i) - (IF Clock THEN 1 ELSE 0)]_vars

\* Every ready process gets the CPU, whatever the others do with it.
ReadyRuns == \A t \in Tasks : t \in Waiting ~> current = t

-----------------------------------------------------------------------------
(* The inductive invariant the proofs rest on. *)

\* What is true of the lists, the states and the quantum.
SchedInv ==
    /\ OnePlace
    /\ StateMatchesQueue
    /\ IdleOnlyIfNoneReady
    /\ QuantumNeverOver
    /\ OwnTable
    /\ kpath # "user" => current # idle_task

\* A PCB that is neither alive nor being filled maps no data page.
DeadTablesEmpty ==
    \A t \in Tasks \ Owners : \A p \in DataPages : pt[t][p] = NoFrame

\* How far fork has filled the child's page table.
ForkProgress ==
    /\ kpath = "alloc" =>
         \A p \in DataPages : pt[child][p] # NoFrame <=> p < PAG_LOG_INIT_DATA + pag
    /\ kpath = "copy" =>
         /\ \A p \in DataPages : pt[child][p] # NoFrame
         /\ \A p \in CodePages : pt[child][p] = CodeFrame(p)
    /\ \A t \in Tasks : \A p \in TempPages : pt[t][p] = NoFrame

MemInv ==
    /\ FramesPrivate
    /\ FramesConserved
    /\ AddressSpaceComplete
    /\ DeadTablesEmpty
    /\ ForkProgress

\* SchedInv and MemInv are inductive together with TypeOK.
IInv == TypeOK /\ SchedInv /\ MemInv
=============================================================================
