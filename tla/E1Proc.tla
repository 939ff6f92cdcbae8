------------------------------- MODULE E1Proc -------------------------------
(***************************************************************************)
(* Process management of the kernel in so2_old/E1_E2/zeos, which adds      *)
(* block, unblock and lists of children to the one ZeosProc models.  Each  *)
(* PCB has ONE list_head for queues (list) and the head of a list of its   *)
(* children (kids); fork links the child's list into the parent's kids and *)
(* then into the readyqueue.  What this does to the links is the point, so *)
(* the lists are ListHead's, pointer by pointer.                           *)
(*                                                                         *)
(* The handlers are atomic (the clock handler, the only one that can       *)
(* interrupt a system call here, touches nothing but zeos_ticks).  The     *)
(* frames of fork and exit are left out, they are E1Memory's subject: a    *)
(* fork may find enough of them or not.                                    *)
(***************************************************************************)
EXTENDS ListHead, FiniteSets

CONSTANTS
    NR_TASKS,
    DEFAULT_QUANTUM,
    MaxPID,         \* bound: fork is not called once PID_counter is MaxPID
    MaxPending      \* bound: unblock is not called with this many pending

ASSUME E1Assumption ==
    /\ NR_TASKS \in Nat /\ NR_TASKS >= 3
    /\ DEFAULT_QUANTUM \in Nat /\ DEFAULT_QUANTUM >= 2
    /\ MaxPID \in Nat /\ MaxPending \in Nat

Tasks == 0 .. NR_TASKS - 1
\* init_sched uses list_add: the freequeue is a stack at boot.
idle_task == NR_TASKS - 1
task1 == NR_TASKS - 2

\* Addresses of the list_heads.
list(t) == t
kids(t) == NR_TASKS + t
freequeue == 2 * NR_TASKS
readyqueue == freequeue + 1
blocked == freequeue + 2
Nodes == NULL .. blocked

VARIABLES
    heap,               \* next and prev of every list_head
    PID, state, parent, pending_unblocks, kernel_esp,   \* fields of task[t]
    current,
    queue_ticks,
    PID_counter,
    zeos_ticks,         \* its parity: nothing depends on its value
    hung,               \* the kernel never returns to a process again
    asleep,             \* not in the code: who blocked, and no unblock came
    reforked,           \* not in the code: some process forked a second time
    gone                \* not in the code: the PCBs that hold no process

fields == <<PID, state, parent, pending_unblocks, kernel_esp>>
vars == <<heap, fields, current, queue_ticks, PID_counter, zeos_ticks, hung, asleep,
          reforked, gone>>

NoTask == -1

\* init_sched, init_idle, init_task1: both were unlinked from the freequeue.
BootHeap ==
    [x \in Nodes |->
       CASE x \in 0 .. NR_TASKS - 3 ->
              [next |-> IF x = 0 THEN freequeue ELSE x - 1,
               prev |-> IF x = NR_TASKS - 3 THEN freequeue ELSE x + 1]
         [] x = freequeue -> [next |-> NR_TASKS - 3, prev |-> 0]
         [] x \in {kids(idle_task), kids(task1), readyqueue, blocked} ->
              [next |-> x, prev |-> x]
         [] OTHER -> [next |-> NULL, prev |-> NULL]]

Init ==
    /\ heap = BootHeap
    /\ PID = [t \in Tasks |-> IF t = task1 THEN 1 ELSE 0]
    /\ state = [t \in Tasks |-> IF t = idle_task THEN "ST_READY" ELSE "ST_RUN"]
    /\ parent = [t \in Tasks |-> NoTask]
    /\ pending_unblocks = [t \in Tasks |-> 0]
    /\ kernel_esp = [t \in Tasks |-> IF t = idle_task THEN "cpu_idle" ELSE "zero"]
    /\ current = task1
    /\ queue_ticks = DEFAULT_QUANTUM
    /\ PID_counter = 2
    /\ zeos_ticks = 0
    /\ hung = FALSE
    /\ asleep = {} /\ reforked = FALSE /\ gone = Tasks \ {idle_task, task1}

\* Idle runs cpu_idle; the others make system calls.
InUserCode == ~hung /\ current # idle_task

-----------------------------------------------------------------------------
(* sched.c *)

RequeueBug(h, t) == list_add_tail(h, list(t), readyqueue)
\* update_process_state_rr(t, &readyqueue) of a process that is in a list.
Requeue(h, t) == list_add_tail(list_del(h, list(t)), list(t), readyqueue)

\* task_switch to t on kernel path p, states st and links h.  switch_stack is
\* given t's saved pointer as read before the current one is stored: a process
\* that switches to itself survives only if it came the same way before.
TaskSwitch(h, st, t, p) ==
    /\ heap' = h
    /\ state' = st
    /\ queue_ticks' = DEFAULT_QUANTUM
    /\ current' = t
    /\ kernel_esp' = [kernel_esp EXCEPT ![current] = p]
    /\ hung' = (t = current /\ kernel_esp[current] # p)

\* sched_next_rr; update_process_state_rr unlinks the first of the readyqueue
\* unless it is marked running.  A first that is no PCB is the end.
SchedNext(h, st, p) ==
    LET t == list_first(h, readyqueue) IN
    \/ t = readyqueue /\ TaskSwitch(h, st, idle_task, p)
    \/ /\ t \in Tasks
       /\ TaskSwitch(IF st[t] = "ST_RUN" THEN h ELSE list_del(h, list(t)),
                     [st EXCEPT ![t] = "ST_RUN"], t, p)
    \/ /\ t \notin Tasks \cup {readyqueue}
       /\ heap' = h /\ state' = st /\ hung' = TRUE
       /\ UNCHANGED <<queue_ticks, current, kernel_esp>>

-----------------------------------------------------------------------------
(* interrupt.c *)

\* The clock routine counts, shows the time and returns.
clock_routine ==
    /\ ~hung
    /\ zeos_ticks' = 1 - zeos_ticks
    /\ UNCHANGED <<heap, fields, current, queue_ticks, PID_counter, hung, asleep,
                   reforked, gone>>

-----------------------------------------------------------------------------
(* sys.c *)

NoKids == list_empty(heap, kids(current))

ForkNoTask ==
    /\ InUserCode /\ list_empty(heap, freequeue)
    /\ UNCHANGED vars

\* The links after fork has taken PCB c: the copy of the parent's PCB (its list
\* is unlinked while it runs), an empty kids, then the two additions of the one
\* list_head.
ForkedHeap(h, c) ==
    LET copied == [h EXCEPT ![list(c)] = h[list(current)]]
        born == INIT_LIST_HEAD(copied, kids(c))
    IN  list_add_tail(list_add_tail(born, list(c), kids(current)),
                      list(c), readyqueue)

NewPIDBug == PID[current] + 1
NewPID == PID_counter

ForkOK ==
    /\ InUserCode /\ list_first(heap, freequeue) \in Tasks /\ PID_counter < MaxPID
    /\ LET c == list_first(heap, freequeue) IN
       /\ heap' = ForkedHeap(list_del(heap, list(c)), c)
       /\ PID' = [PID EXCEPT ![c] = NewPID]
       /\ parent' = [parent EXCEPT ![c] = current]
       /\ state' = [state EXCEPT ![c] = "ST_READY"]
       /\ pending_unblocks' = [pending_unblocks EXCEPT ![c] = 0]
       /\ kernel_esp' = [kernel_esp EXCEPT ![c] = "ret_from_fork"]
       /\ asleep' = asleep \ {c}
       /\ gone' = gone \ {c}
    /\ PID_counter' = PID_counter + 1
    /\ reforked' = (reforked \/ ~NoKids)
    /\ UNCHANGED <<current, queue_ticks, zeos_ticks, hung>>

\* The links after a fork that gives PCB c back: with the copy of the parent's PCB.
GivenBack(h, c) ==
    list_add_tail([h EXCEPT ![list(c)] = h[list(current)], ![kids(c)] = h[kids(current)]],
                  list(c), freequeue)

\* init_child_address_space runs out of frames, -EAGAIN: c is free again, at the
\* other end of the freequeue, and the parent's PCB is still copied into it.
ForkNoFrames ==
    /\ InUserCode /\ list_first(heap, freequeue) \in Tasks
    /\ LET c == list_first(heap, freequeue) IN
       /\ heap' = GivenBack(list_del(heap, list(c)), c)
       /\ PID' = [PID EXCEPT ![c] = PID[current]]
       /\ parent' = [parent EXCEPT ![c] = parent[current]]
       /\ state' = [state EXCEPT ![c] = state[current]]
       /\ pending_unblocks' = [pending_unblocks EXCEPT ![c] = pending_unblocks[current]]
       /\ kernel_esp' = [kernel_esp EXCEPT ![c] = kernel_esp[current]]
       /\ asleep' = asleep \ {c}
       /\ gone' = gone \cup {c}
    /\ UNCHANGED <<current, queue_ticks, PID_counter, zeos_ticks, hung, reforked>>

\* fork takes something from the freequeue that is no PCB.
ForkWild ==
    /\ InUserCode /\ list_first(heap, freequeue) \notin Tasks \cup {freequeue}
    /\ hung' = TRUE
    /\ UNCHANGED <<heap, fields, current, queue_ticks, PID_counter, zeos_ticks,
                   asleep, reforked, gone>>

\* Task 1 may not exit.
ExitRefused == InUserCode /\ PID[current] = 1 /\ UNCHANGED vars

\* Without children: the PCB goes to the freequeue and keeps its PID.
ExitAlone ==
    /\ InUserCode /\ PID[current] # 1 /\ NoKids
    /\ SchedNext(list_add_tail(heap, list(current), freequeue), state, "exit")
    /\ asleep' = asleep \ {current} /\ gone' = gone \cup {current}
    /\ UNCHANGED <<PID, parent, pending_unblocks, PID_counter, zeos_ticks, reforked>>

\* With children: the first turn of list_for_each links the child into idle's
\* kids, unlinks it again, and goes on at the next of the unlinked entry, which
\* is NULL.  From there it never finds the head: it faults, or it goes round
\* through address 0 where fork has made page 0 present.
ExitWithKids ==
    /\ InUserCode /\ PID[current] # 1 /\ ~NoKids
    /\ LET k == list_first(heap, kids(current)) IN
       /\ heap' = list_del(list_add_tail(heap, k, kids(idle_task)), k)
       /\ parent' = [parent EXCEPT ![k] = idle_task]
    /\ hung' = TRUE
    /\ UNCHANGED <<PID, state, pending_unblocks, kernel_esp, current, queue_ticks,
                   PID_counter, zeos_ticks, asleep, reforked, gone>>

sys_exit == ExitRefused \/ ExitAlone \/ ExitWithKids

\* An unblock came before: it is used up.
BlockPending ==
    /\ InUserCode /\ pending_unblocks[current] > 0
    /\ pending_unblocks' = [pending_unblocks EXCEPT ![current] = @ - 1]
    /\ UNCHANGED <<heap, PID, state, parent, kernel_esp, current, queue_ticks,
                   PID_counter, zeos_ticks, hung, asleep, reforked, gone>>

\* Into the blocked queue and schedule(): the quantum is not over, the state is
\* ST_BLOCKED, so needs_sched_rr says 1 and the process is moved from there to
\* the end of the readyqueue, ready again.
BlockNow ==
    /\ InUserCode /\ pending_unblocks[current] = 0 /\ queue_ticks - 1 > 0
    /\ SchedNext(Requeue(list_add_tail(heap, list(current), blocked), current),
                 [state EXCEPT ![current] = "ST_READY"], "block")
    /\ asleep' = asleep \cup {current}
    /\ UNCHANGED <<PID, parent, pending_unblocks, PID_counter, zeos_ticks, reforked, gone>>

sys_block == BlockPending \/ BlockNow

\* The walk of unblock along the children: more turns than there are nodes.
Turns == blocked + 2
\* The cursor w[i] stands on the list of the PCB with this PID.  (What is read
\* as the PID on another node, a head, is taken to be none that is looked for.)
Hit(w, i, pid) == w[i] \in Tasks /\ PID[w[i]] = pid
\* Turn i is the first at which the loop ends, finds pid, or meets NULL.
StopsAt(w, i, pid) ==
    /\ w[i] \in {kids(current), NULL} \/ Hit(w, i, pid)
    /\ \A j \in 0 .. i - 1 : w[j] \notin {kids(current), NULL} /\ ~Hit(w, j, pid)

\* A child that is not blocked: the caller's own counter grows.
Credit == [pending_unblocks EXCEPT ![current] = @ + 1]

UnblockFound(w, pid) ==
    \E i \in 0 .. Turns :
      /\ StopsAt(w, i, pid) /\ Hit(w, i, pid)
      /\ pending_unblocks[current] < MaxPending
      /\ IF state[w[i]] = "ST_BLOCKED"
         THEN /\ heap' = Requeue(heap, w[i])
              /\ state' = [state EXCEPT ![w[i]] = "ST_READY"]
              /\ UNCHANGED pending_unblocks
         ELSE /\ pending_unblocks' = Credit
              /\ UNCHANGED <<heap, state>>
      /\ asleep' = asleep \ {w[i]}
      /\ UNCHANGED <<PID, parent, kernel_esp, current, queue_ticks, PID_counter,
                     zeos_ticks, hung, reforked, gone>>

\* -ECHILD.
UnblockNone(w, pid) ==
    /\ \E i \in 0 .. Turns : StopsAt(w, i, pid) /\ w[i] = kids(current)
    /\ UNCHANGED vars

\* The walk left the children for another list, or fell through NULL.
UnblockHangs(w, pid) ==
    /\ \A i \in 0 .. Turns : StopsAt(w, i, pid) => w[i] = NULL
    /\ hung' = TRUE
    /\ UNCHANGED <<heap, fields, current, queue_ticks, PID_counter, zeos_ticks,
                   asleep, reforked, gone>>

sys_unblock(pid) ==
    /\ InUserCode
    /\ LET w == Cursor(heap, kids(current), Turns)
       IN  UnblockFound(w, pid) \/ UnblockNone(w, pid) \/ UnblockHangs(w, pid)

Hung == hung /\ UNCHANGED vars

Next == \/ clock_routine
        \/ ForkNoTask \/ ForkNoFrames \/ ForkOK \/ ForkWild
        \/ sys_exit
        \/ sys_block
        \/ \E pid \in 0 .. MaxPID : sys_unblock(pid)
        \/ Hung

Spec == Init /\ [][Next]_vars

-----------------------------------------------------------------------------
(* Properties *)

InFree == ForEach(heap, freequeue, Turns)
InReady == ForEach(heap, readyqueue, Turns)
Elems(q) == {q[i] : i \in DOMAIN q}

\* As long as no process forks a second time, the one list_head per PCB is
\* enough: both queues are well-formed lists of PCBs, every PCB is in exactly
\* one of them, running, or idle, and the ready ones are marked ST_READY.
ListsSound ==
    ~hung /\ ~reforked =>
      /\ Ends(heap, freequeue, Turns) /\ Ends(heap, readyqueue, Turns)
      /\ Len(InFree) + Len(InReady) = Cardinality(Elems(InFree) \cup Elems(InReady))
      /\ {current, idle_task} = Tasks \ (Elems(InFree) \cup Elems(InReady))
      /\ \A t \in Elems(InReady) : state[t] = "ST_READY"

\* Two processes never have the same PID, and none gets one that was given out
\* before, although an exit and a fork without frames leave PIDs in free PCBs.
PIDsUnique ==
    /\ \A t \in Tasks : PID[t] < PID_counter
    /\ \A t, u \in Tasks \ gone : PID[t] = PID[u] => t = u

\* Zeos.txt: block stops the process until another one allows its execution
\* again.  A process that has blocked does not run before it is unblocked.
BlockWaits == ~hung => current \notin asleep

\* Zeos.txt: unblock of a child that is not blocked increases the child's
\* number of pending unblocks.
UnblockReachesChild ==
    [][\A t \in Tasks : pending_unblocks'[t] > pending_unblocks[t] => parent[t] = current]_vars

\* sys.c: exit hands the children over to idle and gives the CPU away; it
\* always completes.
ExitReturns == [][sys_exit => ~hung']_vars
=============================================================================
