--------------------------- MODULE ZeosProcProofs ---------------------------
(***************************************************************************)
(* Proofs about ZeosProc, for every number of PCBs, frames and pages and   *)
(* every quantum.                                                          *)
(***************************************************************************)
EXTENDS ZeosProcRefines, FiniteSetTheorems, TLAPS

USE DEF list_empty, list_add_tail, ListDelFirst, SetPage, AllocateDIR, ExitPID,
        NewPID, MorePages, QuantumOver, Refill, DonePages

-----------------------------------------------------------------------------
(* Queues as sequences *)

\* What list_add_tail does to the elements of a list without repetitions.
LEMMA AppendElems ==
    ASSUME NEW S, NEW s \in Seq(S), NEW e \in S
    PROVE  /\ Append(s, e) \in Seq(S)
           /\ Append(s, e) # <<>>
           /\ Range(Append(s, e)) = Range(s) \cup {e}
           /\ IsInjective(s) /\ e \notin Range(s) => IsInjective(Append(s, e))
<1> DEFINE a == Append(s, e)
<1>1. /\ a \in Seq(S) /\ Len(a) = Len(s) + 1 /\ Len(s) \in Nat
      /\ DOMAIN a = 1 .. Len(s) + 1 /\ DOMAIN s = 1 .. Len(s)
      /\ a[Len(s) + 1] = e
      /\ \A i \in 1 .. Len(s) : a[i] = s[i]
  OBVIOUS
<1>2. Range(a) = Range(s) \cup {e}
  BY <1>1 DEF Range
<1>3. ASSUME IsInjective(s), e \notin Range(s)
      PROVE  IsInjective(a)
  BY <1>1, <1>3 DEF IsInjective, Range
<1> QED BY <1>1, <1>2, <1>3

\* What taking the first entry of a list (list_first, list_del) leaves.
LEMMA TailElems ==
    ASSUME NEW S, NEW s \in Seq(S), s # <<>>
    PROVE  /\ Tail(s) \in Seq(S)
           /\ Head(s) \in S
           /\ Range(s) = Range(Tail(s)) \cup {Head(s)}
           /\ IsInjective(s) => IsInjective(Tail(s)) /\ Head(s) \notin Range(Tail(s))
<1> DEFINE r == Tail(s)
<1>1. /\ r \in Seq(S) /\ Head(s) \in S /\ Head(s) = s[1]
      /\ Len(s) \in Nat /\ Len(s) > 0
      /\ DOMAIN r = 1 .. Len(s) - 1 /\ DOMAIN s = 1 .. Len(s)
      /\ \A i \in 1 .. Len(s) - 1 : r[i] = s[i + 1]
  OBVIOUS
<1>2. Range(s) \subseteq Range(r) \cup {Head(s)}
  <2> SUFFICES ASSUME NEW i \in 1 .. Len(s) PROVE s[i] \in Range(r) \cup {Head(s)}
    BY <1>1 DEF Range
  <2>1. CASE i = 1
    BY <2>1, <1>1
  <2>2. CASE i # 1
    <3>1. i - 1 \in DOMAIN r /\ r[i - 1] = s[i]
      BY <2>2, <1>1
    <3> QED BY <3>1 DEF Range
  <2> QED BY <2>1, <2>2
<1>3. Range(r) \cup {Head(s)} \subseteq Range(s)
  BY <1>1 DEF Range
<1>4. ASSUME IsInjective(s)
      PROVE  IsInjective(r) /\ Head(s) \notin Range(r)
  <2>1. IsInjective(r)
    <3> SUFFICES ASSUME NEW i \in DOMAIN r, NEW j \in DOMAIN r, r[i] = r[j]
                 PROVE  i = j
      BY DEF IsInjective
    <3>1. s[i + 1] = s[j + 1] /\ i + 1 \in DOMAIN s /\ j + 1 \in DOMAIN s
      BY <1>1
    <3>2. i + 1 = j + 1
      BY <3>1, <1>4 DEF IsInjective
    <3> QED BY <3>2, <1>1
  <2>2. ASSUME NEW i \in DOMAIN r, r[i] = Head(s)
        PROVE  FALSE
    <3>1. s[i + 1] = s[1] /\ i + 1 \in DOMAIN s /\ 1 \in DOMAIN s
      BY <1>1, <2>2
    <3>2. i + 1 = 1
      BY <3>1, <1>4 DEF IsInjective
    <3> QED BY <3>2, <1>1
  <2> QED BY <2>1, <2>2 DEF Range
<1> QED BY <1>1, <1>2, <1>3, <1>4

-----------------------------------------------------------------------------
(* The constants *)

LEMMA TaskFacts ==
    /\ idle_task \in Tasks /\ task1 \in Tasks /\ idle_task # task1
    /\ NoDir \notin Tasks
BY TasksAssumption DEF Tasks, idle_task, task1, NoDir

LEMMA PageFacts ==
    /\ CodePages \subseteq UserPages /\ DataPages \subseteq UserPages
    /\ TempPages \subseteq UserPages
    /\ CodePages \cap DataPages = {} /\ CodePages \cap TempPages = {}
    /\ DataPages \cap TempPages = {}
    /\ NoFrame \in Frames /\ NoFrame \notin ScanFrames
    /\ ScanFrames \subseteq Frames
BY PagesAssumption, RoomAssumption
   DEF CodePages, DataPages, TempPages, UserPages, NoFrame, Frames, ScanFrames,
       PAG_LOG_INIT_CODE, PAG_LOG_INIT_DATA

\* The pages set_user_pages maps at boot get frames alloc_frame scans, all
\* different.
LEMMA BootFacts ==
    /\ \A p \in CodePages \cup DataPages : BootFrame(p) \in ScanFrames
    /\ \A p, q \in CodePages \cup DataPages : BootFrame(p) = BootFrame(q) => p = q
    /\ NUM_PAG_KERNEL \in FramesOf(BootTable, CodePages)
    /\ BootTable \in [UserPages -> Frames]
<1> USE PagesAssumption, RoomAssumption
<1>1. ASSUME NEW p \in CodePages \cup DataPages
      PROVE  BootFrame(p) \in ScanFrames
  <2> DEFINE k == p - PAG_LOG_INIT_CODE
  <2>1. /\ k \in Nat /\ k < NUM_PAG_CODE + NUM_PAG_DATA
        /\ BootFrame(p) = NUM_PAG_KERNEL + 2 * k
    BY DEF CodePages, DataPages, PAG_LOG_INIT_CODE, PAG_LOG_INIT_DATA, BootFrame
  <2> HIDE DEF k
  <2>2. BootFrame(p) \in Frames /\ BootFrame(p) >= NUM_PAG_KERNEL
    BY <2>1 DEF Frames
  <2>3. (BootFrame(p) - NUM_PAG_KERNEL) % 2 = 0
    BY <2>1
  <2> QED BY <2>2, <2>3 DEF ScanFrames
<1>2. ASSUME NEW p \in CodePages \cup DataPages, NEW q \in CodePages \cup DataPages,
             BootFrame(p) = BootFrame(q)
      PROVE  p = q
  BY <1>2 DEF CodePages, DataPages, PAG_LOG_INIT_CODE, PAG_LOG_INIT_DATA, BootFrame
<1>3. NUM_PAG_KERNEL \in FramesOf(BootTable, CodePages)
  <2>1. PAG_LOG_INIT_CODE \in CodePages /\ PAG_LOG_INIT_CODE \in UserPages
    BY DEF CodePages, UserPages, PAG_LOG_INIT_CODE, PAG_LOG_INIT_DATA
  <2>2. BootTable[PAG_LOG_INIT_CODE] = NUM_PAG_KERNEL
    BY <2>1 DEF BootTable, BootFrame, PAG_LOG_INIT_CODE
  <2> QED BY <2>1, <2>2 DEF FramesOf
<1>4. BootTable \in [UserPages -> Frames]
  BY <1>1, PageFacts DEF BootTable
<1> QED BY <1>1, <1>2, <1>3, <1>4

-----------------------------------------------------------------------------
(* Types *)

LEMMA TypeInit == Init => TypeOK
<1> SUFFICES ASSUME Init PROVE TypeOK
  OBVIOUS
<1>1. freequeue \in Seq(Tasks) /\ readyqueue \in Seq(Tasks)
  <2>1. freequeue \in [1 .. NR_TASKS - 2 -> Tasks] /\ NR_TASKS - 2 \in Nat
    BY TasksAssumption DEF Init, Tasks
  <2> QED BY <2>1 DEF Init
<1>2. /\ PID \in [Tasks -> Int] /\ state \in [Tasks -> States]
      /\ dir \in [Tasks -> Tasks \cup {NoDir}] /\ current \in Tasks
      /\ child \in Tasks
  BY TaskFacts DEF Init, States
<1>3. /\ total_quantum \in [Tasks -> Nat] /\ remaining_quantum \in Int
      /\ global_PID \in Nat /\ pag \in 0 .. NUM_PAG_DATA
      /\ kpath \in {"user", "alloc", "copy"}
  BY QuantumAssumption, PagesAssumption DEF Init, INITIAL_PID
<1>4. phys_mem \in [Frames -> {FREE_FRAME, USED_FRAME}]
  BY DEF Init
<1>5. pt \in [Tasks -> [UserPages -> Frames]]
  BY BootFacts, PageFacts DEF Init
<1> QED BY <1>1, <1>2, <1>3, <1>4, <1>5 DEF TypeOK

\* What sched_next_rr does to the variables it assigns.
LEMMA SchedNextType ==
    ASSUME TypeOK, NEW q \in Seq(Tasks), NEW st \in [Tasks -> States],
           SchedNext(q, st)
    PROVE  /\ readyqueue' \in Seq(Tasks) /\ state' \in [Tasks -> States]
           /\ remaining_quantum' \in Int /\ current' \in Tasks
<1> DEFINE t == IF q # <<>> THEN Head(q) ELSE idle_task
<1>1. /\ t \in Tasks
      /\ readyqueue' \in Seq(Tasks)
  BY TaskFacts, TailElems DEF SchedNext
<1> QED BY <1>1 DEF SchedNext, TypeOK, States

LEMMA TypeStep == TypeOK /\ SchedInv /\ [Next]_vars => TypeOK'
<1> SUFFICES ASSUME TypeOK, SchedInv, [Next]_vars PROVE TypeOK'
  OBVIOUS
<1> USE PagesAssumption
<1>1. ASSUME UNCHANGED vars PROVE TypeOK'
  BY <1>1 DEF TypeOK, vars, sched, memory, forking
<1>2. ASSUME ForceTaskSwitch, UNCHANGED <<memory, forking>> PROVE TypeOK'
  <2>1. Requeue(current) = Append(readyqueue, current)
    BY DEF Requeue, SchedInv, StateMatchesQueue
  <2>2. Requeue(current) \in Seq(Tasks)
    BY <2>1 DEF TypeOK
  <2>3. [state EXCEPT ![current] = "ST_READY"] \in [Tasks -> States]
    BY DEF TypeOK, States
  <2>4. /\ readyqueue' \in Seq(Tasks) /\ state' \in [Tasks -> States]
        /\ remaining_quantum' \in Int /\ current' \in Tasks
    BY <1>2, <2>2, <2>3, SchedNextType DEF ForceTaskSwitch
  <2> QED BY <1>2, <2>4 DEF TypeOK, ForceTaskSwitch, memory, forking
<1>3. CASE ClockSwitch
  BY <1>2, <1>3 DEF ClockSwitch
<1>4. CASE ClockStay
  BY <1>4 DEF TypeOK, ClockStay, memory, forking
<1>5. CASE sys_yield
  BY <1>2, <1>5 DEF sys_yield
<1>6. CASE sys_exit
  <2>1. /\ readyqueue' \in Seq(Tasks) /\ state' \in [Tasks -> States]
        /\ remaining_quantum' \in Int /\ current' \in Tasks
    BY <1>6, SchedNextType DEF sys_exit, TypeOK
  <2>2. phys_mem' \in [Frames -> {FREE_FRAME, USED_FRAME}]
    BY <1>6 DEF sys_exit, FreeFrames, TypeOK
  <2>3. pt' \in [Tasks -> [UserPages -> Frames]]
    BY <1>6, PageFacts DEF sys_exit, DelPages, TypeOK
  <2>4. freequeue' \in Seq(Tasks) /\ PID' \in [Tasks -> Int]
    BY <1>6 DEF sys_exit, TypeOK
  <2> QED BY <1>6, <2>1, <2>2, <2>3, <2>4 DEF sys_exit, TypeOK, forking
<1>7. CASE ForkNoTask
  BY <1>1, <1>7 DEF ForkNoTask
<1>8. CASE ForkBegin
  <2>1. Head(freequeue) \in Tasks /\ freequeue' \in Seq(Tasks)
    BY <1>8, TailElems DEF ForkBegin, TypeOK
  <2> QED BY <1>8, <2>1 DEF ForkBegin, TypeOK, memory
<1>9. CASE ForkAlloc
  <2>1. PICK f \in Frames :
          /\ phys_mem' = [phys_mem EXCEPT ![f] = USED_FRAME]
          /\ pt' = [pt EXCEPT ![dir[child]][PAG_LOG_INIT_DATA + pag] = f]
    BY <1>9 DEF ForkAlloc
  <2>2. phys_mem' \in [Frames -> {FREE_FRAME, USED_FRAME}]
    BY <2>1 DEF TypeOK
  <2>3. pt' \in [Tasks -> [UserPages -> Frames]]
    BY <2>1 DEF TypeOK
  <2>4. pag' \in 0 .. NUM_PAG_DATA
    BY <1>9 DEF ForkAlloc, TypeOK
  <2> QED BY <1>9, <2>2, <2>3, <2>4 DEF ForkAlloc, TypeOK, sched
<1>10. CASE ForkNoFrame
  <2>1. phys_mem' \in [Frames -> {FREE_FRAME, USED_FRAME}]
    BY <1>10 DEF ForkNoFrame, FreeFrames, TypeOK
  <2>2. pt' \in [Tasks -> [UserPages -> Frames]]
    BY <1>10, PageFacts DEF ForkNoFrame, DelPages, TypeOK
  <2>3. freequeue' \in Seq(Tasks) /\ child' \in Tasks /\ pag' \in 0 .. NUM_PAG_DATA
    BY <1>10, TaskFacts DEF ForkNoFrame, TypeOK
  <2> QED BY <1>10, <2>1, <2>2, <2>3 DEF ForkNoFrame, TypeOK
<1>11. CASE ForkShareCode
  <2>1. pt[dir[current]] \in [UserPages -> Frames]
    BY DEF SchedInv, OwnTable, TypeOK
  <2>2. pt' \in [Tasks -> [UserPages -> Frames]]
    BY <1>11, <2>1 DEF ForkShareCode, TypeOK
  <2> QED BY <1>11, <2>2 DEF ForkShareCode, TypeOK, sched
<1>12. CASE ForkCopyPage
  <2>1. pt' \in [Tasks -> [UserPages -> Frames]]
    BY <1>12, PageFacts DEF ForkCopyPage, DelPages, TypeOK
  <2>2. pag' \in 0 .. NUM_PAG_DATA
    BY <1>12 DEF ForkCopyPage, TypeOK
  <2> QED BY <1>12, <2>1, <2>2 DEF ForkCopyPage, TypeOK, sched
<1>13. CASE ForkEnd
  <2>1. readyqueue' \in Seq(Tasks) /\ state' \in [Tasks -> States]
    BY <1>13 DEF ForkEnd, TypeOK, States
  <2> QED BY <1>13, <2>1, TaskFacts DEF ForkEnd, TypeOK, memory
<1> QED BY <1>1, <1>3, <1>4, <1>5, <1>6, <1>7, <1>8, <1>9, <1>10, <1>11, <1>12,
           <1>13 DEF Next, Clock, sys_fork, ForkStep


-----------------------------------------------------------------------------
(* The lists, the states and the quantum *)

LEMMA EmptyElems == Range(<<>>) = {} /\ IsInjective(<<>>)
BY DEF Range, IsInjective

LEMMA SchedInit == Init => SchedInv
<1> SUFFICES ASSUME Init PROVE SchedInv
  OBVIOUS
<1> USE TasksAssumption, QuantumAssumption
<1>1. /\ DOMAIN freequeue = 1 .. NR_TASKS - 2
      /\ \A i \in 1 .. NR_TASKS - 2 : freequeue[i] = i + 1
  BY DEF Init
<1>2. /\ Waiting = {} /\ IsInjective(readyqueue) /\ Forking = {}
  BY EmptyElems DEF Init, Waiting, Forking
<1>3. Free = 2 .. NR_TASKS - 1
  <2>1. ASSUME NEW x \in 2 .. NR_TASKS - 1
        PROVE  x \in Free
    <3>1. x - 1 \in DOMAIN freequeue /\ freequeue[x - 1] = x
      BY <1>1
    <3> QED BY <3>1 DEF Free, Range
  <2>2. \A x \in Free : x \in 2 .. NR_TASKS - 1
    BY <1>1 DEF Free, Range
  <2> QED BY <2>1, <2>2
<1>4. IsInjective(freequeue)
  BY <1>1 DEF IsInjective
<1>5. OnePlace
  BY <1>2, <1>3, <1>4 DEF OnePlace, Init, Tasks, idle_task, task1
<1>6. StateMatchesQueue /\ IdleOnlyIfNoneReady
  BY <1>2, TaskFacts DEF StateMatchesQueue, IdleOnlyIfNoneReady, Init
<1>7. QuantumNeverOver /\ OwnTable
  BY <1>2, TaskFacts DEF QuantumNeverOver, OwnTable, Owners, Live, Init
<1> QED BY <1>5, <1>6, <1>7 DEF SchedInv, Init

\* sched_next_rr takes the first of a well-formed queue, or idle.
LEMMA SchedNextElems ==
    ASSUME TypeOK, NEW q \in Seq(Tasks), NEW st \in [Tasks -> States],
           IsInjective(q), SchedNext(q, st)
    PROVE  /\ IsInjective(readyqueue')
           /\ current' \notin Range(readyqueue') \/ current' = idle_task
           /\ \/ q # <<>> /\ Range(q) = Range(readyqueue') \cup {current'}
                 /\ current' \notin Range(readyqueue')
              \/ q = <<>> /\ readyqueue' = <<>> /\ current' = idle_task
           /\ current' \in Tasks
           /\ state' = [st EXCEPT ![current'] = "ST_RUN"]
           /\ remaining_quantum' = total_quantum[current']
<1>1. CASE q # <<>>
  <2>1. readyqueue' = Tail(q) /\ current' = Head(q)
    BY <1>1 DEF SchedNext
  <2>2. /\ Range(q) = Range(Tail(q)) \cup {Head(q)} /\ Head(q) \in Tasks
        /\ IsInjective(Tail(q)) /\ Head(q) \notin Range(Tail(q))
    BY <1>1, TailElems
  <2> QED BY <1>1, <2>1, <2>2 DEF SchedNext
<1>2. CASE q = <<>>
  <2>1. readyqueue' = <<>> /\ current' = idle_task
    BY <1>2 DEF SchedNext
  <2> QED BY <1>2, <2>1, TaskFacts, EmptyElems DEF SchedNext
<1> QED BY <1>1, <1>2

\* A voluntary or forced switch away from a process of the user.
LEMMA SwitchSched ==
    ASSUME TypeOK, SchedInv, kpath = "user", current # idle_task,
           ForceTaskSwitch, UNCHANGED forking
    PROVE  SchedInv'
<1> DEFINE q == Append(readyqueue, current)
           st == [state EXCEPT ![current] = "ST_READY"]
<1>1. /\ SchedNext(q, st)
      /\ UNCHANGED <<freequeue, PID, total_quantum, dir, global_PID>>
  BY DEF ForceTaskSwitch, Requeue, SchedInv, StateMatchesQueue
<1>2. /\ q \in Seq(Tasks) /\ q # <<>> /\ IsInjective(q)
      /\ Range(q) = Waiting \cup {current}
  <2>1. /\ readyqueue \in Seq(Tasks) /\ current \in Tasks
        /\ IsInjective(readyqueue) /\ current \notin Range(readyqueue)
    BY DEF TypeOK, SchedInv, OnePlace, Waiting
  <2> QED BY <2>1, AppendElems DEF Waiting
<1>3. st \in [Tasks -> States]
  BY DEF TypeOK, States
<1> HIDE DEF q, st
<1>4. /\ IsInjective(readyqueue') /\ current' \notin Range(readyqueue')
      /\ Range(q) = Range(readyqueue') \cup {current'}
      /\ current' \in Tasks
      /\ state' = [st EXCEPT ![current'] = "ST_RUN"]
      /\ remaining_quantum' = total_quantum[current']
  BY <1>1, <1>2, <1>3, SchedNextElems
<1>5. Waiting' \cup {current'} = Waiting \cup {current} /\ Free' = Free
      /\ Forking = {} /\ Forking' = {} /\ current' \notin Waiting'
      /\ current' # idle_task
  <2>1. Waiting' \cup {current'} = Waiting \cup {current} /\ current' \notin Waiting'
    BY <1>2, <1>4 DEF Waiting
  <2> QED BY <2>1, <1>1 DEF Free, Forking, forking, SchedInv, OnePlace
<1>6. OnePlace'
  BY <1>1, <1>4, <1>5 DEF SchedInv, OnePlace
<1>7. StateMatchesQueue'
  <2>1. state'[current'] = "ST_RUN"
    BY <1>3, <1>4
  <2>2. ASSUME NEW t \in Waiting'
        PROVE  state'[t] = "ST_READY"
    <3>1. t # current' /\ t \in Waiting \cup {current} /\ t \in Tasks
      BY <1>5, <1>6 DEF OnePlace
    <3>2. st[t] = "ST_READY"
      BY <3>1 DEF st, SchedInv, StateMatchesQueue, TypeOK
    <3> QED BY <3>1, <3>2, <1>3, <1>4
  <2> QED BY <2>1, <2>2 DEF StateMatchesQueue
<1>8. IdleOnlyIfNoneReady'
  BY <1>5 DEF IdleOnlyIfNoneReady
<1>9. QuantumNeverOver' /\ OwnTable'
  BY <1>1, <1>4, <1>5, QuantumAssumption
     DEF SchedInv, QuantumNeverOver, OwnTable, Owners, Live
<1>10. kpath' = "user"
  BY DEF forking
<1> QED BY <1>6, <1>7, <1>8, <1>9, <1>10 DEF SchedInv

LEMMA SchedStep == TypeOK /\ SchedInv /\ [Next]_vars => SchedInv'
<1> SUFFICES ASSUME TypeOK, SchedInv, [Next]_vars PROVE SchedInv'
  OBVIOUS
<1>0. /\ freequeue \in Seq(Tasks) /\ readyqueue \in Seq(Tasks)
      /\ current \in Tasks /\ child \in Tasks
      /\ IsInjective(freequeue) /\ IsInjective(readyqueue)
  BY DEF TypeOK, SchedInv, OnePlace
<1>1. ASSUME UNCHANGED sched, Forking' = Forking,
             kpath' # "user" => kpath # "user"
      PROVE  SchedInv'
  BY <1>1 DEF sched, SchedInv, OnePlace, StateMatchesQueue, IdleOnlyIfNoneReady,
     QuantumNeverOver, OwnTable, Owners, Live, Waiting, Free
<1>2. CASE UNCHANGED vars
  BY <1>1, <1>2 DEF vars, forking, Forking
<1>3. CASE ClockSwitch
  BY <1>3, SwitchSched DEF ClockSwitch, SchedInv, IdleOnlyIfNoneReady, forking
<1>4. CASE ClockStay
  <2>1. remaining_quantum' \in 1 .. DEFAULT_QUANTUM
    <3>1. total_quantum[current] = DEFAULT_QUANTUM
      BY DEF SchedInv, QuantumNeverOver, Owners, Live
    <3> QED BY <1>4, <3>1, QuantumAssumption DEF ClockStay, SchedInv, QuantumNeverOver
  <2>2. /\ Waiting' = Waiting /\ Free' = Free /\ Forking' = Forking
        /\ UNCHANGED <<freequeue, readyqueue, state, total_quantum, dir, current, kpath>>
    BY <1>4 DEF ClockStay, forking, Waiting, Free, Forking
  <2> QED BY <2>1, <2>2 DEF SchedInv, OnePlace, StateMatchesQueue,
             IdleOnlyIfNoneReady, QuantumNeverOver, OwnTable, Owners, Live
<1>5. CASE sys_yield
  BY <1>5, SwitchSched DEF sys_yield, InUserCode, forking
<1>6. CASE sys_exit
  <2>1. /\ kpath = "user" /\ current # idle_task
        /\ freequeue' = Append(freequeue, current)
        /\ SchedNext(readyqueue, state)
        /\ UNCHANGED <<total_quantum, dir, kpath, child>>
    BY <1>6 DEF sys_exit, InUserCode, forking
  <2>2. /\ IsInjective(readyqueue')
        /\ \/ readyqueue # <<>> /\ Waiting = Waiting' \cup {current'}
              /\ current' \notin Waiting'
           \/ readyqueue = <<>> /\ readyqueue' = <<>> /\ current' = idle_task
        /\ current' \in Tasks
        /\ state' = [state EXCEPT ![current'] = "ST_RUN"]
        /\ remaining_quantum' = total_quantum[current']
    <3>1. state \in [Tasks -> States]
      BY DEF TypeOK
    <3> QED BY <1>0, <2>1, <3>1, SchedNextElems DEF Waiting
  <2>3. IsInjective(freequeue') /\ Free' = Free \cup {current}
    <3>1. current \notin Range(freequeue)
      BY DEF SchedInv, OnePlace, Free
    <3> QED BY <1>0, <2>1, <3>1, AppendElems DEF Free
  <2>4. Forking = {} /\ Forking' = {} /\ (readyqueue = <<>> => Waiting = {} /\ Waiting' = {})
    BY <2>1, <2>2, EmptyElems DEF Forking, Waiting
  <2>5. OnePlace'
    <3>1. CASE readyqueue # <<>>
      BY <2>1, <2>2, <2>3, <2>4, <3>1 DEF SchedInv, OnePlace
    <3>2. CASE readyqueue = <<>>
      BY <2>1, <2>2, <2>3, <2>4, <3>2 DEF SchedInv, OnePlace
    <3> QED BY <3>1, <3>2
  <2>6. StateMatchesQueue'
    BY <2>2, <2>4 DEF SchedInv, StateMatchesQueue, TypeOK
  <2>7. IdleOnlyIfNoneReady'
    BY <2>2 DEF SchedInv, OnePlace, IdleOnlyIfNoneReady
  <2>8. Owners' \cup {current', idle_task} \subseteq Owners \cup {idle_task}
    BY <2>2, <2>4 DEF Owners, Live
  <2>9. QuantumNeverOver' /\ OwnTable'
    BY <2>1, <2>2, <2>8, QuantumAssumption DEF SchedInv, QuantumNeverOver, OwnTable
  <2> QED BY <2>1, <2>5, <2>6, <2>7, <2>9 DEF SchedInv
<1>7. CASE ForkNoTask
  BY <1>1, <1>7 DEF ForkNoTask, vars, forking, Forking
<1>8. CASE ForkBegin
  <2> DEFINE c == Head(freequeue)
  <2>1. /\ kpath = "user" /\ kpath' # "user" /\ current # idle_task
        /\ freequeue # <<>> /\ freequeue' = Tail(freequeue) /\ child' = c
        /\ state' = [state EXCEPT ![c] = state[current]]
        /\ total_quantum' = [total_quantum EXCEPT ![c] = total_quantum[current]]
        /\ dir' = [dir EXCEPT ![c] = c]
        /\ UNCHANGED <<readyqueue, current, remaining_quantum>>
    BY <1>8 DEF ForkBegin, InUserCode
  <2>2. /\ c \in Tasks /\ Free = Free' \cup {c} /\ c \notin Free'
        /\ IsInjective(freequeue')
    BY <1>0, <2>1, TailElems DEF Free
  <2> HIDE DEF c
  <2>3. Waiting' = Waiting /\ Forking = {} /\ Forking' = {c}
    BY <2>1 DEF Waiting, Forking
  <2>4. OnePlace'
    BY <2>1, <2>2, <2>3 DEF SchedInv, OnePlace
  <2>5. c \in Free /\ c \notin Waiting /\ c # current /\ c # idle_task
    BY <2>2 DEF SchedInv, OnePlace
  <2>6. StateMatchesQueue' /\ IdleOnlyIfNoneReady'
    BY <2>1, <2>2, <2>3, <2>5
       DEF SchedInv, StateMatchesQueue, IdleOnlyIfNoneReady, TypeOK
  <2>7. Owners' = Owners \cup {c} /\ current \in Owners
    BY <2>1, <2>3 DEF Owners, Live
  <2>8. QuantumNeverOver' /\ OwnTable'
    BY <2>1, <2>2, <2>7 DEF SchedInv, QuantumNeverOver, OwnTable, TypeOK
  <2> QED BY <2>1, <2>4, <2>6, <2>8 DEF SchedInv
<1>9. CASE ForkAlloc
  BY <1>1, <1>9 DEF ForkAlloc, Forking
<1>10. CASE ForkNoFrame
  <2>1. /\ kpath # "user" /\ kpath' = "user"
        /\ freequeue' = Append(freequeue, child)
        /\ UNCHANGED <<readyqueue, state, total_quantum, dir, current, remaining_quantum>>
    BY <1>10 DEF ForkNoFrame
  <2>2. child \notin Free
    BY <2>1 DEF SchedInv, OnePlace, Forking
  <2>3. Free' = Free \cup {child} /\ IsInjective(freequeue')
    BY <1>0, <2>1, <2>2, AppendElems DEF Free
  <2>4. Waiting' = Waiting /\ Forking = {child} /\ Forking' = {}
    BY <2>1 DEF Waiting, Forking
  <2>5. OnePlace'
    BY <2>1, <2>3, <2>4 DEF SchedInv, OnePlace
  <2> QED BY <2>1, <2>4, <2>5 DEF SchedInv, StateMatchesQueue,
             IdleOnlyIfNoneReady, QuantumNeverOver, OwnTable, Owners, Live
<1>11. CASE ForkShareCode
  BY <1>1, <1>11 DEF ForkShareCode, Forking
<1>12. CASE ForkCopyPage
  BY <1>1, <1>12 DEF ForkCopyPage, Forking
<1>13. CASE ForkEnd
  <2>1. /\ kpath # "user" /\ kpath' = "user" /\ current # idle_task
        /\ readyqueue' = Append(readyqueue, child)
        /\ state' = [state EXCEPT ![child] = "ST_READY"]
        /\ UNCHANGED <<freequeue, total_quantum, dir, current, remaining_quantum>>
    BY <1>13 DEF ForkEnd, SchedInv
  <2>2. child \notin Waiting /\ child # current
    BY <2>1 DEF SchedInv, OnePlace, Forking
  <2>3. Waiting' = Waiting \cup {child} /\ IsInjective(readyqueue')
    BY <1>0, <2>1, <2>2, AppendElems DEF Waiting
  <2>4. Free' = Free /\ Forking = {child} /\ Forking' = {}
    BY <2>1 DEF Free, Forking
  <2>5. OnePlace'
    BY <2>1, <2>3, <2>4 DEF SchedInv, OnePlace
  <2>6. StateMatchesQueue' /\ IdleOnlyIfNoneReady'
    BY <1>0, <2>1, <2>2, <2>3 DEF SchedInv, OnePlace, StateMatchesQueue,
       IdleOnlyIfNoneReady, TypeOK
  <2>7. Owners' = Owners
    BY <2>1, <2>3, <2>4 DEF Owners, Live
  <2> QED BY <2>1, <2>5, <2>6, <2>7 DEF SchedInv, QuantumNeverOver, OwnTable
<1> QED BY <1>2, <1>3, <1>4, <1>5, <1>6, <1>7, <1>8, <1>9, <1>10, <1>11, <1>12,
           <1>13 DEF Next, Clock, sys_fork, ForkStep

LEMMA SchedCorrect == Spec => [](TypeOK /\ SchedInv)
BY TypeInit, SchedInit, TypeStep, SchedStep, PTL DEF Spec

\* Every variable keeps its type, for every size of the tables.
THEOREM TypeCorrect == Spec => []TypeOK
BY SchedCorrect, PTL

\* No PCB is ever lost or linked twice by the clock, fork, exit and yield.
THEOREM OnePlaceCorrect == Spec => []OnePlace
<1>1. SchedInv => OnePlace
  BY DEF SchedInv
<1> QED BY SchedCorrect, <1>1, PTL

\* The state field always agrees with the list the PCB is in.
THEOREM StateCorrect == Spec => []StateMatchesQueue
<1>1. SchedInv => StateMatchesQueue
  BY DEF SchedInv
<1> QED BY SchedCorrect, <1>1, PTL

\* Idle never has the CPU while a process is ready.
THEOREM IdleCorrect == Spec => []IdleOnlyIfNoneReady
<1>1. SchedInv => IdleOnlyIfNoneReady
  BY DEF SchedInv
<1> QED BY SchedCorrect, <1>1, PTL

\* The quantum counter never reaches 0 between two ticks.
THEOREM QuantumCorrect == Spec => []QuantumNeverOver
<1>1. SchedInv => QuantumNeverOver
  BY DEF SchedInv
<1> QED BY SchedCorrect, <1>1, PTL

-----------------------------------------------------------------------------
(* Frames and page tables *)

LEMMA MemInit == Init => MemInv
<1> SUFFICES ASSUME Init PROVE MemInv
  OBVIOUS
<1>1. /\ Owners = {task1} /\ Live = {task1} /\ dir[task1] = task1
      /\ pt[task1] = BootTable /\ kpath = "user"
      /\ \A t \in Tasks : \A p \in UserPages : t # task1 => pt[t][p] = NoFrame
  BY TaskFacts, EmptyElems DEF Init, Owners, Live, Waiting, Forking
<1>2. /\ \A p \in CodePages \cup DataPages : BootTable[p] = BootFrame(p)
      /\ \A p \in TempPages : BootTable[p] = NoFrame
      /\ FramesOf(BootTable, CodePages) = {BootFrame(p) : p \in CodePages}
  BY PageFacts DEF BootTable, FramesOf
<1>3. FramesPrivate
  <2> SUFFICES ASSUME NEW p \in DataPages
               PROVE  /\ BootTable[p] \in ScanFrames \ FramesOf(BootTable, CodePages)
                      /\ \A q \in DataPages : BootTable[q] = BootTable[p] => q = p
    BY <1>1 DEF FramesPrivate
  <2>1. BootTable[p] \notin FramesOf(BootTable, CodePages)
    BY <1>2, BootFacts, PageFacts
  <2> QED BY <1>2, <2>1, BootFacts
<1>4. FramesConserved
  <2> SUFFICES ASSUME NEW f \in ScanFrames
               PROVE  phys_mem[f] = USED_FRAME <=>
                        \/ f \in FramesOf(BootTable, CodePages)
                        \/ \E p \in DataPages : BootTable[p] = f
    BY <1>1 DEF FramesConserved
  <2>1. f \in Frames /\ ~(f < NUM_PAG_KERNEL)
    BY PagesAssumption DEF ScanFrames, Frames
  <2>2. phys_mem[f] = USED_FRAME <=> f \in FramesOf(BootTable, CodePages \cup DataPages)
    BY <2>1 DEF Init, USED_FRAME, FREE_FRAME
  <2> QED BY <2>2 DEF FramesOf
<1>5. AddressSpaceComplete
  BY <1>1, <1>2, BootFacts, PageFacts DEF AddressSpaceComplete, CodeFrame
<1>6. DeadTablesEmpty /\ ForkProgress
  BY <1>1, <1>2, PageFacts DEF DeadTablesEmpty, ForkProgress
<1> QED BY <1>3, <1>4, <1>5, <1>6 DEF MemInv

\* A step that gives no PCB data frames, takes none away and keeps the byte
\* map keeps what is true of the frames.
LEMMA SameFrames ==
    ASSUME TypeOK, SchedInv, MemInv, SchedInv',
           Owners \subseteq Owners', Owners' \subseteq Tasks,
           \A t \in Owners' \ Owners : \A p \in DataPages : pt'[t][p] = NoFrame,
           phys_mem' = phys_mem,
           \A t \in Tasks : \A p \in DataPages : pt'[t][p] = pt[t][p]
    PROVE  FramesPrivate' /\ FramesConserved' /\ DeadTablesEmpty'
<1>1. /\ \A t \in Owners : dir[t] = t /\ t \in Tasks
      /\ \A t \in Owners' : dir'[t] = t /\ t \in Tasks
  BY DEF SchedInv, OwnTable
<1>2. FramesPrivate'
  <2> SUFFICES ASSUME NEW t \in Owners', NEW p \in DataPages, pt'[t][p] # NoFrame
               PROVE  /\ pt'[t][p] \in ScanFrames \ FramesOf(BootTable, CodePages)
                      /\ \A u \in Owners' : \A q \in DataPages :
                           pt'[u][q] = pt'[t][p] => u = t /\ q = p
    BY <1>1 DEF FramesPrivate
  <2>1. t \in Owners /\ pt'[t][p] = pt[t][p]
    BY <1>1
  <2>2. ASSUME NEW u \in Owners', NEW q \in DataPages, pt'[u][q] = pt'[t][p]
        PROVE  u = t /\ q = p
    <3>1. u \in Owners /\ pt'[u][q] = pt[u][q]
      BY <1>1, <2>2
    <3> QED BY <1>1, <2>1, <2>2, <3>1 DEF MemInv, FramesPrivate
  <2> QED BY <1>1, <2>1, <2>2 DEF MemInv, FramesPrivate
<1>3. FramesConserved'
  <2> SUFFICES ASSUME NEW f \in ScanFrames
               PROVE  (\E t \in Owners' : \E p \in DataPages : pt'[t][p] = f)
                      <=> (\E t \in Owners : \E p \in DataPages : pt[t][p] = f)
    BY <1>1 DEF MemInv, FramesConserved
  <2> QED BY <1>1, PageFacts
<1>4. DeadTablesEmpty'
  BY DEF MemInv, DeadTablesEmpty
<1> QED BY <1>2, <1>3, <1>4

\* The byte map after a process gives back all the data frames it maps: the
\* guard of free_frame rejects only NUM_PAG_KERNEL, which is a code frame.
LEMMA FreedFrames ==
    ASSUME TypeOK, SchedInv, MemInv, NEW c \in Owners, NEW f \in ScanFrames,
           NEW P \in SUBSET DataPages
    PROVE  FreeFrames(FramesOf(pt[c], P))[f] = USED_FRAME <=>
             phys_mem[f] = USED_FRAME /\ ~ \E p \in P : pt[c][p] = f
<1>1. dir[c] = c
  BY DEF SchedInv, OwnTable
<1>2. f \in Frames /\ f < TOTAL_PAGES /\ f >= NUM_PAG_KERNEL
      /\ NUM_PAG_KERNEL \in Nat /\ f \in Nat
  BY PagesAssumption DEF ScanFrames, Frames
<1>3. ASSUME NEW p \in P, pt[c][p] = f
      PROVE  f > NUM_PAG_KERNEL
  <2>1. f # NoFrame
    BY PageFacts
  <2>2. f \notin FramesOf(BootTable, CodePages)
    BY <1>1, <1>3, <2>1 DEF MemInv, FramesPrivate
  <2> QED BY <2>2, <1>2, BootFacts
<1>4. phys_mem[f] \in {FREE_FRAME, USED_FRAME}
  BY <1>2 DEF TypeOK
<1> QED BY <1>2, <1>3, <1>4 DEF FreeFrames, FramesOf, FREE_FRAME, USED_FRAME

\* A step that changes no table and no owner.
LEMMA SameMemory ==
    ASSUME TypeOK, SchedInv, MemInv, SchedInv', UNCHANGED <<phys_mem, pt>>,
           Live' = Live, Forking' = Forking, UNCHANGED <<kpath, child, pag>>
    PROVE  MemInv'
<1>1. Owners' = Owners /\ Owners \subseteq Tasks
  BY DEF Owners, SchedInv, OnePlace, Live
<1>2. FramesPrivate' /\ FramesConserved' /\ DeadTablesEmpty'
  BY <1>1, SameFrames
<1>3. /\ \A t \in Live : dir[t] = t
      /\ \A t \in Live' : dir'[t] = t
  BY <1>1 DEF SchedInv, OwnTable, Owners
<1>4. AddressSpaceComplete'
  BY <1>3 DEF MemInv, AddressSpaceComplete
<1>5. ForkProgress'
  BY DEF MemInv, ForkProgress
<1> QED BY <1>2, <1>4, <1>5 DEF MemInv

LEMMA MemStep == TypeOK /\ SchedInv /\ MemInv /\ [Next]_vars => MemInv'
<1> SUFFICES ASSUME TypeOK, SchedInv, MemInv, [Next]_vars PROVE MemInv'
  OBVIOUS
<1>0. /\ SchedInv' /\ TypeOK'
      /\ Owners \subseteq Tasks /\ Live \subseteq Owners /\ Forking \subseteq Owners
      /\ Owners' \subseteq Tasks /\ Live' \subseteq Owners'
      /\ \A t \in Owners : dir[t] = t
      /\ \A t \in Owners' : dir'[t] = t
  <2>1. SchedInv' /\ TypeOK'
    BY SchedStep, TypeStep
  <2>2. Owners \subseteq Tasks /\ \A t \in Owners : dir[t] = t
    BY DEF SchedInv, OnePlace, OwnTable, Owners, Live
  <2>3. Owners' \subseteq Tasks /\ \A t \in Owners' : dir'[t] = t
    BY <2>1 DEF SchedInv, OnePlace, OwnTable, Owners, Live
  <2> QED BY <2>1, <2>2, <2>3 DEF Owners
<1>p. \A t, u \in Owners : \A p, r \in DataPages :
        pt[t][p] # NoFrame =>
          /\ pt[t][p] \in ScanFrames \ FramesOf(BootTable, CodePages)
          /\ pt[u][r] = pt[t][p] => u = t /\ r = p
  BY <1>0 DEF MemInv, FramesPrivate
<1>1. CASE UNCHANGED vars
  BY <1>0, <1>1, SameMemory DEF vars, sched, memory, forking, Live, Waiting, Forking
<1>2. ASSUME ForceTaskSwitch, UNCHANGED <<memory, forking>>, current # idle_task
      PROVE  MemInv'
  <2> DEFINE q == Append(readyqueue, current)
             st == [state EXCEPT ![current] = "ST_READY"]
  <2>1. SchedNext(q, st)
    BY <1>2 DEF ForceTaskSwitch, Requeue, SchedInv, StateMatchesQueue
  <2>2. /\ q \in Seq(Tasks) /\ q # <<>> /\ IsInjective(q)
        /\ Range(q) = Waiting \cup {current} /\ st \in [Tasks -> States]
    <3>1. /\ readyqueue \in Seq(Tasks) /\ current \in Tasks
          /\ IsInjective(readyqueue) /\ current \notin Range(readyqueue)
          /\ state \in [Tasks -> States]
      BY DEF TypeOK, SchedInv, OnePlace, Waiting
    <3> QED BY <3>1, AppendElems DEF Waiting, States
  <2>3. Range(q) = Range(readyqueue') \cup {current'}
    <3> HIDE DEF q, st
    <3> QED BY <2>1, <2>2, SchedNextElems
  <2>4. Live' = Live
    BY <1>2, <2>2, <2>3 DEF Live, Waiting, SchedInv, OnePlace
  <2> QED BY <1>0, <1>2, <2>4, SameMemory DEF memory, forking, Forking
<1>3. CASE ClockSwitch
  BY <1>2, <1>3 DEF ClockSwitch, SchedInv, IdleOnlyIfNoneReady
<1>4. CASE ClockStay
  BY <1>0, <1>4, SameMemory DEF ClockStay, memory, forking, Live, Waiting, Forking
<1>5. CASE sys_yield
  BY <1>2, <1>5 DEF sys_yield, InUserCode
<1>6. CASE sys_exit
  <2>1. /\ kpath = "user" /\ current # idle_task /\ current \in Owners
        /\ Forking = {} /\ Forking' = {} /\ kpath' = "user"
    BY <1>6 DEF sys_exit, InUserCode, Owners, Live, forking, Forking
  <2>2. Owners' = Owners \ {current} /\ Live' = Live \ {current}
    <3>1. SchedNext(readyqueue, state)
      BY <1>6 DEF sys_exit
    <3>2. /\ readyqueue \in Seq(Tasks) /\ IsInjective(readyqueue)
          /\ state \in [Tasks -> States]
      BY DEF TypeOK, SchedInv, OnePlace
    <3>3. \/ Waiting = Waiting' \cup {current'}
          \/ Waiting = {} /\ Waiting' = {} /\ current' = idle_task
      BY <3>1, <3>2, SchedNextElems, EmptyElems DEF Waiting
    <3>4. Live' = Live \ {current}
      BY <2>1, <3>3 DEF Live, SchedInv, OnePlace
    <3> QED BY <3>4, <2>1 DEF Owners
  <2>3. /\ phys_mem' = FreeFrames(FramesOf(pt[current], DataPages))
        /\ pt' = [pt EXCEPT ![current] = DelPages(@, DataPages)]
    BY <1>0, <1>6, <2>1 DEF sys_exit
  <2>4. /\ \A t \in Tasks : t # current => pt'[t] = pt[t]
        /\ \A p \in UserPages : pt'[current][p] = IF p \in DataPages THEN NoFrame
                                                  ELSE pt[current][p]
    BY <2>3 DEF TypeOK, DelPages
  <2>5. FramesPrivate'
    BY <1>0, <2>2, <2>4 DEF MemInv, FramesPrivate
  <2>6. FramesConserved'
    <3> SUFFICES ASSUME NEW f \in ScanFrames
                 PROVE  phys_mem'[f] = USED_FRAME <=>
                          \/ f \in FramesOf(BootTable, CodePages)
                          \/ \E t \in Owners' : \E p \in DataPages : pt'[t][p] = f
      BY <1>0 DEF FramesConserved
    <3>1. phys_mem'[f] = USED_FRAME <=>
            phys_mem[f] = USED_FRAME /\ ~ \E p \in DataPages : pt[current][p] = f
      BY <2>1, <2>3, FreedFrames
    <3>2. phys_mem[f] = USED_FRAME <=>
            \/ f \in FramesOf(BootTable, CodePages)
            \/ \E t \in Owners : \E p \in DataPages : pt[t][p] = f
      BY <1>0 DEF MemInv, FramesConserved
    <3>3. ASSUME NEW p \in DataPages, pt[current][p] = f
          PROVE  /\ f \notin FramesOf(BootTable, CodePages)
                 /\ \A t \in Owners : \A r \in DataPages :
                      pt[t][r] = f => t = current
      <4>1. f # NoFrame
        BY PageFacts
      <4> QED BY <1>0, <2>1, <3>3, <4>1 DEF MemInv, FramesPrivate
    <3>4. (\E t \in Owners' : \E p \in DataPages : pt'[t][p] = f) <=>
          (\E t \in Owners \ {current} : \E p \in DataPages : pt[t][p] = f)
      BY <1>0, <2>2, <2>4
    <3> QED BY <2>1, <3>1, <3>2, <3>3, <3>4
  <2>7. AddressSpaceComplete'
    BY <1>0, <2>2, <2>4 DEF MemInv, AddressSpaceComplete
  <2>8. DeadTablesEmpty'
    BY <1>0, <2>2, <2>4, PageFacts DEF MemInv, DeadTablesEmpty
  <2>9. ForkProgress'
    BY <1>0, <2>1, <2>4, PageFacts DEF MemInv, ForkProgress
  <2> QED BY <2>5, <2>6, <2>7, <2>8, <2>9 DEF MemInv
<1>7. CASE ForkNoTask
  BY <1>1, <1>7 DEF ForkNoTask
<1>8. CASE ForkBegin
  <2> DEFINE c == Head(freequeue)
  <2>1. /\ kpath = "user" /\ kpath' = "alloc" /\ child' = c /\ pag' = 0
        /\ freequeue # <<>> /\ UNCHANGED <<readyqueue, current, phys_mem, pt>>
    BY <1>8 DEF ForkBegin, InUserCode, memory
  <2>2. c \in Tasks /\ c \in Free
    BY <2>1, TailElems DEF TypeOK, Free
  <2> HIDE DEF c
  <2>3. /\ Live' = Live /\ Owners' = Owners \cup {c} /\ c \notin Owners
    BY <2>1, <2>2 DEF Live, Waiting, Owners, Forking, SchedInv, OnePlace
  <2>4. \A p \in DataPages : pt[c][p] = NoFrame
    BY <2>2, <2>3 DEF MemInv, DeadTablesEmpty
  <2>5. FramesPrivate' /\ FramesConserved' /\ DeadTablesEmpty'
    BY <1>0, <2>1, <2>3, <2>4, SameFrames
  <2>6. AddressSpaceComplete'
    BY <1>0, <2>1, <2>3 DEF MemInv, AddressSpaceComplete
  <2>7. ForkProgress'
    BY <2>1, <2>4, PagesAssumption DEF MemInv, ForkProgress, DataPages,
       PAG_LOG_INIT_DATA, PAG_LOG_INIT_CODE
  <2> QED BY <2>5, <2>6, <2>7 DEF MemInv
<1>9. CASE ForkAlloc
  <2> DEFINE x == PAG_LOG_INIT_DATA + pag
  <2>1. PICK f \in Frames :
          /\ AllocFrame(f)
          /\ phys_mem' = [phys_mem EXCEPT ![f] = USED_FRAME]
          /\ pt' = [pt EXCEPT ![dir[child]][x] = f]
    BY <1>9 DEF ForkAlloc
  <2>2. /\ kpath = "alloc" /\ pag < NUM_PAG_DATA /\ pag' = pag + 1
        /\ UNCHANGED <<sched, kpath, child>>
    BY <1>9 DEF ForkAlloc
  <2>3. /\ child \in Owners /\ child \in Tasks /\ dir[child] = child
        /\ child \notin Live
        /\ Owners' = Owners /\ Live' = Live
    BY <1>0, <2>2 DEF Owners, Live, Waiting, Forking, sched, SchedInv, OnePlace, TypeOK
  <2>4. x \in DataPages /\ x \in UserPages
    BY <2>2, PagesAssumption, PageFacts
       DEF TypeOK, DataPages, PAG_LOG_INIT_DATA, PAG_LOG_INIT_CODE
  <2>5. /\ pt'[child][x] = f
        /\ \A t \in Tasks : \A p \in UserPages :
             t # child \/ p # x => pt'[t][p] = pt[t][p]
    BY <2>1, <2>3, <2>4 DEF TypeOK
  <2>6. /\ f \in ScanFrames /\ phys_mem[f] # USED_FRAME /\ f # NoFrame
        /\ pt[child][x] = NoFrame
    <3>1. pt[child][x] = NoFrame
      BY <2>2, <2>4, PagesAssumption DEF MemInv, ForkProgress, TypeOK,
         PAG_LOG_INIT_DATA, PAG_LOG_INIT_CODE
    <3> QED BY <2>1, <3>1, PageFacts DEF AllocFrame, FREE_FRAME, USED_FRAME
  <2>7. /\ f \notin FramesOf(BootTable, CodePages)
        /\ \A t \in Owners : \A p \in DataPages : pt[t][p] # f
    BY <1>0, <2>6 DEF MemInv, FramesConserved
  <2> HIDE DEF x
  <2>8. FramesPrivate'
    <3> SUFFICES ASSUME NEW t \in Owners, NEW p \in DataPages, pt'[t][p] # NoFrame
                 PROVE  /\ pt'[t][p] \in ScanFrames \ FramesOf(BootTable, CodePages)
                        /\ \A u \in Owners : \A r \in DataPages :
                             pt'[u][r] = pt'[t][p] => u = t /\ r = p
      BY <1>0, <2>3 DEF FramesPrivate
    <3>1. CASE t = child /\ p = x
      BY <1>0, <2>5, <2>6, <2>7, <3>1, PageFacts
    <3>2. CASE ~(t = child /\ p = x)
      <4>1. pt'[t][p] = pt[t][p] /\ pt[t][p] # f
        BY <1>0, <2>5, <2>7, <3>2, PageFacts
      <4>2. ASSUME NEW u \in Owners, NEW r \in DataPages, pt'[u][r] = pt'[t][p]
            PROVE  u = t /\ r = p
        <5>1. ~(u = child /\ r = x)
          BY <2>5, <4>1, <4>2
        <5>2. pt'[u][r] = pt[u][r]
          BY <1>0, <2>5, <5>1, PageFacts
        <5>3. pt[u][r] = pt[t][p] /\ pt[t][p] # NoFrame
          BY <4>1, <4>2, <5>2
        <5> QED BY <1>p, <5>3, Zenon
      <4> QED BY <1>0, <4>1, <4>2 DEF MemInv, FramesPrivate
    <3> QED BY <3>1, <3>2
  <2>9. FramesConserved'
    <3> SUFFICES ASSUME NEW g \in ScanFrames
                 PROVE  phys_mem'[g] = USED_FRAME <=>
                          \/ g \in FramesOf(BootTable, CodePages)
                          \/ \E t \in Owners : \E p \in DataPages : pt'[t][p] = g
      BY <1>0, <2>3 DEF FramesConserved
    <3>1. CASE g = f
      <4>1. phys_mem'[g] = USED_FRAME
        BY <2>1, <3>1 DEF TypeOK
      <4> QED BY <4>1, <2>3, <2>4, <2>5, <3>1
    <3>2. CASE g # f
      <4>1. phys_mem'[g] = phys_mem[g]
        BY <2>1, <3>2, PageFacts DEF TypeOK
      <4>2. \A t \in Owners : \A p \in DataPages : pt'[t][p] = g <=> pt[t][p] = g
        <5> SUFFICES ASSUME NEW t \in Owners, NEW p \in DataPages
                     PROVE  pt'[t][p] = g <=> pt[t][p] = g
          OBVIOUS
        <5>1. CASE t = child /\ p = x
          BY <2>5, <2>6, <3>2, <5>1, PageFacts
        <5>2. CASE ~(t = child /\ p = x)
          BY <1>0, <2>5, <5>2, PageFacts
        <5> QED BY <5>1, <5>2
      <4> QED BY <1>0, <4>1, <4>2 DEF MemInv, FramesConserved
    <3> QED BY <3>1, <3>2
  <2>10. AddressSpaceComplete'
    BY <1>0, <2>3, <2>5, PageFacts DEF MemInv, AddressSpaceComplete
  <2>11. DeadTablesEmpty'
    BY <1>0, <2>3, <2>5, PageFacts DEF MemInv, DeadTablesEmpty
  <2>12. ForkProgress'
    <3>1. \A t \in Tasks : \A p \in TempPages : pt'[t][p] = NoFrame
      BY <2>4, <2>5, PageFacts DEF MemInv, ForkProgress
    <3>2. ASSUME NEW p \in DataPages
          PROVE  pt'[child][p] # NoFrame <=> p < PAG_LOG_INIT_DATA + (pag + 1)
      <4>1. CASE p = x
        BY <2>2, <2>5, <2>6, <4>1, PagesAssumption
           DEF x, TypeOK, PAG_LOG_INIT_DATA, PAG_LOG_INIT_CODE
      <4>2. CASE p # x
        <5>1. pt'[child][p] = pt[child][p]
          BY <2>3, <2>5, <4>2, PageFacts
        <5>2. p < PAG_LOG_INIT_DATA + (pag + 1) <=> p < PAG_LOG_INIT_DATA + pag
          BY <4>2, PagesAssumption
             DEF x, TypeOK, DataPages, PAG_LOG_INIT_DATA, PAG_LOG_INIT_CODE
        <5> QED BY <2>2, <5>1, <5>2 DEF MemInv, ForkProgress
      <4> QED BY <4>1, <4>2
    <3> QED BY <2>2, <3>1, <3>2 DEF ForkProgress
  <2> QED BY <2>8, <2>9, <2>10, <2>11, <2>12 DEF MemInv
<1>10. CASE ForkNoFrame
  <2> DEFINE done == {PAG_LOG_INIT_DATA + i : i \in 0 .. pag - 1}
  <2>1. /\ kpath = "alloc" /\ kpath' = "user" /\ UNCHANGED <<readyqueue, current>>
        /\ phys_mem' = FreeFrames(FramesOf(pt[dir[child]], done))
        /\ pt' = [pt EXCEPT ![dir[child]] = DelPages(@, done)]
    BY <1>10 DEF ForkNoFrame
  <2>2. /\ child \in Owners /\ child \in Tasks /\ dir[child] = child
        /\ child \notin Live
        /\ Owners' = Owners \ {child} /\ Live' = Live
    <3>1. Live' = Live /\ Forking = {child} /\ Forking' = {}
      BY <2>1 DEF Live, Waiting, Forking
    <3>2. child \notin Live
      BY <3>1 DEF Live, SchedInv, OnePlace
    <3> QED BY <1>0, <3>1, <3>2 DEF Owners
  <2>3. /\ done \subseteq DataPages
        /\ \A p \in DataPages : pt[child][p] # NoFrame => p \in done
    <3>1. done \subseteq DataPages
      BY PagesAssumption DEF TypeOK, DataPages, PAG_LOG_INIT_DATA, PAG_LOG_INIT_CODE
    <3>2. ASSUME NEW p \in DataPages, pt[child][p] # NoFrame
          PROVE  p \in done
      <4>1. p < PAG_LOG_INIT_DATA + pag
        BY <2>1, <3>2 DEF MemInv, ForkProgress
      <4>2. p - PAG_LOG_INIT_DATA \in 0 .. pag - 1
            /\ p = PAG_LOG_INIT_DATA + (p - PAG_LOG_INIT_DATA)
        BY <4>1, PagesAssumption
           DEF TypeOK, DataPages, PAG_LOG_INIT_DATA, PAG_LOG_INIT_CODE
      <4> QED BY <4>2
    <3> QED BY <3>1, <3>2
  <2> HIDE DEF done
  <2>4. /\ \A t \in Tasks : t # child => pt'[t] = pt[t]
        /\ \A p \in UserPages : pt'[child][p] = IF p \in done THEN NoFrame
                                                ELSE pt[child][p]
    BY <2>1, <2>2 DEF TypeOK, DelPages
  <2>5. FramesPrivate'
    BY <1>0, <2>2, <2>4 DEF MemInv, FramesPrivate
  <2>6. FramesConserved'
    <3> SUFFICES ASSUME NEW f \in ScanFrames
                 PROVE  phys_mem'[f] = USED_FRAME <=>
                          \/ f \in FramesOf(BootTable, CodePages)
                          \/ \E t \in Owners' : \E p \in DataPages : pt'[t][p] = f
      BY <1>0 DEF FramesConserved
    <3>0. f # NoFrame
      BY PageFacts
    <3>1. phys_mem'[f] = USED_FRAME <=>
            phys_mem[f] = USED_FRAME /\ ~ \E p \in DataPages : pt[child][p] = f
      <4>1. phys_mem'[f] = USED_FRAME <=>
              phys_mem[f] = USED_FRAME /\ ~ \E p \in done : pt[child][p] = f
        BY <2>1, <2>2, <2>3, FreedFrames
      <4> QED BY <2>3, <3>0, <4>1
    <3>2. phys_mem[f] = USED_FRAME <=>
            \/ f \in FramesOf(BootTable, CodePages)
            \/ \E t \in Owners : \E p \in DataPages : pt[t][p] = f
      BY <1>0 DEF MemInv, FramesConserved
    <3>3. ASSUME NEW p \in DataPages, pt[child][p] = f
          PROVE  /\ f \notin FramesOf(BootTable, CodePages)
                 /\ \A t \in Owners : \A r \in DataPages :
                      pt[t][r] = f => t = child
      BY <1>p, <2>2, <3>0, <3>3
    <3>4. (\E t \in Owners' : \E p \in DataPages : pt'[t][p] = f) <=>
          (\E t \in Owners \ {child} : \E p \in DataPages : pt[t][p] = f)
      BY <1>0, <2>2, <2>4
    <3> QED BY <2>2, <3>1, <3>2, <3>3, <3>4
  <2>7. AddressSpaceComplete'
    BY <1>0, <2>2, <2>4 DEF MemInv, AddressSpaceComplete
  <2>8. DeadTablesEmpty'
    BY <1>0, <2>2, <2>3, <2>4, PageFacts DEF MemInv, DeadTablesEmpty
  <2>9. ForkProgress'
    BY <1>0, <2>1, <2>3, <2>4, PageFacts DEF MemInv, ForkProgress
  <2> QED BY <2>5, <2>6, <2>7, <2>8, <2>9 DEF MemInv
<1>11. CASE ForkShareCode
  <2>1. /\ kpath = "alloc" /\ kpath' = "copy" /\ pag = NUM_PAG_DATA
        /\ UNCHANGED <<sched, phys_mem, child>>
        /\ pt' = [pt EXCEPT ![dir[child]] =
                    [p \in UserPages |-> IF p \in CodePages
                                         THEN pt[dir[current]][p] ELSE @[p]]]
    BY <1>11, PagesAssumption DEF ForkShareCode, TypeOK
  <2>2. /\ child \in Owners /\ child \in Tasks /\ dir[child] = child
        /\ child \notin Live /\ current \in Live /\ dir[current] = current
        /\ Owners' = Owners /\ Live' = Live
    BY <1>0, <2>1 DEF Owners, Live, Waiting, Forking, sched, SchedInv, OnePlace, TypeOK
  <2>3. /\ \A t \in Tasks : t # child => pt'[t] = pt[t]
        /\ \A p \in UserPages : pt'[child][p] = IF p \in CodePages
                                                THEN pt[current][p] ELSE pt[child][p]
    BY <2>1, <2>2 DEF TypeOK
  <2>4. \A t \in Tasks : \A p \in DataPages : pt'[t][p] = pt[t][p]
    BY <2>3, PageFacts
  <2>5. FramesPrivate' /\ FramesConserved' /\ DeadTablesEmpty'
    BY <1>0, <2>1, <2>2, <2>4, SameFrames
  <2>6. AddressSpaceComplete'
    BY <1>0, <2>2, <2>3 DEF MemInv, AddressSpaceComplete
  <2>7. ForkProgress'
    <3>1. \A t \in Tasks : \A p \in TempPages : pt'[t][p] = NoFrame
      BY <2>3, PageFacts DEF MemInv, ForkProgress
    <3>2. \A p \in DataPages : p < PAG_LOG_INIT_DATA + pag
      BY <2>1, PagesAssumption DEF DataPages, PAG_LOG_INIT_DATA, PAG_LOG_INIT_CODE
    <3>3. \A p \in DataPages : pt'[child][p] # NoFrame
      BY <2>1, <2>2, <2>4, <3>2 DEF MemInv, ForkProgress
    <3>4. \A p \in CodePages : pt'[child][p] = CodeFrame(p)
      BY <2>2, <2>3, PageFacts DEF MemInv, AddressSpaceComplete
    <3> QED BY <2>1, <3>1, <3>3, <3>4 DEF ForkProgress
  <2> QED BY <2>5, <2>6, <2>7 DEF MemInv
<1>12. CASE ForkCopyPage
  <2> DEFINE page == PAG_LOG_INIT_DATA + pag
             temp == page + NUM_PAG_DATA
  <2>1. /\ kpath = "copy" /\ kpath' = "copy" /\ UNCHANGED <<sched, phys_mem, child>>
        /\ pt' = [pt EXCEPT ![dir[current]] =
                    DelPages(SetPage(@, temp, pt[dir[child]][page]), {temp})]
        /\ pag < NUM_PAG_DATA
    BY <1>12 DEF ForkCopyPage
  <2>2. temp \in TempPages
    BY <2>1, PagesAssumption DEF TypeOK, TempPages, PAG_LOG_INIT_DATA, PAG_LOG_INIT_CODE
  <2> HIDE DEF page, temp
  <2>3. \A t \in Tasks : \A p \in UserPages : pt'[t][p] = pt[t][p]
    BY <2>1, <2>2 DEF TypeOK, DelPages, MemInv, ForkProgress
  <2>4. Owners' = Owners /\ Live' = Live
    BY <2>1 DEF Owners, Live, Waiting, Forking, sched
  <2>5. FramesPrivate' /\ FramesConserved' /\ DeadTablesEmpty'
    BY <1>0, <2>1, <2>3, <2>4, PageFacts, SameFrames
  <2>6. AddressSpaceComplete'
    BY <1>0, <2>3, <2>4, PageFacts DEF MemInv, AddressSpaceComplete
  <2>7. ForkProgress'
    BY <2>1, <2>3, PageFacts DEF MemInv, ForkProgress, TypeOK
  <2> QED BY <2>5, <2>6, <2>7 DEF MemInv
<1>13. CASE ForkEnd
  <2>1. /\ kpath = "copy" /\ kpath' = "user" /\ readyqueue' = Append(readyqueue, child)
        /\ UNCHANGED <<current, phys_mem, pt>>
    BY <1>13 DEF ForkEnd, memory
  <2>2. Waiting' = Waiting \cup {child}
    BY <2>1, AppendElems DEF Waiting, TypeOK
  <2>3. /\ child \in Owners /\ child # idle_task /\ child # current
        /\ Owners' = Owners /\ Live' = Live \cup {child}
    BY <2>1, <2>2 DEF Owners, Live, Forking, SchedInv, OnePlace
  <2>4. FramesPrivate' /\ FramesConserved' /\ DeadTablesEmpty'
    BY <1>0, <2>1, <2>3, SameFrames
  <2>5. AddressSpaceComplete'
    BY <1>0, <2>1, <2>3 DEF MemInv, AddressSpaceComplete, ForkProgress
  <2>6. ForkProgress'
    BY <2>1 DEF MemInv, ForkProgress
  <2> QED BY <2>4, <2>5, <2>6 DEF MemInv
<1> QED BY <1>1, <1>3, <1>4, <1>5, <1>6, <1>7, <1>8, <1>9, <1>10, <1>11, <1>12,
           <1>13 DEF Next, Clock, sys_fork, ForkStep

\* Lists, states, quanta, page tables and the byte map agree in every state: IInv
\* is inductive, and the theorems about memory follow from it.
THEOREM InvCorrect == Spec => []IInv
<1>1. Init => IInv
  BY TypeInit, SchedInit, MemInit DEF IInv
<1>2. IInv /\ [Next]_vars => IInv'
  BY TypeStep, SchedStep, MemStep DEF IInv
<1> QED BY <1>1, <1>2, PTL DEF Spec

\* No two data pages ever share a frame.
THEOREM FramesPrivateCorrect == Spec => []FramesPrivate
<1>1. IInv => FramesPrivate
  BY DEF IInv, MemInv
<1> QED BY InvCorrect, <1>1, PTL

\* No frame leaks and no frame in use is handed out, on every path of fork
\* and exit.
THEOREM FramesConservedCorrect == Spec => []FramesConserved
<1>1. IInv => FramesConserved
  BY DEF IInv, MemInv
<1> QED BY InvCorrect, <1>1, PTL

\* A process that may run has its whole address space.
THEOREM AddressSpaceCorrect == Spec => []AddressSpaceComplete
<1>1. IInv => AddressSpaceComplete
  BY DEF IInv, MemInv
<1> QED BY InvCorrect, <1>1, PTL

-----------------------------------------------------------------------------
(* PIDs *)

LEMMA PIDInit == Init => LivePIDsUnique
<1> SUFFICES ASSUME Init PROVE LivePIDsUnique
  OBVIOUS
<1>1. Live = {task1}
  BY TaskFacts, EmptyElems DEF Init, Live, Waiting
<1>2. PID[task1] = 1 /\ PID[idle_task] = 0 /\ global_PID >= INITIAL_PID
  BY TaskFacts DEF Init, INITIAL_PID
<1> QED BY <1>1, <1>2 DEF LivePIDsUnique

LEMMA PIDStep == TypeOK /\ SchedInv /\ LivePIDsUnique /\ [Next]_vars => LivePIDsUnique'
<1> SUFFICES ASSUME TypeOK, SchedInv, LivePIDsUnique, [Next]_vars
             PROVE  LivePIDsUnique'
  OBVIOUS
<1>0. Live \subseteq Tasks \ {idle_task} /\ idle_task \in Tasks
  BY TaskFacts DEF SchedInv, OnePlace, Live
<1>1. ASSUME Live' \subseteq Live, \A t \in Live' \cup {idle_task} : PID'[t] = PID[t],
             global_PID' = global_PID
      PROVE  LivePIDsUnique'
  BY <1>1 DEF LivePIDsUnique
<1>2. ASSUME ForceTaskSwitch, current # idle_task
      PROVE  LivePIDsUnique'
  <2> DEFINE q == Append(readyqueue, current)
             st == [state EXCEPT ![current] = "ST_READY"]
  <2>1. SchedNext(q, st) /\ UNCHANGED <<PID, global_PID>>
    BY <1>2 DEF ForceTaskSwitch, Requeue, SchedInv, StateMatchesQueue
  <2>2. /\ q \in Seq(Tasks) /\ q # <<>> /\ IsInjective(q)
        /\ Range(q) = Waiting \cup {current} /\ st \in [Tasks -> States]
    <3>1. /\ readyqueue \in Seq(Tasks) /\ current \in Tasks
          /\ IsInjective(readyqueue) /\ current \notin Range(readyqueue)
          /\ state \in [Tasks -> States]
      BY DEF TypeOK, SchedInv, OnePlace, Waiting
    <3> QED BY <3>1, AppendElems DEF Waiting, States
  <2> HIDE DEF q, st
  <2>3. Range(q) = Range(readyqueue') \cup {current'}
    BY <2>1, <2>2, SchedNextElems
  <2>4. Live' \subseteq Live
    BY <1>2, <2>2, <2>3 DEF Live, Waiting
  <2> QED BY <1>1, <2>1, <2>4
<1>3. CASE UNCHANGED vars
  BY <1>1, <1>3 DEF vars, sched, Live, Waiting
<1>4. CASE ClockSwitch
  BY <1>2, <1>4 DEF ClockSwitch, SchedInv, IdleOnlyIfNoneReady
<1>5. CASE ClockStay
  BY <1>1, <1>5 DEF ClockStay, Live, Waiting
<1>6. CASE sys_yield
  BY <1>2, <1>6 DEF sys_yield, InUserCode
<1>7. CASE sys_exit
  <2>1. /\ SchedNext(readyqueue, state) /\ global_PID' = global_PID
        /\ PID' = [PID EXCEPT ![current] = -1] /\ current # idle_task
    BY <1>7 DEF sys_exit, InUserCode
  <2>2. /\ readyqueue \in Seq(Tasks) /\ IsInjective(readyqueue)
        /\ state \in [Tasks -> States]
    BY DEF TypeOK, SchedInv, OnePlace
  <2>3. \/ Waiting = Waiting' \cup {current'}
        \/ Waiting = {} /\ Waiting' = {} /\ current' = idle_task
    BY <2>1, <2>2, SchedNextElems, EmptyElems DEF Waiting
  <2>4. Live' \subseteq Live \ {current}
    BY <2>3 DEF Live, SchedInv, OnePlace
  <2>5. \A t \in Live' \cup {idle_task} : PID'[t] = PID[t]
    BY <1>0, <2>1, <2>4 DEF TypeOK
  <2> QED BY <1>1, <2>1, <2>4, <2>5
<1>8. CASE ForkNoTask
  BY <1>3, <1>8 DEF ForkNoTask
<1>9. CASE ForkBegin
  <2>1. /\ freequeue # <<>> /\ UNCHANGED <<readyqueue, current, global_PID>>
        /\ PID' = [PID EXCEPT ![Head(freequeue)] = PID[current]]
    BY <1>9 DEF ForkBegin
  <2>2. Head(freequeue) \in Free
    BY <2>1, TailElems DEF Free, TypeOK
  <2>3. Live' = Live /\ Head(freequeue) \notin Live \cup {idle_task}
    BY <2>1, <2>2 DEF Live, Waiting, SchedInv, OnePlace
  <2>4. \A t \in Live' \cup {idle_task} : PID'[t] = PID[t]
    BY <1>0, <2>1, <2>3 DEF TypeOK
  <2> QED BY <1>1, <2>1, <2>3, <2>4
<1>10. CASE ForkAlloc \/ ForkShareCode \/ ForkCopyPage
  BY <1>1, <1>10 DEF ForkAlloc, ForkShareCode, ForkCopyPage, sched, Live, Waiting
<1>11. CASE ForkNoFrame
  BY <1>1, <1>11 DEF ForkNoFrame, Live, Waiting
<1>12. CASE ForkEnd
  <2>1. /\ kpath # "user" /\ readyqueue' = Append(readyqueue, child)
        /\ global_PID' = global_PID + 1 /\ current' = current
        /\ PID' = [PID EXCEPT ![child] = global_PID + 1]
    BY <1>12 DEF ForkEnd
  <2>2. Waiting' = Waiting \cup {child} /\ child \in Tasks
    BY <2>1, AppendElems DEF Waiting, TypeOK
  <2>3. child \notin Live \cup {idle_task} /\ Live' = Live \cup {child}
    BY <2>1, <2>2 DEF Live, Forking, SchedInv, OnePlace
  <2>4. /\ PID'[child] = global_PID + 1
        /\ \A t \in Live \cup {idle_task} : PID'[t] = PID[t]
    BY <1>0, <2>1, <2>2, <2>3 DEF TypeOK
  <2>5. ASSUME NEW t \in Live PROVE PID[t] # global_PID + 1
    <3>1. global_PID \in Nat /\ global_PID >= INITIAL_PID
      BY DEF LivePIDsUnique, TypeOK
    <3>2. PID[t] = 1 \/ PID[t] \in INITIAL_PID + 1 .. global_PID
      BY DEF LivePIDsUnique
    <3> QED BY <3>1, <3>2 DEF INITIAL_PID
  <2>6. /\ global_PID' >= INITIAL_PID
        /\ \A t \in Live' : PID'[t] = 1 \/ PID'[t] \in INITIAL_PID + 1 .. global_PID'
    BY <2>1, <2>3, <2>4 DEF LivePIDsUnique, TypeOK, INITIAL_PID
  <2>7. \A t, u \in Live' : PID'[t] = PID'[u] => t = u
    BY <2>3, <2>4, <2>5 DEF LivePIDsUnique
  <2> QED BY <2>4, <2>6, <2>7 DEF LivePIDsUnique
<1> QED BY <1>3, <1>4, <1>5, <1>6, <1>7, <1>8, <1>9, <1>10, <1>11, <1>12
        DEF Next, Clock, sys_fork, ForkStep

\* Two live processes never have the same PID.
THEOREM PIDCorrect == Spec => []LivePIDsUnique
BY PIDInit, PIDStep, SchedCorrect, PTL DEF Spec

\* Every PCB but idle could have its data pages at once.  As shipped
\* (mm_address.h, sched.h) it is 256 + 2 * (8 + 9 * 20) <= 1024.
AmpleMemory ==
    NUM_PAG_KERNEL + 2 * (NUM_PAG_CODE + (NR_TASKS - 1) * NUM_PAG_DATA) <= TOTAL_PAGES

\* Then alloc_frame finds a frame for the page fork has come to: were all of
\* them taken, two of the M first scanned ones would back the same page.
LEMMA FrameLeft ==
    ASSUME AmpleMemory, IInv, kpath = "alloc", MorePages
    PROVE  ~NoFreeFrame
<1> SUFFICES ASSUME NoFreeFrame PROVE FALSE
  OBVIOUS
<1> USE PagesAssumption, TasksAssumption
<1> DEFINE U == Tasks \ {idle_task}
           Data == U \X DataPages
           Code == {idle_task} \X CodePages
           hole == <<child, PAG_LOG_INIT_DATA + pag>>
           D == Code \cup (Data \ {hole})
           M == NUM_PAG_CODE + (NR_TASKS - 1) * NUM_PAG_DATA
           At(d) == IF d[1] = idle_task THEN BootTable[d[2]] ELSE pt[d[1]][d[2]]
<1>1. (NR_TASKS - 1) * NUM_PAG_DATA \in Nat /\ M \in Nat
  OBVIOUS
<1>2. IsFiniteSet(D) /\ Cardinality(D) = M - 1
  <2>1. IsFiniteSet(U) /\ Cardinality(U) = NR_TASKS - 1
    <3>1. U = 1 .. NR_TASKS - 1
      BY DEF Tasks, idle_task
    <3>2. 1 \in Int /\ NR_TASKS - 1 \in Int /\ NR_TASKS - 1 >= 1
      OBVIOUS
    <3> HIDE DEF U
    <3> QED BY <3>1, <3>2, FS_Interval
  <2>2. IsFiniteSet(DataPages) /\ Cardinality(DataPages) = NUM_PAG_DATA
    <3>1. PAG_LOG_INIT_DATA \in Int
      BY DEF PAG_LOG_INIT_DATA, PAG_LOG_INIT_CODE
    <3> QED BY <3>1, FS_Interval DEF DataPages
  <2>3. IsFiniteSet(CodePages) /\ Cardinality(CodePages) = NUM_PAG_CODE
    <3>1. /\ PAG_LOG_INIT_CODE \in Int
          /\ PAG_LOG_INIT_DATA - 1 = PAG_LOG_INIT_CODE + NUM_PAG_CODE - 1
      BY DEF PAG_LOG_INIT_DATA, PAG_LOG_INIT_CODE
    <3> QED BY <3>1, FS_Interval DEF CodePages
  <2>4. IsFiniteSet(Data) /\ Cardinality(Data) = (NR_TASKS - 1) * NUM_PAG_DATA
    BY <2>1, <2>2, FS_Product
  <2>5. IsFiniteSet(Code) /\ Cardinality(Code) = NUM_PAG_CODE
    <3>1. IsFiniteSet({idle_task}) /\ Cardinality({idle_task}) = 1
      BY FS_Singleton
    <3>2. IsFiniteSet(Code) /\ Cardinality(Code) = 1 * NUM_PAG_CODE
      BY <2>3, <3>1, FS_Product
    <3> QED BY <3>2
  <2>6. hole \in Data
    <3>1. child \in U
      BY DEF IInv, TypeOK, SchedInv, OnePlace, Forking
    <3>2. PAG_LOG_INIT_DATA + pag \in DataPages
      BY DEF IInv, TypeOK, DataPages, PAG_LOG_INIT_DATA, PAG_LOG_INIT_CODE
    <3> QED BY <3>1, <3>2
  <2>7. IsFiniteSet(Data \ {hole}) /\ Cardinality(Data \ {hole}) = Cardinality(Data) - 1
    BY <2>4, <2>6, FS_RemoveElement
  <2>8. Code \cap (Data \ {hole}) = {}
    OBVIOUS
  <2> HIDE DEF Code, Data, hole
  <2>9. IsFiniteSet(Code \cup (Data \ {hole}))
        /\ Cardinality(Code \cup (Data \ {hole})) =
            Cardinality(Code) + Cardinality(Data \ {hole}) - Cardinality(Code \cap (Data \ {hole}))
    BY <2>5, <2>7, FS_Union
  <2> QED BY <1>1, <2>4, <2>5, <2>7, <2>8, <2>9, FS_EmptySet
<1>3. \A f \in ScanFrames : \E d \in D : At(d) = f
  <2> SUFFICES ASSUME NEW f \in ScanFrames PROVE \E d \in D : At(d) = f
    OBVIOUS
  <2>1. phys_mem[f] = USED_FRAME
    BY PageFacts DEF NoFreeFrame, IInv, TypeOK
  <2>2. CASE f \in FramesOf(BootTable, CodePages)
    <3>1. PICK p \in CodePages : BootTable[p] = f
      BY <2>2 DEF FramesOf
    <3>2. <<idle_task, p>> \in D
      OBVIOUS
    <3> QED BY <3>1, <3>2
  <2>3. CASE f \notin FramesOf(BootTable, CodePages)
    <3>1. PICK t \in Owners, p \in DataPages : pt[dir[t]][p] = f
      BY <2>1, <2>3 DEF IInv, MemInv, FramesConserved
    <3>2. dir[t] = t /\ t \in U
      BY DEF IInv, SchedInv, OwnTable, OnePlace, Owners, Live
    <3>3. <<t, p>> # hole
      <4> SUFFICES ASSUME t = child, p = PAG_LOG_INIT_DATA + pag PROVE FALSE
        OBVIOUS
      <4>1. pt[child][p] # NoFrame <=> p < PAG_LOG_INIT_DATA + pag
        BY DEF IInv, MemInv, ForkProgress
      <4> QED BY <4>1, <3>1, <3>2, PageFacts DEF IInv, TypeOK, PAG_LOG_INIT_DATA, PAG_LOG_INIT_CODE
    <3>4. <<t, p>> \in D
      BY <3>2, <3>3
    <3> QED BY <3>1, <3>2, <3>4
  <2> QED BY <2>2, <2>3
<1>4. \A i \in 1 .. M : NUM_PAG_KERNEL + 2 * (i - 1) \in ScanFrames
  <2> SUFFICES ASSUME NEW i \in 1 .. M
               PROVE  NUM_PAG_KERNEL + 2 * (i - 1) \in ScanFrames
    OBVIOUS
  <2> DEFINE f == NUM_PAG_KERNEL + 2 * (i - 1)
  <2>1. f \in Nat /\ f >= NUM_PAG_KERNEL /\ (f - NUM_PAG_KERNEL) % 2 = 0
    BY <1>1
  <2>2. f < TOTAL_PAGES
    <3> HIDE DEF M
    <3>1. i \in Int /\ i <= M
      BY <1>1
    <3>2. NUM_PAG_KERNEL + 2 * M <= TOTAL_PAGES
      BY DEF AmpleMemory, M
    <3> QED BY <3>1, <3>2, <1>1
  <2> QED BY <2>1, <2>2 DEF ScanFrames, Frames
<1> HIDE DEF D, M
<1> DEFINE place == [i \in 1 .. M |-> CHOOSE d \in D : At(d) = NUM_PAG_KERNEL + 2 * (i - 1)]
<1>5. \A i \in 1 .. M : place[i] \in D /\ At(place[i]) = NUM_PAG_KERNEL + 2 * (i - 1)
  BY <1>3, <1>4
<1>6. place \in [1 .. M -> D]
  BY <1>5
<1>7. IsFiniteSet(1 .. M) /\ Cardinality(D) < Cardinality(1 .. M)
  <2>1. IsFiniteSet(1 .. M) /\ Cardinality(1 .. M) = IF 1 > M THEN 0 ELSE M - 1 + 1
    BY <1>1, FS_Interval
  <2>2. M >= 1
    BY <1>1 DEF M
  <2> QED BY <1>1, <1>2, <2>1, <2>2
<1> HIDE DEF place
<1>8. PICK i \in 1 .. M, j \in 1 .. M : i # j /\ place[i] = place[j]
  <2> DEFINE I == 1 .. M
  <2>1. IsFiniteSet(I) /\ Cardinality(D) < Cardinality(I) /\ place \in [I -> D]
    BY <1>6, <1>7
  <2> HIDE DEF I
  <2>2. \E x, y \in I : x # y /\ place[x] = place[y]
    BY <1>2, <2>1, FS_PigeonHole
  <2> QED BY <2>2 DEF I
<1>9. NUM_PAG_KERNEL + 2 * (i - 1) = NUM_PAG_KERNEL + 2 * (j - 1)
  <2> HIDE DEF At
  <2> QED BY <1>5, <1>8
<1> QED BY <1>1, <1>8, <1>9

\* A PCB out of use has no PID: exit wrote -1 over it.
DeadPIDs == \A t \in Tasks : t \notin Live \cup Forking \cup {idle_task} => PID[t] = -1

LEMMA DeadPIDsInit == Init => DeadPIDs
<1> SUFFICES ASSUME Init PROVE DeadPIDs
  OBVIOUS
<1>1. Live = {task1}
  BY TaskFacts, EmptyElems DEF Init, Live, Waiting
<1> QED BY <1>1 DEF DeadPIDs, Init

\* Only the -EAGAIN path of fork leaves a PID in a PCB it frees.
LEMMA DeadPIDsStep ==
    ASSUME TypeOK, SchedInv, DeadPIDs, [Next]_vars, ~ForkNoFrame
    PROVE  DeadPIDs'
<1>0. Live \subseteq Tasks \ {idle_task} /\ idle_task \in Tasks /\ child \in Tasks
  BY TaskFacts DEF SchedInv, OnePlace, Live, TypeOK
<1>1. ASSUME Live \cup Forking \subseteq Live' \cup Forking',
             \A t \in Tasks \ (Live' \cup Forking') : PID'[t] = PID[t]
      PROVE  DeadPIDs'
  BY <1>1 DEF DeadPIDs
<1>2. ASSUME ForceTaskSwitch, current # idle_task, UNCHANGED forking
      PROVE  DeadPIDs'
  <2> DEFINE q == Append(readyqueue, current)
             st == [state EXCEPT ![current] = "ST_READY"]
  <2>1. SchedNext(q, st) /\ UNCHANGED PID
    BY <1>2 DEF ForceTaskSwitch, Requeue, SchedInv, StateMatchesQueue
  <2>2. /\ q \in Seq(Tasks) /\ q # <<>> /\ IsInjective(q)
        /\ Range(q) = Waiting \cup {current} /\ st \in [Tasks -> States]
    <3>1. /\ readyqueue \in Seq(Tasks) /\ current \in Tasks
          /\ IsInjective(readyqueue) /\ current \notin Range(readyqueue)
          /\ state \in [Tasks -> States]
      BY DEF TypeOK, SchedInv, OnePlace, Waiting
    <3> QED BY <3>1, AppendElems DEF Waiting, States
  <2> HIDE DEF q, st
  <2>3. Range(q) = Range(readyqueue') \cup {current'}
    BY <2>1, <2>2, SchedNextElems
  <2>4. Live \subseteq Live' /\ Forking' = Forking
    BY <1>2, <2>2, <2>3, <1>0 DEF Live, Waiting, Forking, forking, SchedInv, OnePlace
  <2> QED BY <1>1, <2>1, <2>4
<1>3. CASE UNCHANGED vars
  BY <1>1, <1>3 DEF vars, sched, forking, Live, Waiting, Forking
<1>4. CASE ClockSwitch
  BY <1>2, <1>4 DEF ClockSwitch, SchedInv, IdleOnlyIfNoneReady
<1>5. CASE ClockStay
  BY <1>1, <1>5 DEF ClockStay, Live, Waiting, Forking, forking
<1>6. CASE sys_yield
  BY <1>2, <1>6 DEF sys_yield, InUserCode
<1>7. CASE sys_exit
  <2>1. /\ SchedNext(readyqueue, state) /\ kpath = "user" /\ kpath' = "user"
        /\ PID' = [PID EXCEPT ![current] = -1] /\ current # idle_task
    BY <1>7 DEF sys_exit, InUserCode, forking
  <2>2. /\ readyqueue \in Seq(Tasks) /\ IsInjective(readyqueue)
        /\ state \in [Tasks -> States]
    BY DEF TypeOK, SchedInv, OnePlace
  <2>3. \/ Waiting = Waiting' \cup {current'}
        \/ Waiting = {} /\ Waiting' = {} /\ current' = idle_task
    BY <2>1, <2>2, SchedNextElems, EmptyElems DEF Waiting
  <2>4. Live \subseteq Live' \cup {current}
    BY <2>3, <1>0 DEF Live, SchedInv, OnePlace
  <2> QED BY <2>1, <2>4 DEF DeadPIDs, Forking, TypeOK
<1>8. CASE ForkNoTask
  BY <1>3, <1>8 DEF ForkNoTask
<1>9. CASE ForkBegin
  <2>1. /\ child' = Head(freequeue) /\ UNCHANGED <<readyqueue, current>>
        /\ PID' = [PID EXCEPT ![child'] = PID[current]]
        /\ kpath = "user" /\ kpath' = "alloc"
    BY <1>9 DEF ForkBegin, InUserCode
  <2>2. Live' = Live /\ Forking = {} /\ Forking' = {child'}
    BY <2>1 DEF Live, Waiting, Forking
  <2>3. \A t \in Tasks \ {child'} : PID'[t] = PID[t]
    BY <2>1 DEF TypeOK
  <2> QED BY <1>1, <2>2, <2>3
<1>10. CASE ForkAlloc \/ ForkShareCode \/ ForkCopyPage
  BY <1>1, <1>10 DEF ForkAlloc, ForkShareCode, ForkCopyPage, sched, Live, Waiting, Forking
<1>11. CASE ForkEnd
  <2>1. /\ kpath # "user" /\ readyqueue' = Append(readyqueue, child)
        /\ kpath' = "user" /\ current' = current
        /\ PID' = [PID EXCEPT ![child] = global_PID + 1]
    BY <1>11 DEF ForkEnd
  <2>2. Waiting' = Waiting \cup {child}
    BY <2>1, AppendElems DEF Waiting, TypeOK
  <2>3. Forking = {child} /\ Live' = Live \cup {child}
    BY <2>1, <2>2, <1>0 DEF Live, Forking, SchedInv, OnePlace
  <2>4. \A t \in Tasks \ {child} : PID'[t] = PID[t]
    BY <2>1 DEF TypeOK
  <2> QED BY <1>1, <2>3, <2>4
<1> QED BY <1>3, <1>4, <1>5, <1>6, <1>7, <1>8, <1>9, <1>10, <1>11
        DEF Next, Clock, sys_fork, ForkStep

\* With memory for every PCB, alloc_frame never fails inside fork: its -EAGAIN
\* path is dead code in the configuration shipped.
THEOREM ForkFindsFrames ==
    AmpleMemory => (Spec => [](kpath = "alloc" /\ MorePages => ~NoFreeFrame))
<1> SUFFICES ASSUME AmpleMemory
             PROVE  Spec => [](kpath = "alloc" /\ MorePages => ~NoFreeFrame)
  OBVIOUS
<1>1. IInv => (kpath = "alloc" /\ MorePages => ~NoFreeFrame)
  BY FrameLeft
<1> QED BY <1>1, InvCorrect, PTL

\* With memory for every PCB, the scan of task[] in sys_get_stats never stops at
\* a PCB out of use.
THEOREM PIDLookupCorrect == AmpleMemory => (Spec => []PIDLookup)
<1> SUFFICES ASSUME AmpleMemory PROVE Spec => []PIDLookup
  OBVIOUS
<1>1. IInv /\ DeadPIDs /\ [Next]_vars => DeadPIDs'
  <2> SUFFICES ASSUME IInv, DeadPIDs, [Next]_vars PROVE DeadPIDs'
    OBVIOUS
  <2>1. ~ForkNoFrame
    BY FrameLeft DEF ForkNoFrame
  <2> QED BY <2>1, DeadPIDsStep DEF IInv
<1>2. DeadPIDs => PIDLookup
  BY DEF DeadPIDs, PIDLookup, Forking
<1> QED BY <1>1, <1>2, DeadPIDsInit, InvCorrect, PTL DEF Spec

-----------------------------------------------------------------------------
(* Waiting for the CPU *)

\* The readyqueue after its first process was dispatched with a full quantum.
LEMMA NextInLine ==
    ASSUME TypeOK, SchedInv, NEW q \in Seq(Tasks), NEW st,
           \/ q = readyqueue \/ q = Append(readyqueue, current),
           SchedNext(q, st), SchedInv', total_quantum' = total_quantum,
           NEW i \in 1 .. Len(readyqueue)
    PROVE  \/ current' = readyqueue[i] /\ i = 1
           \/ /\ i - 1 \in 1 .. Len(readyqueue')
              /\ readyqueue'[i - 1] = readyqueue[i]
              /\ WaitOf(i - 1)' <= WaitOf(i) - 1
<1>1. /\ readyqueue \in Seq(Tasks) /\ current \in Tasks
      /\ Len(readyqueue) \in Nat /\ i \in Nat
  BY DEF TypeOK
<1>2. /\ Len(q) >= Len(readyqueue) /\ Len(q) \in Nat /\ q[i] = readyqueue[i]
  BY <1>1
<1>3. q # <<>> /\ readyqueue' = Tail(q) /\ current' = Head(q)
      /\ remaining_quantum' = total_quantum[current']
  BY <1>1, <1>2 DEF SchedNext
<1>4. CASE i = 1
  BY <1>2, <1>3, <1>4
<1>5. CASE i # 1
  <2>1. i - 1 \in 1 .. Len(readyqueue') /\ readyqueue'[i - 1] = readyqueue[i]
    BY <1>1, <1>2, <1>3, <1>5
  <2>2. remaining_quantum' = DEFAULT_QUANTUM
    BY <1>3 DEF SchedInv, QuantumNeverOver, Owners, Live
  <2>3. remaining_quantum \in Int /\ remaining_quantum >= 1
    BY DEF SchedInv, QuantumNeverOver
  <2>4. (i - 2) * DEFAULT_QUANTUM + DEFAULT_QUANTUM = (i - 1) * DEFAULT_QUANTUM
        /\ (i - 1) * DEFAULT_QUANTUM \in Int /\ (i - 2) * DEFAULT_QUANTUM \in Int
        /\ (i - 1) - 1 = i - 2
    BY <1>1, QuantumAssumption
  <2>5. WaitOf(i - 1)' <= WaitOf(i) - 1
    BY <2>2, <2>3, <2>4 DEF WaitOf
  <2> QED BY <2>1, <2>5
<1> QED BY <1>4, <1>5

\* No overtaking, and the wait of a ready process is bounded by the quanta of
\* those before it.
THEOREM WaitCorrect == Spec => BoundedWait
<1> DEFINE Ok(i) ==
      \/ current' = readyqueue[i] /\ i = 1
      \/ \E j \in {i - 1, i} \cap 1 .. Len(readyqueue') :
           /\ readyqueue'[j] = readyqueue[i]
           /\ WaitOf(j)' <= WaitOf(i) - (IF Clock THEN 1 ELSE 0)
<1>1. ASSUME TypeOK, SchedInv, SchedInv', TypeOK', [Next]_vars
      PROVE  [\A i \in 1 .. Len(readyqueue) : Ok(i)]_vars
  <2> SUFFICES ASSUME ~ UNCHANGED vars, Next, NEW i \in 1 .. Len(readyqueue)
               PROVE  Ok(i)
    BY <1>1
  <2>0. /\ readyqueue \in Seq(Tasks) /\ Len(readyqueue) \in Nat /\ i \in Nat
        /\ remaining_quantum \in Int /\ WaitOf(i) \in Int
        /\ current \in Tasks /\ child \in Tasks
    BY <1>1, QuantumAssumption DEF TypeOK, WaitOf
  <2>1. ASSUME i - 1 \in 1 .. Len(readyqueue'), readyqueue'[i - 1] = readyqueue[i],
               WaitOf(i - 1)' <= WaitOf(i) - 1
        PROVE  Ok(i)
    <3>1. WaitOf(i - 1)' \in Int
      BY <1>1, <2>0, QuantumAssumption DEF TypeOK, WaitOf
    <3>2. WaitOf(i - 1)' <= WaitOf(i) - (IF Clock THEN 1 ELSE 0)
      BY <2>0, <2>1, <3>1
    <3> QED BY <2>1, <3>2
  <2>2. ASSUME readyqueue'[i] = readyqueue[i], i \in 1 .. Len(readyqueue'),
               remaining_quantum' = remaining_quantum, ~ Clock
        PROVE  Ok(i)
    <3>1. WaitOf(i)' = WaitOf(i)
      BY <2>2 DEF WaitOf
    <3> QED BY <2>0, <2>2, <3>1
  <2>3. ASSUME ForceTaskSwitch PROVE Ok(i)
    <3>1. /\ SchedNext(Append(readyqueue, current),
                       [state EXCEPT ![current] = "ST_READY"])
          /\ total_quantum' = total_quantum
      BY <1>1, <2>3 DEF ForceTaskSwitch, Requeue, SchedInv, StateMatchesQueue
    <3>2. Append(readyqueue, current) \in Seq(Tasks)
      BY <2>0
    <3> QED BY <1>1, <2>1, <3>1, <3>2, NextInLine
  <2>4. CASE ClockSwitch
    BY <2>3, <2>4 DEF ClockSwitch
  <2>5. CASE ClockStay
    <3>1. readyqueue' = readyqueue /\ remaining_quantum' = remaining_quantum - 1
      BY <2>0, <2>5 DEF ClockStay
    <3>2. WaitOf(i)' = WaitOf(i) - 1
      BY <2>0, <3>1, QuantumAssumption DEF WaitOf
    <3>3. WaitOf(i)' <= WaitOf(i) - (IF Clock THEN 1 ELSE 0)
      BY <2>0, <3>2
    <3> QED BY <2>0, <3>1, <3>3
  <2>6. CASE sys_yield
    BY <2>3, <2>6 DEF sys_yield
  <2>7. CASE sys_exit
    <3>1. SchedNext(readyqueue, state) /\ total_quantum' = total_quantum
      BY <2>7 DEF sys_exit
    <3> QED BY <1>1, <2>0, <2>1, <3>1, NextInLine
  <2>8. CASE ForkNoTask
    BY <2>8 DEF ForkNoTask
  <2>9. ASSUME Clock PROVE kpath = "user" /\ kpath' = kpath
    BY <2>9 DEF Clock, ClockSwitch, ClockStay, forking
  <2>10. CASE ForkBegin
    BY <2>2, <2>9, <2>10 DEF ForkBegin, InUserCode
  <2>11. CASE ForkAlloc \/ ForkShareCode \/ ForkCopyPage
    BY <2>2, <2>9, <2>11 DEF ForkAlloc, ForkShareCode, ForkCopyPage, sched
  <2>12. CASE ForkNoFrame
    BY <2>2, <2>9, <2>12 DEF ForkNoFrame
  <2>13. CASE ForkEnd
    <3>1. kpath # "user" /\ readyqueue' = Append(readyqueue, child)
          /\ remaining_quantum' = remaining_quantum
      BY <2>13 DEF ForkEnd
    <3>2. readyqueue'[i] = readyqueue[i] /\ i \in 1 .. Len(readyqueue')
      BY <2>0, <3>1
    <3> QED BY <2>2, <2>9, <3>1, <3>2
  <2> QED BY <2>4, <2>5, <2>6, <2>7, <2>8, <2>10, <2>11, <2>12, <2>13
          DEF Next, Clock, sys_fork, ForkStep
<1> QED BY <1>1, SchedCorrect, PTL DEF Spec, BoundedWait

-----------------------------------------------------------------------------
(* ProcLife *)

\* allocate_DIR gives a PCB the directory at its own index, and nothing else
\* writes that field.
DirOwn == \A t \in Tasks : dir[t] \in {t, NoDir}

LEMMA DirCorrect == Spec => []DirOwn
<1>1. Init => DirOwn
  BY DEF Init, DirOwn
<1>2. TypeOK /\ DirOwn /\ [Next]_vars => DirOwn'
  <2> SUFFICES ASSUME TypeOK, DirOwn, [Next]_vars PROVE DirOwn'
    OBVIOUS
  <2>1. CASE UNCHANGED dir
    BY <2>1 DEF DirOwn
  <2>2. CASE ForkBegin
    BY <2>2 DEF ForkBegin, DirOwn, TypeOK
  <2>3. [Next]_vars => UNCHANGED dir \/ ForkBegin
    BY DEF Next, Clock, ClockSwitch, ClockStay, ForceTaskSwitch, sys_yield, sys_exit,
           sys_fork, ForkNoTask, ForkStep, ForkAlloc, ForkNoFrame, ForkShareCode,
           ForkCopyPage, ForkEnd, vars, sched
  <2> QED BY <2>1, <2>2, <2>3
<1> QED BY <1>1, <1>2, TypeCorrect, PTL DEF Spec

\* The constants Proc and Pool of ProcLife.
User == Tasks \ {idle_task}
Pool == ScanFrames \ FramesOf(BootTable, CodePages)

\* The frames behind the data pages of table t.
Mapped(t) == FramesOf(pt[t], DataPages) \ {NoFrame}

\* The refinement mapping reads the table through the directory of the PCB; for
\* every PCB that is the table at its own index, or an empty one.
HoldsMapped == \A t \in Tasks : HoldsOf(t) = Mapped(t)

LEMMA InvHolds == IInv /\ DirOwn => HoldsMapped
<1> SUFFICES ASSUME IInv, DirOwn, NEW t \in Tasks PROVE HoldsOf(t) = Mapped(t)
  BY DEF HoldsMapped
<1>1. CASE dir[t] = t
  BY <1>1, TaskFacts DEF HoldsOf, Mapped
<1>2. CASE dir[t] = NoDir
  <2>1. t \notin Owners
    BY <1>2, TaskFacts DEF IInv, SchedInv, OwnTable
  <2>2. \A p \in DataPages : pt[t][p] = NoFrame
    BY <2>1 DEF IInv, MemInv, DeadTablesEmpty
  <2> QED BY <1>2, <2>2 DEF HoldsOf, Mapped, FramesOf
<1> QED BY <1>1, <1>2 DEF DirOwn

\* What a process holds are frames of the pool, and nobody else's.
LEMMA MappedFacts ==
    ASSUME IInv
    PROVE  /\ \A t \in Tasks : Mapped(t) \subseteq Pool
           /\ \A t \in Tasks \ Owners : Mapped(t) = {}
           /\ UNION {Mapped(t) : t \in User} = {f \in Pool : phys_mem[f] = USED_FRAME}
<1>1. \A t \in Owners : dir[t] = t /\ t \in User
  BY DEF IInv, SchedInv, OwnTable, OnePlace, Owners, Live, User
<1>2. \A t \in Tasks \ Owners : Mapped(t) = {}
  BY DEF IInv, MemInv, DeadTablesEmpty, Mapped, FramesOf
<1>3. ASSUME NEW t \in Tasks PROVE Mapped(t) \subseteq Pool
  <2>1. CASE t \in Owners
    BY <1>1, <2>1 DEF IInv, MemInv, FramesPrivate, Mapped, FramesOf, Pool
  <2> QED BY <1>2, <2>1
<1>4. ASSUME NEW f \in Pool
      PROVE  phys_mem[f] = USED_FRAME <=> \E t \in User : f \in Mapped(t)
  <2>1. phys_mem[f] = USED_FRAME <=> \E t \in Owners : \E p \in DataPages : pt[t][p] = f
    BY <1>1 DEF Pool, IInv, MemInv, FramesConserved
  <2>2. f # NoFrame
    BY PageFacts DEF Pool
  <2>3. ASSUME NEW t \in User, f \in Mapped(t)
        PROVE  t \in Owners
    BY <1>2, <2>3 DEF User
  <2> QED BY <1>1, <2>1, <2>2, <2>3 DEF Mapped, FramesOf
<1>5. UNION {Mapped(t) : t \in User} = {f \in Pool : phys_mem[f] = USED_FRAME}
  <2>1. \A t \in User : Mapped(t) \subseteq Pool
    BY <1>3 DEF User
  <2> HIDE DEF Mapped, Pool
  <2> QED BY <1>4, <2>1
<1> QED BY <1>2, <1>3, <1>5

\* Data pages mapped one to one are backed by as many frames.
LEMMA AsManyFrames ==
    ASSUME NEW table, \A p, q \in DataPages : table[p] = table[q] => p = q
    PROVE  Cardinality(FramesOf(table, DataPages)) = NUM_PAG_DATA
<1> DEFINE T == FramesOf(table, DataPages)
           f == [p \in DataPages |-> table[p]]
<1>1. IsFiniteSet(DataPages) /\ Cardinality(DataPages) = NUM_PAG_DATA
  <2>1. PAG_LOG_INIT_DATA \in Int /\ NUM_PAG_DATA \in Nat \ {0}
    BY PagesAssumption DEF PAG_LOG_INIT_DATA, PAG_LOG_INIT_CODE
  <2> QED BY <2>1, FS_Interval DEF DataPages
<1>2. f \in Surjection(DataPages, T)
  BY DEF Surjection, FramesOf
<1>3. f \in Injection(DataPages, T)
  BY DEF Injection, IsInjective, FramesOf
<1> HIDE DEF f, T
<1>4. Cardinality(T) = Cardinality(DataPages)
  BY <1>1, <1>2, <1>3, FS_Surjection
<1> QED BY <1>1, <1>4 DEF T

\* LifeOf tells the four places of a PCB apart.
LEMMA LifeFacts ==
    ASSUME IInv
    PROVE  \A t \in User :
             /\ LifeOf(t) = "run" <=> t = current
             /\ LifeOf(t) = "ready" <=> t \in Waiting
             /\ LifeOf(t) = "new" <=> t \in Forking
             /\ LifeOf(t) = "free" <=> t \in Free
             /\ LifeOf(t) \in {"run", "ready", "new", "free"}
BY DEF IInv, SchedInv, OnePlace, LifeOf, User

\* ProcLife has its own copy of module FiniteSets.
LEMMA SameCardinality == \A S : Life!Cardinality(S) = Cardinality(S)
BY Zenon DEF Life!Cardinality, Cardinality

LEMMA LifeInit == Init => Life!Init
<1> SUFFICES ASSUME Init PROVE Life!Init
  OBVIOUS
<1>0. IInv /\ DirOwn
  BY TypeInit, SchedInit, MemInit DEF IInv, Init, DirOwn
<1> DEFINE S == FramesOf(BootTable, DataPages)
<1>1. /\ current = task1 /\ Waiting = {} /\ Forking = {} /\ pt[task1] = BootTable
      /\ \A t \in User \ {task1} : \A p \in DataPages : pt[t][p] = NoFrame
  BY TaskFacts, PageFacts, EmptyElems DEF Init, Waiting, Forking, User
<1>2. \A p \in DataPages : BootTable[p] = BootFrame(p) /\ BootTable[p] # NoFrame
  BY PageFacts, BootFacts DEF BootTable
<1>3. Cardinality(S) = NUM_PAG_DATA
  BY <1>2, BootFacts, AsManyFrames
<1>4. \A t \in User : LifeOf(t) = IF t = task1 THEN "run" ELSE "free"
  BY <1>1 DEF LifeOf
<1>5. task1 \in User
  BY TaskFacts DEF User
<1>6. Mapped(task1) = S
  BY <1>1, <1>2 DEF Mapped, FramesOf
<1>7. \A t \in User : HoldsOf(t) = IF t = task1 THEN S ELSE {}
  <2>1. \A t \in User \ {task1} : Mapped(t) = {}
    BY <1>1 DEF Mapped, FramesOf
  <2> QED BY <1>0, <1>6, <2>1, InvHolds DEF HoldsMapped, User
<1>8. S \in SUBSET Pool
  BY <1>0, <1>5, <1>6, MappedFacts DEF User
<1> HIDE DEF S
<1>9. /\ [t \in User |-> LifeOf(t)] = [t \in User |-> IF t = task1 THEN "run" ELSE "free"]
      /\ [t \in User |-> HoldsOf(t)] = [t \in User |-> IF t = task1 THEN S ELSE {}]
  BY <1>4, <1>7
<1> QED BY <1>3, <1>8, <1>9, SameCardinality, Zenon DEF Life!Init, User, Pool

\* Steps ProcLife does not see.
LEMMA LifeStutters ==
    ASSUME HoldsMapped, HoldsMapped', UNCHANGED <<current, kpath, child>>,
           Waiting' = Waiting,
           \A t \in Tasks : \A p \in DataPages : pt'[t][p] = pt[t][p]
    PROVE  UNCHANGED Life!lvars
<1>1. \A t \in User : LifeOf(t)' = LifeOf(t)
  BY DEF LifeOf, Forking
<1>2. \A t \in Tasks : HoldsOf(t)' = HoldsOf(t)
  <2>1. \A t \in Tasks : Mapped(t)' = Mapped(t)
    BY DEF Mapped, FramesOf
  <2> QED BY <2>1 DEF HoldsMapped
<1> QED BY <1>1, <1>2 DEF Life!lvars, User

\* Every step of the kernel is a step of ProcLife or none.
LEMMA LifeStep ==
    ASSUME IInv, IInv', HoldsMapped, HoldsMapped', [Next]_vars
    PROVE  [Life!Next]_(Life!lvars)
<1> USE DEF IInv
<1>0. /\ \A t \in Tasks : HoldsOf(t) = Mapped(t)
      /\ \A t \in Tasks : HoldsOf(t)' = Mapped(t)'
  BY DEF HoldsMapped
<1>1. ASSUME UNCHANGED <<readyqueue, current, kpath, child, pt>>
      PROVE  UNCHANGED Life!lvars
  BY <1>1, LifeStutters DEF Waiting
<1>2. ASSUME ForceTaskSwitch, current # idle_task, UNCHANGED <<memory, forking>>, kpath = "user"
      PROVE  [Life!Next]_(Life!lvars)
  <2> DEFINE q == Append(readyqueue, current)
             st == [state EXCEPT ![current] = "ST_READY"]
  <2>1. SchedNext(q, st)
    BY <1>2 DEF ForceTaskSwitch, Requeue, SchedInv, StateMatchesQueue
  <2>2. /\ q \in Seq(Tasks) /\ q # <<>> /\ IsInjective(q)
        /\ Range(q) = Waiting \cup {current} /\ st \in [Tasks -> States]
    <3>1. /\ readyqueue \in Seq(Tasks) /\ current \in Tasks
          /\ IsInjective(readyqueue) /\ current \notin Range(readyqueue)
          /\ state \in [Tasks -> States]
      BY DEF TypeOK, SchedInv, OnePlace, Waiting
    <3> QED BY <3>1, AppendElems DEF Waiting, States
  <2> HIDE DEF q, st
  <2>3. /\ Waiting \cup {current} = Waiting' \cup {current'}
        /\ current' \notin Waiting'
    BY <2>1, <2>2, SchedNextElems DEF Waiting
  <2>4. \A t \in User : HoldsOf(t)' = HoldsOf(t)
    BY <1>0, <1>2 DEF Mapped, memory, User
  <2>5. CASE current' = current
    <3>1. Waiting' = Waiting
      BY <2>3, <2>5 DEF SchedInv, OnePlace
    <3> QED BY <1>2, <2>5, <3>1, LifeStutters DEF memory, forking
  <2>6. CASE current' # current
    <3>1. /\ current' \in Waiting /\ current' \in User /\ current \in User
          /\ Forking = {} /\ Forking' = {}
      BY <1>2, <2>3, <2>6 DEF SchedInv, OnePlace, TypeOK, User, Forking, forking
    <3>2. \A t \in User : LifeOf(t)' = IF t = current' THEN "run"
                                       ELSE IF LifeOf(t) = "run" THEN "ready" ELSE LifeOf(t)
      BY <2>3, <2>6, <3>1 DEF LifeOf
    <3>3. /\ LifeOf(current') = "ready"
          /\ \A t \in User : LifeOf(t) # "new"
          /\ LifeOf(current) = "run"
      BY <3>1, LifeFacts
    <3>4. Life!Switch(current')
      BY <2>4, <3>1, <3>2, <3>3 DEF Life!Switch, Life!In, Life!Running, User
    <3> QED BY <3>1, <3>4 DEF Life!Next, User
  <2> QED BY <2>5, <2>6
<1>3. CASE UNCHANGED vars \/ ForkNoTask \/ ClockStay
  BY <1>1, <1>3 DEF ForkNoTask, ClockStay, vars, sched, memory, forking
<1>4. CASE ClockSwitch
  BY <1>2, <1>4 DEF ClockSwitch, SchedInv, IdleOnlyIfNoneReady
<1>5. CASE sys_yield
  BY <1>2, <1>5 DEF sys_yield, InUserCode
<1>6. CASE sys_exit
  <2>1. /\ SchedNext(readyqueue, state) /\ kpath = "user" /\ UNCHANGED forking
        /\ pt' = [pt EXCEPT ![dir[current]] = DelPages(@, DataPages)] /\ current # idle_task
        /\ freequeue' = Append(freequeue, current)
    BY <1>6 DEF sys_exit, InUserCode
  <2>2. /\ readyqueue \in Seq(Tasks) /\ IsInjective(readyqueue)
        /\ state \in [Tasks -> States] /\ current \in User
    BY <2>1 DEF TypeOK, SchedInv, OnePlace, User
  <2>3. \/ Waiting = Waiting' \cup {current'} /\ current' \notin Waiting'
        \/ Waiting = {} /\ Waiting' = {} /\ current' = idle_task
    BY <2>1, <2>2, SchedNextElems, EmptyElems DEF Waiting
  <2>4. Forking = {} /\ Forking' = {} /\ current \notin Waiting /\ idle_task \notin Waiting
    BY <2>1 DEF Forking, forking, SchedInv, OnePlace
  <2>5. \A t \in User : HoldsOf(t)' = IF t = current THEN {} ELSE HoldsOf(t)
    <3>1. dir[current] = current /\ pt \in [Tasks -> [UserPages -> Frames]]
      BY DEF SchedInv, OwnTable, TypeOK
    <3>2. \A p \in DataPages : pt'[current][p] = NoFrame
      BY <2>1, <2>2, <3>1, PageFacts DEF DelPages, User
    <3>3. \A t \in Tasks \ {current} : pt'[t] = pt[t]
      BY <2>1, <3>1
    <3>4. \A t \in Tasks : Mapped(t)' = IF t = current THEN {} ELSE Mapped(t)
      BY <3>2, <3>3 DEF Mapped, FramesOf
    <3> QED BY <1>0, <3>4 DEF User
  <2>6. LifeOf(current) = "run" /\ \A t \in User : LifeOf(t) # "new"
    BY <2>2, <2>4, LifeFacts
  <2>7. CASE Waiting = Waiting' \cup {current'} /\ current' \notin Waiting'
    <3>1. current' \in User /\ current' # current /\ LifeOf(current') = "ready"
      <4>1. current' \in Waiting /\ current' \in Tasks
        BY <2>2, <2>7 DEF TypeOK
      <4>2. current' \in User /\ current' # current
        BY <4>1, <2>4 DEF User
      <4> QED BY <4>1, <4>2, LifeFacts
    <3>2. \A t \in User : LifeOf(t)' = IF t = current' THEN "run"
                                       ELSE IF LifeOf(t) = "run" THEN "free" ELSE LifeOf(t)
      BY <2>4, <2>7 DEF LifeOf
    <3>3. Life!Terminate(current)
      BY <2>2, <2>5, <2>6, <3>1, <3>2 DEF Life!Terminate, Life!In, Life!Running, User
    <3> QED BY <2>2, <3>3 DEF Life!Next, User
  <2>8. CASE Waiting = {} /\ Waiting' = {} /\ current' = idle_task
    <3>1. \A t \in User : LifeOf(t) # "ready"
      BY <2>8, LifeFacts
    <3>2. \A t \in User : LifeOf(t)' = IF t = current THEN "free" ELSE LifeOf(t)
      BY <2>4, <2>8 DEF LifeOf, User
    <3>3. Life!Terminate(current)
      BY <2>2, <2>5, <2>6, <3>1, <3>2 DEF Life!Terminate, Life!In, User
    <3> QED BY <2>2, <3>3 DEF Life!Next, User
  <2> QED BY <2>3, <2>7, <2>8
<1>7. CASE ForkBegin
  <2>1. /\ child' = Head(freequeue) /\ UNCHANGED <<readyqueue, current, pt>>
        /\ kpath = "user" /\ kpath' = "alloc" /\ freequeue # <<>> /\ current # idle_task
    BY <1>7 DEF ForkBegin, InUserCode, memory
  <2>2. child' \in Free
    <3>1. Head(freequeue) \in Range(freequeue)
      <4>1. freequeue \in Seq(Tasks) /\ freequeue # <<>>
        BY <2>1 DEF TypeOK
      <4> QED BY <4>1, TailElems
    <3> QED BY <2>1, <3>1 DEF Free
  <2>3. /\ child' \in User /\ current \in User /\ Forking = {} /\ Forking' = {child'}
        /\ Waiting' = Waiting /\ child' \notin Waiting \cup {current}
    BY <2>1, <2>2 DEF SchedInv, OnePlace, TypeOK, User, Forking, Waiting
  <2>4. \A t \in User : LifeOf(t)' = IF t = child' THEN "new" ELSE LifeOf(t)
    BY <2>1, <2>3 DEF LifeOf
  <2>5. \A t \in User : HoldsOf(t)' = HoldsOf(t)
    BY <1>0, <2>1 DEF Mapped, User
  <2>6. /\ LifeOf(child') = "free" /\ LifeOf(current) = "run"
        /\ \A t \in User : LifeOf(t) # "new"
    BY <2>2, <2>3, LifeFacts
  <2>7. Life!Spawn(child')
    BY <2>3, <2>4, <2>5, <2>6 DEF Life!Spawn, Life!In, User
  <2> QED BY <2>3, <2>7 DEF Life!Next, User
<1>8. ASSUME kpath # "user"
      PROVE  child \in User /\ LifeOf(child) = "new" /\ dir[child] = child
  <2>1. child \in User /\ Forking = {child}
    BY <1>8 DEF Forking, SchedInv, OnePlace, TypeOK, User
  <2> QED BY <2>1, LifeFacts DEF SchedInv, OwnTable, Owners
<1>9. CASE ForkAlloc
  <2>1. PICK f \in Frames :
          /\ AllocFrame(f)
          /\ phys_mem' = [phys_mem EXCEPT ![f] = USED_FRAME]
          /\ pt' = [pt EXCEPT ![dir[child]] = SetPage(@, PAG_LOG_INIT_DATA + pag, f)]
    BY <1>9 DEF ForkAlloc
  <2>2. /\ kpath = "alloc" /\ pag < NUM_PAG_DATA
        /\ UNCHANGED <<readyqueue, current, kpath, child>>
    BY <1>9 DEF ForkAlloc, sched
  <2>3. child \in User /\ LifeOf(child) = "new" /\ dir[child] = child
    BY <1>8, <2>2
  <2> DEFINE page == PAG_LOG_INIT_DATA + pag
  <2>4. page \in DataPages /\ pt[child][page] = NoFrame
    <3>1. page \in DataPages /\ ~(page < PAG_LOG_INIT_DATA + pag)
      BY <2>2, PagesAssumption DEF TypeOK, DataPages, PAG_LOG_INIT_DATA, PAG_LOG_INIT_CODE
    <3> QED BY <2>2, <3>1 DEF MemInv, ForkProgress
  <2>5. /\ \A t \in Tasks \ {child} : pt'[t] = pt[t]
        /\ \A p \in DataPages : pt'[child][p] = IF p = page THEN f ELSE pt[child][p]
    BY <2>1, <2>3, <2>4, PageFacts DEF TypeOK, User
  <2> HIDE DEF page
  <2>6. f # NoFrame /\ f \in ScanFrames /\ phys_mem[f] # USED_FRAME
    BY <2>1, PageFacts DEF AllocFrame, FREE_FRAME, USED_FRAME
  <2>7. \A t \in Tasks : Mapped(t)' = IF t = child THEN Mapped(t) \cup {f} ELSE Mapped(t)
    BY <2>4, <2>5, <2>6 DEF Mapped, FramesOf
  <2>8. \A t \in User : HoldsOf(t)' = IF t = child THEN HoldsOf(t) \cup {f} ELSE HoldsOf(t)
    BY <1>0, <2>3, <2>7 DEF User
  <2>9. \A t \in User : LifeOf(t)' = LifeOf(t)
    BY <2>2 DEF LifeOf, Forking, Waiting
  <2>10. f \in Pool
    BY <2>6 DEF Pool, MemInv, FramesConserved
  <2>11. f \notin Life!Held
    <3>1. f \notin UNION {Mapped(t) : t \in User}
      BY <2>6, MappedFacts
    <3>2. \A t \in User : f \notin HoldsOf(t)
      BY <1>0, <3>1 DEF User
    <3> QED BY <3>2 DEF Life!Held, User
  <2>12. Life!Grab(child, f)
    BY <2>3, <2>8, <2>9, <2>11 DEF Life!Grab, User
  <2> QED BY <2>3, <2>10, <2>12 DEF Life!Next, User, Pool
<1>10. CASE ForkNoFrame
  <2>1. /\ kpath = "alloc" /\ NoFreeFrame /\ kpath' = "user"
        /\ pt' = [pt EXCEPT ![dir[child]] = DelPages(@, DonePages)]
        /\ UNCHANGED <<readyqueue, current>>
    BY <1>10 DEF ForkNoFrame
  <2>2. child \in User /\ LifeOf(child) = "new" /\ dir[child] = child
    BY <1>8, <2>1
  <2>3. \A t \in Tasks \ {child} : pt'[t] = pt[t]
    BY <2>1, <2>2 DEF TypeOK
  <2>4. \A t \in User : LifeOf(t)' = IF t = child THEN "free" ELSE LifeOf(t)
    <3>1. Forking' = {} /\ Forking = {child} /\ child # current /\ child \notin Waiting
      BY <2>1 DEF Forking, SchedInv, OnePlace
    <3> QED BY <2>1, <3>1 DEF LifeOf, Waiting
  <2>5. child \notin Owners'
    <3>1. child \in Free'
      BY <1>10, AppendElems DEF ForkNoFrame, Free, TypeOK
    <3> QED BY <2>2, <3>1 DEF Owners, Live, SchedInv, OnePlace, User
  <2>6. \A t \in Tasks : t = child => Mapped(t)' = {}
    <3>1. \A p \in DataPages : pt'[child][p] = NoFrame
      BY <2>2, <2>5 DEF User, DeadTablesEmpty, MemInv
    <3> QED BY <3>1 DEF Mapped, FramesOf
  <2>7. \A t \in User : HoldsOf(t)' = IF t = child THEN {} ELSE HoldsOf(t)
    <3>1. \A t \in Tasks \ {child} : Mapped(t)' = Mapped(t)
      BY <2>3 DEF Mapped
    <3> QED BY <1>0, <2>6, <3>1 DEF User
  <2>8. Life!Held = Pool
    <3>1. \A f \in Pool : phys_mem[f] = USED_FRAME
      BY <2>1, PageFacts DEF NoFreeFrame, TypeOK, Pool
    <3>2. UNION {Mapped(t) : t \in User} = Pool
      BY <3>1, MappedFacts
    <3>3. \A t \in User : HoldsOf(t) = Mapped(t)
      BY <1>0 DEF User
    <3>4. Life!Held = UNION {HoldsOf(t) : t \in User}
      BY DEF Life!Held, User
    <3> QED BY <3>2, <3>3, <3>4
  <2>9. Life!Abort(child)
    BY <2>2, <2>4, <2>7, <2>8 DEF Life!Abort, User, Pool
  <2> QED BY <2>2, <2>9 DEF Life!Next, User
<1>11. CASE ForkShareCode
  <2>1. /\ UNCHANGED <<readyqueue, current, child>>
        /\ kpath = "alloc" /\ kpath' = "copy"
        /\ pt' = [pt EXCEPT ![dir[child]] =
                    [p \in UserPages |-> IF p \in CodePages
                                         THEN pt[dir[current]][p] ELSE @[p]]]
    BY <1>11 DEF ForkShareCode, sched
  <2>2. \A t \in Tasks : \A p \in DataPages : pt'[t][p] = pt[t][p]
    BY <2>1, <1>8, PageFacts DEF TypeOK
  <2>3. \A t \in Tasks : Mapped(t)' = Mapped(t)
    BY <2>2 DEF Mapped, FramesOf
  <2>4. \A t \in User : LifeOf(t)' = LifeOf(t)
    BY <2>1 DEF LifeOf, Forking, Waiting
  <2> QED BY <1>0, <2>3, <2>4 DEF Life!lvars, User
<1>12. CASE ForkCopyPage
  <2> DEFINE page == PAG_LOG_INIT_DATA + pag
             temp == page + NUM_PAG_DATA
  <2>1. /\ UNCHANGED <<readyqueue, current, child, kpath>>
        /\ kpath = "copy" /\ pag < NUM_PAG_DATA
        /\ pt' = [pt EXCEPT ![dir[current]] =
                    DelPages(SetPage(@, temp, pt[dir[child]][page]), {temp})]
    BY <1>12 DEF ForkCopyPage, sched
  <2>2. temp \notin DataPages /\ dir[current] \in Tasks
    <3>1. pag \in Nat /\ PAG_LOG_INIT_DATA \in Nat /\ dir[current] = current
      BY PagesAssumption DEF TypeOK, PAG_LOG_INIT_DATA, PAG_LOG_INIT_CODE, SchedInv, OwnTable
    <3> QED BY <3>1, PagesAssumption DEF DataPages, TypeOK
  <2> HIDE DEF temp, page
  <2>3. \A t \in Tasks : \A p \in DataPages : pt'[t][p] = pt[t][p]
    BY <2>1, <2>2, PageFacts DEF TypeOK, DelPages
  <2> QED BY <2>1, <2>3, LifeStutters DEF Waiting
<1>13. CASE ForkEnd
  <2>1. /\ kpath = "copy" /\ readyqueue' = Append(readyqueue, child)
        /\ kpath' = "user" /\ UNCHANGED <<current, pt>>
    BY <1>13 DEF ForkEnd, memory
  <2>2. child \in User /\ LifeOf(child) = "new" /\ dir[child] = child
    BY <1>8, <2>1
  <2>3. Waiting' = Waiting \cup {child} /\ Forking = {child} /\ Forking' = {}
    BY <2>1, AppendElems DEF Waiting, TypeOK, Forking
  <2>4. \A t \in User : LifeOf(t)' = IF t = child THEN "ready" ELSE LifeOf(t)
    BY <2>1, <2>3 DEF LifeOf, SchedInv, OnePlace
  <2>5. \A t \in User : HoldsOf(t)' = HoldsOf(t)
    BY <1>0, <2>1 DEF Mapped, User
  <2>6. Cardinality(HoldsOf(child)) = NUM_PAG_DATA
    <3>1. child \in Owners
      BY <2>3 DEF Owners
    <3>2. \A p \in DataPages : pt[child][p] # NoFrame
      BY <2>1 DEF MemInv, ForkProgress
    <3>3. \A p, q \in DataPages : pt[child][p] = pt[child][q] => p = q
      BY <2>2, <3>1, <3>2 DEF MemInv, FramesPrivate
    <3>4. HoldsOf(child) = FramesOf(pt[child], DataPages)
      BY <1>0, <2>2, <3>2 DEF Mapped, FramesOf, User
    <3> QED BY <3>3, <3>4, AsManyFrames
  <2>7. Life!Admit(child)
    <3>1. [t \in User |-> HoldsOf(t)][child] = HoldsOf(child)
      BY <2>2
    <3>2. Cardinality([t \in User |-> HoldsOf(t)][child]) = NUM_PAG_DATA
      BY <2>6, <3>1
    <3>3. [t \in User |-> LifeOf(t)][child] = "new"
      BY <2>2
    <3>4. UNCHANGED [t \in User |-> HoldsOf(t)]
      BY <2>5
    <3>5. [t \in User |-> LifeOf(t)]' = [[t \in User |-> LifeOf(t)] EXCEPT ![child] = "ready"]
      BY <2>2, <2>4
    <3> QED BY <3>2, <3>3, <3>4, <3>5, SameCardinality DEF Life!Admit, User
  <2> QED BY <2>2, <2>7 DEF Life!Next, User
<1> QED BY <1>3, <1>4, <1>5, <1>6, <1>7, <1>9, <1>10, <1>11, <1>12, <1>13
        DEF Next, Clock, sys_fork, ForkStep

\* The lists, the page tables and the byte map implement ProcLife: the clock,
\* yield, exit and every step of fork, its rollback included, do to processes and
\* frames what ProcLife allows.
THEOREM ImplementsProcLife == Spec => LifeSpec
<1>1. IInv /\ IInv' /\ HoldsMapped /\ HoldsMapped' /\ [Next]_vars
        => [Life!Next]_(Life!lvars)
  BY LifeStep
<1> QED BY <1>1, LifeInit, InvCorrect, DirCorrect, InvHolds, PTL DEF Spec, LifeSpec, Life!Spec
=============================================================================
