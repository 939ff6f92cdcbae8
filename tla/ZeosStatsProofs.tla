--------------------------- MODULE ZeosStatsProofs ---------------------------
(***************************************************************************)
(* Proofs about ZeosSwitch and, on top of it, ZeosStats: the kernel with   *)
(* its stacks behaves as ZeosProc says, always has a context to resume,    *)
(* and loses one only when a process yields alone; what get_stats reports  *)
(* is exact, and no stamp is ahead of the time-stamp counter.              *)
(*                                                                         *)
(* update_stats adds to one counter what it adds to the stamp, so the sum  *)
(* of the counters less the stamp, the Balance of a record, never changes. *)
(***************************************************************************)
EXTENDS ZeosStats, ZeosProcProofs

USE DEF list_empty, list_add_tail, ListDelFirst, SetPage, AllocateDIR, ExitPID,
        NewPID, MorePages, QuantumOver, Refill, DonePages

\* A step of the kernel with its stacks is a step of ZeosProc.
LEMMA SwStepIsStep == [SwNext]_swVars => [Next]_vars
<1>1. SwNext => [Next]_vars
  BY DEF SwNext, SwClockSwitch, SwClockStay, SwYield, SwExit, SwForkBegin,
         SwForkOther, SwForkEnd, SwLost, swVars, Next, Clock, sys_fork, ForkStep
<1>2. UNCHANGED swVars => UNCHANGED vars
  BY DEF swVars
<1> QED BY <1>1, <1>2

\* With its stacks the kernel still is the one ZeosProc describes, so all that
\* is proved of ZeosProc holds of it.
THEOREM SwImplementsProc == SwSpec => Spec
<1>1. SwInit => Init
  BY DEF SwInit
<1> QED BY <1>1, SwStepIsStep, PTL DEF SwSpec, Spec

\* Whom a switch away from a running process of the user leaves in the
\* readyqueue and whom it takes.
LEMMA SwitchGives ==
    ASSUME TypeOK, SchedInv, ForceTaskSwitch
    PROVE  /\ Waiting' \cup {current'} = Waiting \cup {current}
           /\ readyqueue # <<>> => current' \in Waiting
           /\ dir' = dir
<1> DEFINE q == Append(readyqueue, current)
           st == [state EXCEPT ![current] = "ST_READY"]
<1>1. SchedNext(q, st) /\ dir' = dir
  BY DEF ForceTaskSwitch, Requeue, SchedInv, StateMatchesQueue
<1>2. /\ readyqueue \in Seq(Tasks) /\ current \in Tasks
      /\ IsInjective(readyqueue) /\ current \notin Range(readyqueue)
  BY DEF TypeOK, SchedInv, OnePlace, Waiting
<1>3. /\ q \in Seq(Tasks) /\ q # <<>> /\ IsInjective(q)
      /\ Range(q) = Waiting \cup {current}
  BY <1>2, AppendElems DEF Waiting
<1>4. st \in [Tasks -> States]
  BY DEF TypeOK, States
<1>5. ASSUME readyqueue # <<>> PROVE Head(q) \in Waiting
  <2>1. 1 \in DOMAIN readyqueue /\ q[1] = readyqueue[1] /\ Head(q) = q[1]
    BY <1>2, <1>5
  <2> QED BY <2>1 DEF Waiting, Range
<1>6. current' = Head(q)
  BY <1>1, <1>3 DEF SchedNext
<1> HIDE DEF q, st
<1>7. Range(q) = Range(readyqueue') \cup {current'}
  BY <1>1, <1>3, <1>4, SchedNextElems
<1> QED BY <1>1, <1>3, <1>5, <1>6, <1>7 DEF Waiting

\* Whom exit takes: a process that waited, or idle.
LEMMA ExitGives ==
    ASSUME TypeOK, SchedInv, sys_exit
    PROVE  /\ Waiting' \subseteq Waiting
           /\ current' \in Waiting \cup {idle_task}
           /\ dir' = dir
<1>1. SchedNext(readyqueue, state) /\ dir' = dir
  BY DEF sys_exit
<1>2. /\ readyqueue \in Seq(Tasks) /\ state \in [Tasks -> States]
      /\ IsInjective(readyqueue)
  BY DEF TypeOK, SchedInv, OnePlace
<1>3. \/ Range(readyqueue) = Range(readyqueue') \cup {current'}
      \/ readyqueue' = <<>> /\ current' = idle_task
  BY <1>1, <1>2, SchedNextElems
<1> QED BY <1>1, <1>3, EmptyElems DEF Waiting

LEMMA SwInvInit == SwInit => SwInv
<1> SUFFICES ASSUME SwInit PROVE SwInv
  OBVIOUS
<1>1. Init /\ TypeOK /\ SchedInv
  BY TypeInit, SchedInit DEF SwInit
<1>2. Waiting = {} /\ current = task1 /\ dir[task1] = task1
      /\ idle_task \in Tasks /\ task1 \in Tasks
  BY <1>1, EmptyElems, TaskFacts DEF Init, Waiting
<1> QED BY <1>2 DEF SwInit, SwInv, SwTypeOK, ResumeSound, RunsOnOwnStack, Paths

\* One step keeps a context for everybody who may be given the CPU.
LEMMA SwInvStep ==
    TypeOK /\ SchedInv /\ TypeOK' /\ SchedInv' /\ SwInv /\ [SwNext]_swVars => SwInv'
<1> SUFFICES ASSUME TypeOK, SchedInv, TypeOK', SchedInv', SwInv, [SwNext]_swVars
             PROVE  SwInv'
  OBVIOUS
<1>0. /\ register_esp \in [Tasks -> Paths] /\ esp0 \in Tasks /\ cr3 \in Tasks
      /\ lost \in BOOLEAN
      /\ \A t \in Waiting : register_esp[t] \in {"ret_from_fork", "clock", "yield"}
      /\ current # idle_task => register_esp[idle_task] = "cpu_idle"
      /\ esp0 = current /\ cr3 = dir[current]
      /\ current \in Tasks /\ child \in Tasks /\ current' \in Tasks
      /\ idle_task \in Tasks
  BY TaskFacts DEF SwInv, SwTypeOK, ResumeSound, RunsOnOwnStack, TypeOK
<1>1. /\ current \notin Waiting /\ idle_task \notin Waiting
      /\ Waiting \subseteq Tasks /\ Waiting' \subseteq Tasks
      /\ dir'[current'] = current'
  BY DEF SchedInv, OnePlace, OwnTable
<1>2. ASSUME NEW p \in {"clock", "yield"}, ForceTaskSwitch, TaskSwitch(p),
             current # idle_task
      PROVE  SwInv'
  <2>1. /\ Waiting' \subseteq Waiting \cup {current} /\ dir' = dir
    BY <1>2, SwitchGives
  <2>2. /\ register_esp' = [register_esp EXCEPT ![current] = p]
        /\ esp0' = current' /\ cr3' = dir[current']
        /\ lost' \in BOOLEAN
    BY <1>2 DEF TaskSwitch, InnerSwitch
  <2>3. SwTypeOK'
    BY <1>0, <1>1, <2>1, <2>2 DEF SwTypeOK, Paths
  <2>4. ResumeSound'
    BY <1>0, <1>2, <2>1, <2>2 DEF ResumeSound
  <2> QED BY <2>1, <2>2, <2>3, <2>4 DEF SwInv, RunsOnOwnStack
<1>3. CASE SwClockSwitch
  <2>1. current # idle_task
    BY <1>3 DEF SwClockSwitch, ClockSwitch, SchedInv, IdleOnlyIfNoneReady
  <2> QED BY <1>2, <1>3, <2>1 DEF SwClockSwitch, ClockSwitch
<1>4. CASE SwYield
  BY <1>2, <1>4 DEF SwYield, sys_yield, InUserCode
<1>5. CASE SwExit
  <2>1. Waiting' \subseteq Waiting /\ dir' = dir /\ current # idle_task
    BY <1>5, ExitGives DEF SwExit, sys_exit, InUserCode
  <2>2. /\ register_esp' = [register_esp EXCEPT ![current] = "exit"]
        /\ esp0' = current' /\ cr3' = dir[current']
        /\ lost' \in BOOLEAN
    BY <1>5 DEF SwExit, TaskSwitch, InnerSwitch
  <2>3. SwTypeOK'
    BY <1>0, <1>1, <2>1, <2>2 DEF SwTypeOK, Paths
  <2>4. ResumeSound'
    BY <1>0, <1>1, <2>1, <2>2 DEF ResumeSound
  <2> QED BY <2>1, <2>2, <2>3, <2>4 DEF SwInv, RunsOnOwnStack
<1>6. CASE SwForkBegin
  <2>1. /\ child' = Head(freequeue) /\ freequeue # <<>> /\ current # idle_task
        /\ UNCHANGED <<readyqueue, current, esp0, cr3, lost>>
        /\ register_esp' = [register_esp EXCEPT ![child'] = register_esp[current]]
    BY <1>6 DEF SwForkBegin, ForkBegin, InUserCode
  <2>2. dir'[current] = current /\ dir[current] = current
    BY <1>1, <2>1 DEF SchedInv, OwnTable
  <2>3. child' \in Free /\ child' \in Tasks /\ child' \notin Waiting /\ child' # idle_task
    <3>1. freequeue \in Seq(Tasks) /\ freequeue # <<>>
      BY <2>1 DEF TypeOK
    <3>2. Head(freequeue) \in Range(freequeue) /\ Head(freequeue) \in Tasks
      BY <3>1, TailElems
    <3> QED BY <2>1, <3>2 DEF SchedInv, OnePlace, Free
  <2>4. Waiting' = Waiting
    BY <2>1 DEF Waiting
  <2>5. SwTypeOK'
    BY <1>0, <2>1, <2>3 DEF SwTypeOK
  <2>6. ResumeSound'
    BY <1>0, <1>1, <2>1, <2>3, <2>4 DEF ResumeSound
  <2> QED BY <1>0, <2>1, <2>2, <2>5, <2>6 DEF SwInv, RunsOnOwnStack
<1>7. CASE SwForkEnd
  <2>1. /\ readyqueue' = Append(readyqueue, child) /\ kpath # "user"
        /\ UNCHANGED <<current, dir, esp0, lost>>
        /\ cr3' = dir[current]
        /\ register_esp' = [register_esp EXCEPT ![child] = "ret_from_fork"]
    BY <1>7 DEF SwForkEnd, ForkEnd, ChildContext
  <2>2. child # idle_task
    BY <2>1 DEF SchedInv, OnePlace, Forking
  <2>3. Waiting' = Waiting \cup {child}
    <3>1. readyqueue \in Seq(Tasks) /\ child \in Tasks
      BY DEF TypeOK
    <3> QED BY <2>1, <3>1, AppendElems DEF Waiting
  <2>4. SwTypeOK'
    BY <1>0, <2>1 DEF SwTypeOK, Paths
  <2>5. ResumeSound'
    BY <1>0, <1>1, <2>1, <2>2, <2>3 DEF ResumeSound
  <2> QED BY <1>0, <2>1, <2>4, <2>5 DEF SwInv, RunsOnOwnStack
<1>8. ASSUME UNCHANGED <<readyqueue, current, dir, cpu>> PROVE SwInv'
  BY <1>8 DEF SwInv, SwTypeOK, ResumeSound, RunsOnOwnStack, Waiting, cpu
<1>9. CASE SwClockStay
  BY <1>8, <1>9 DEF SwClockStay, ClockStay
<1>10. CASE SwForkOther
  BY <1>8, <1>10 DEF SwForkOther, ForkNoTask, ForkAlloc, ForkNoFrame,
                     ForkShareCode, ForkCopyPage, sched, vars
<1>11. CASE SwLost \/ UNCHANGED swVars
  BY <1>8, <1>11 DEF SwLost, swVars, vars, sched
<1> QED BY <1>3, <1>4, <1>5, <1>6, <1>7, <1>9, <1>10, <1>11 DEF SwNext

LEMMA SwInvCorrect == SwSpec => [](TypeOK /\ SchedInv /\ SwInv)
<1>1. SwSpec => [](TypeOK /\ SchedInv)
  BY SwImplementsProc, SchedCorrect, PTL
<1> QED BY <1>1, SwInvInit, SwInvStep, PTL DEF SwSpec

\* Every process that may be given the CPU has a context to return to.
THEOREM ResumeCorrect == SwSpec => []ResumeSound
<1>1. SwInv => ResumeSound
  BY DEF SwInv
<1> QED BY <1>1, SwInvCorrect, PTL

\* The CPU always runs on the page table and the kernel stack of current().
THEOREM OwnStackCorrect == SwSpec => []RunsOnOwnStack
<1>1. SwInv => RunsOnOwnStack
  BY DEF SwInv
<1> QED BY <1>1, SwInvCorrect, PTL

\* A context is lost by a yield with nobody else ready, and by nothing else.
THEOREM LoneYieldCorrect == SwSpec => OnlyLoneYieldLoses
<1>1. ASSUME TypeOK, SchedInv, SwInv, [SwNext]_swVars
      PROVE  [~lost /\ lost' => sys_yield /\ readyqueue = <<>>]_swVars
  <2> SUFFICES ASSUME SwNext, ~lost, lost' PROVE sys_yield /\ readyqueue = <<>>
    BY <1>1
  <2>1. current \notin Waiting
    BY <1>1 DEF SchedInv, OnePlace
  <2>2. ASSUME NEW p, TaskSwitch(p) PROVE current' = current
    BY <2>2 DEF TaskSwitch
  <2>3. CASE SwClockSwitch
    <3>1. readyqueue # <<>> /\ ForceTaskSwitch
      BY <2>3 DEF SwClockSwitch, ClockSwitch
    <3>2. current' \in Waiting
      BY <1>1, <3>1, SwitchGives
    <3> QED BY <2>1, <2>2, <2>3, <3>2 DEF SwClockSwitch
  <2>4. CASE SwYield
    <3>1. sys_yield /\ ForceTaskSwitch
      BY <2>4 DEF SwYield, sys_yield
    <3>2. readyqueue # <<>> => current' \in Waiting
      BY <1>1, <3>1, SwitchGives
    <3> QED BY <2>1, <2>2, <2>4, <3>1, <3>2 DEF SwYield
  <2>5. CASE SwExit
    <3>1. current' \in Waiting \cup {idle_task} /\ current # idle_task
      BY <1>1, <2>5, ExitGives DEF SwExit, sys_exit, InUserCode
    <3> QED BY <2>1, <2>2, <2>5, <3>1 DEF SwExit
  <2>6. CASE SwClockStay \/ SwForkBegin \/ SwForkOther \/ SwForkEnd
    BY <2>6 DEF SwClockStay, SwForkBegin, SwForkOther, SwForkEnd, cpu
  <2>7. CASE SwLost
    BY <2>7 DEF SwLost
  <2> QED BY <2>3, <2>4, <2>5, <2>6, <2>7 DEF SwNext
<1> QED BY <1>1, SwInvCorrect, PTL DEF SwSpec, OnlyLoneYieldLoses

-----------------------------------------------------------------------------
(* The statistics. *)

StatsRec == [user_ticks : Int, system_ticks : Int, blocked_ticks : Int,
             ready_ticks : Int, elapsed_total_ticks : Int, total_trans : Int,
             remaining_ticks : Int]
TruthRec == [born : Int, left : Int, waited : Int, got : Int]

StTypeOK ==
    /\ now \in Nat
    /\ p_stats \in [Tasks -> StatsRec]
    /\ truth \in [Tasks -> TruthRec]

StInv == StTypeOK /\ StatsExact /\ StampsPast

Total(s) == s.user_ticks + s.system_ticks + s.ready_ticks
Balance(s) == Total(s) - s.elapsed_total_ticks

\* Two records that agree in all an update for user or system time leaves alone.
Charged(r, s) ==
    /\ r \in StatsRec
    /\ Balance(r) = Balance(s)
    /\ r.ready_ticks = s.ready_ticks
    /\ r.total_trans = s.total_trans
    /\ r.blocked_ticks = s.blocked_ticks

\* What StatsExact says of one process.
Exact(t) ==
    /\ p_stats[t].ready_ticks = truth[t].waited
    /\ p_stats[t].total_trans = truth[t].got
    /\ p_stats[t].user_ticks + p_stats[t].system_ticks + p_stats[t].ready_ticks
         = p_stats[t].elapsed_total_ticks - truth[t].born
    /\ p_stats[t].blocked_ticks = 0

\* A step of the kernel with its statistics is a step of ZeosSwitch.
LEMMA StStepIsStep == [StNext]_stVars => [SwNext]_swVars
<1>1. StNext => [SwNext]_swVars
  BY DEF StNext, StClockSwitch, StClockStay, StKeyboard, StYield, StExit,
         StForkBegin, StForkOther, StForkEnd, StLost, sys_get_stats, SwNext
<1>2. UNCHANGED stVars => UNCHANGED swVars
  BY DEF stVars
<1> QED BY <1>1, <1>2

\* With its statistics the kernel still is the one ZeosSwitch describes.
THEOREM StImplementsSwitch == StSpec => SwSpec
<1>1. StInit => SwInit
  BY DEF StInit
<1> QED BY <1>1, StStepIsStep, PTL DEF StSpec, SwSpec

\* update_stats for user or system time.
LEMMA ChargeOwn ==
    ASSUME NEW s \in StatsRec, NEW c \in Int, NEW v \in {"user_ticks", "system_ticks"}
    PROVE  /\ Charged(UpdateStats(s, v, c), s)
           /\ UpdateStats(s, v, c).elapsed_total_ticks = c
<1>1. CASE v = "user_ticks"
  <2>1. UpdateStats(s, v, c) =
               [user_ticks |-> s.user_ticks + (c - s.elapsed_total_ticks), system_ticks |-> s.system_ticks,
                blocked_ticks |-> s.blocked_ticks, ready_ticks |-> s.ready_ticks,
                elapsed_total_ticks |-> c, total_trans |-> s.total_trans, remaining_ticks |-> s.remaining_ticks]
    <3>1. UpdateStats(s, v, c) =
             [s EXCEPT !.user_ticks = @ + (c - s.elapsed_total_ticks), !.elapsed_total_ticks = c]
      BY <1>1, Zenon DEF UpdateStats
    <3> QED BY <3>1 DEF StatsRec
  <2> QED BY <2>1 DEF Charged, Balance, Total, StatsRec
<1>2. CASE v = "system_ticks"
  <2>1. UpdateStats(s, v, c) =
               [user_ticks |-> s.user_ticks, system_ticks |-> s.system_ticks + (c - s.elapsed_total_ticks),
                blocked_ticks |-> s.blocked_ticks, ready_ticks |-> s.ready_ticks,
                elapsed_total_ticks |-> c, total_trans |-> s.total_trans, remaining_ticks |-> s.remaining_ticks]
    <3>1. UpdateStats(s, v, c) =
             [s EXCEPT !.system_ticks = @ + (c - s.elapsed_total_ticks), !.elapsed_total_ticks = c]
      BY <1>2, Zenon DEF UpdateStats
    <3> QED BY <3>1 DEF StatsRec
  <2> QED BY <2>1 DEF Charged, Balance, Total, StatsRec
<1> QED BY <1>1, <1>2

\* What sched_next_rr does to the record of the process it takes.
LEMMA ChargeWait ==
    ASSUME NEW s \in StatsRec, NEW c \in Int
    PROVE  LET r == [UpdateStats(s, "ready_ticks", c) EXCEPT !.total_trans = @ + 1]
           IN  /\ r \in StatsRec
               /\ Balance(r) = Balance(s)
               /\ r.ready_ticks = s.ready_ticks + (c - s.elapsed_total_ticks)
               /\ r.total_trans = s.total_trans + 1
               /\ r.blocked_ticks = s.blocked_ticks
               /\ r.elapsed_total_ticks = c
<1> DEFINE u == UpdateStats(s, "ready_ticks", c)
<1>1. u =      [user_ticks |-> s.user_ticks, system_ticks |-> s.system_ticks,
                blocked_ticks |-> s.blocked_ticks, ready_ticks |-> s.ready_ticks + (c - s.elapsed_total_ticks),
                elapsed_total_ticks |-> c, total_trans |-> s.total_trans, remaining_ticks |-> s.remaining_ticks]
  <2>1. u = [s EXCEPT !.ready_ticks = @ + (c - s.elapsed_total_ticks), !.elapsed_total_ticks = c]
    BY Zenon DEF UpdateStats
  <2> HIDE DEF u
  <2> QED BY <2>1 DEF StatsRec
<1> HIDE DEF u
<1>2. u \in StatsRec
  BY <1>1 DEF StatsRec
<1>3. [u EXCEPT !.total_trans = @ + 1] =
          [user_ticks |-> u.user_ticks, system_ticks |-> u.system_ticks,
           blocked_ticks |-> u.blocked_ticks, ready_ticks |-> u.ready_ticks,
           elapsed_total_ticks |-> u.elapsed_total_ticks,
           total_trans |-> u.total_trans + 1, remaining_ticks |-> u.remaining_ticks]
  BY <1>2 DEF StatsRec
<1> QED BY <1>1, <1>2, <1>3 DEF Balance, Total, StatsRec, u

LEMMA TotalKept ==
    ASSUME NEW r \in StatsRec, NEW s \in StatsRec, NEW b \in Int,
           Balance(r) = Balance(s), Total(s) = s.elapsed_total_ticks - b
    PROVE  Total(r) = r.elapsed_total_ticks - b
<1>1. /\ Total(r) \in Int /\ r.elapsed_total_ticks \in Int
      /\ Total(s) \in Int /\ s.elapsed_total_ticks \in Int
  BY DEF Total, StatsRec
<1> QED BY <1>1 DEF Balance

LEMMA ChargedTwice ==
    ASSUME NEW q, NEW r, NEW s, Charged(q, r), Charged(r, s)
    PROVE  Charged(q, s)
BY DEF Charged

LEMMA ChargedSelf == \A s \in StatsRec : Charged(s, s)
BY DEF Charged

LEMMA StInvInit == StInit => StInv
<1> SUFFICES ASSUME StInit PROVE StInv
  OBVIOUS
<1>1. Waiting \subseteq Tasks /\ current \in Tasks /\ idle_task \in Tasks /\ Waiting = {}
  BY SchedInit, TypeInit, EmptyElems, TaskFacts DEF StInit, SwInit, SchedInv, OnePlace, TypeOK, Init, Waiting
<1>2. \A t \in Live \cup {idle_task} : t \in Tasks
  BY <1>1 DEF Live
<1>3. StTypeOK
  BY DEF StInit, StTypeOK, InitStats, Born, StatsRec, TruthRec
<1>4. StatsExact
  BY <1>2 DEF StInit, StatsExact, InitStats, Born
<1>5. StampsPast
  BY <1>1, <1>2 DEF StInit, StampsPast, InitStats, Born
<1> QED BY <1>3, <1>4, <1>5 DEF StInv

\* What a switch entered at time a with the statistics s0 leaves in each record.
LEMMA SwitchStatsGives ==
    ASSUME StTypeOK, current \in Tasks, current' \in Tasks,
           NEW a \in Int, NEW s0 \in [Tasks -> StatsRec],
           Charged(s0[current], p_stats[current]),
           \A t \in Tasks \ {current} : s0[t] = p_stats[t],
           SwitchStats(s0, a)
    PROVE  \E b, c, d \in a .. MaxTime :
             /\ b <= c /\ c <= d /\ now' = d
             /\ p_stats' \in [Tasks -> StatsRec]
             /\ truth' \in [Tasks -> TruthRec]
             /\ \A t \in Tasks \ {current, current'} :
                  p_stats'[t] = p_stats[t] /\ truth'[t] = truth[t]
             /\ current # current' =>
                  /\ Charged(p_stats'[current], p_stats[current])
                  /\ p_stats'[current].elapsed_total_ticks = b
                  /\ truth'[current].left = b
                  /\ truth'[current].born = truth[current].born
                  /\ truth'[current].waited = truth[current].waited
                  /\ truth'[current].got = truth[current].got
             /\ LET t == current'
                    e == IF t = current THEN b ELSE p_stats[t].elapsed_total_ticks
                    l == IF t = current THEN b ELSE truth[t].left
                IN  /\ Balance(p_stats'[t]) = Balance(p_stats[t])
                    /\ p_stats'[t].ready_ticks = p_stats[t].ready_ticks + (c - e)
                    /\ p_stats'[t].total_trans = p_stats[t].total_trans + 1
                    /\ p_stats'[t].blocked_ticks = p_stats[t].blocked_ticks
                    /\ p_stats'[t].elapsed_total_ticks \in {c, d}
                    /\ truth'[t].born = truth[t].born
                    /\ truth'[t].waited = truth[t].waited + (c - l)
                    /\ truth'[t].got = truth[t].got + 1
<1>1. PICK b \in a .. MaxTime, c \in a .. MaxTime, d \in a .. MaxTime :
           /\ Reading(a, b) /\ Reading(b, c) /\ Reading(c, d)
           /\ p_stats' = BackStats(ComeStats(LeaveStats(s0, b), current', c), current', d)
           /\ truth' = LET gone == [truth EXCEPT ![current].left = b]
                       IN  [gone EXCEPT ![current'].waited = @ + (c - gone[current'].left),
                                        ![current'].got = @ + 1]
           /\ now' = d
  BY DEF SwitchStats
<1> DEFINE k == current
           t == current'
           p1 == LeaveStats(s0, b)
           p2 == ComeStats(p1, t, c)
           gone == [truth EXCEPT ![current].left = b]
<1>2. b \in Int /\ c \in Int /\ d \in Int /\ b <= c /\ c <= d
  BY <1>1, TimeAssumption DEF Reading
<1>3. /\ p1 \in [Tasks -> StatsRec] /\ Charged(p1[k], p_stats[k])
      /\ p1[k].elapsed_total_ticks = b
      /\ \A u \in Tasks \ {k} : p1[u] = p_stats[u]
  <2>1. p1 = [s0 EXCEPT ![k] = UpdateStats(s0[k], "system_ticks", b)]
    BY DEF LeaveStats
  <2>2. /\ Charged(UpdateStats(s0[k], "system_ticks", b), s0[k])
        /\ UpdateStats(s0[k], "system_ticks", b).elapsed_total_ticks = b
    BY <1>2, ChargeOwn
  <2>3. Charged(UpdateStats(s0[k], "system_ticks", b), p_stats[k])
    BY <2>2, ChargedTwice
  <2>4. UpdateStats(s0[k], "system_ticks", b) \in StatsRec
    BY <2>2 DEF Charged
  <2> QED BY <2>1, <2>2, <2>3, <2>4
<1>4. /\ p2 \in [Tasks -> StatsRec]
      /\ \A u \in Tasks \ {t} : p2[u] = p1[u]
      /\ Balance(p2[t]) = Balance(p1[t])
      /\ p2[t].ready_ticks = p1[t].ready_ticks + (c - p1[t].elapsed_total_ticks)
      /\ p2[t].total_trans = p1[t].total_trans + 1
      /\ p2[t].blocked_ticks = p1[t].blocked_ticks
      /\ p2[t].elapsed_total_ticks = c
  <2> DEFINE r == [UpdateStats(p1[t], "ready_ticks", c) EXCEPT !.total_trans = @ + 1]
  <2> HIDE DEF p1
  <2>1. p2 = [p1 EXCEPT ![t] = r]
    BY DEF ComeStats
  <2> HIDE DEF p2
  <2>2. p1[t] \in StatsRec
    BY <1>3
  <2>3. /\ r \in StatsRec
        /\ Balance(r) = Balance(p1[t])
        /\ r.ready_ticks = p1[t].ready_ticks + (c - p1[t].elapsed_total_ticks)
        /\ r.total_trans = p1[t].total_trans + 1
        /\ r.blocked_ticks = p1[t].blocked_ticks
        /\ r.elapsed_total_ticks = c
    BY <1>2, <2>2, ChargeWait
  <2> HIDE DEF r
  <2> QED BY <1>3, <2>1, <2>3
<1>5. /\ p_stats' \in [Tasks -> StatsRec]
      /\ \A u \in Tasks \ {t} : p_stats'[u] = p2[u]
      /\ Charged(p_stats'[t], p2[t])
      /\ p_stats'[t].elapsed_total_ticks \in {c, d}
  <2>0. p_stats' = BackStats(p2, t, d)
    BY <1>1
  <2> DEFINE r == UpdateStats(p2[t], "system_ticks", d)
  <2> HIDE DEF p1, p2
  <2>1. CASE register_esp[t] = "clock"
    <3>1. p_stats' = [p2 EXCEPT ![t] = r]
      BY <2>0, <2>1 DEF BackStats
    <3>2. Charged(r, p2[t]) /\ r.elapsed_total_ticks = d /\ r \in StatsRec
      <4>1. p2[t] \in StatsRec
        BY <1>4
      <4>2. Charged(r, p2[t]) /\ r.elapsed_total_ticks = d
        BY <1>2, <4>1, ChargeOwn
      <4> QED BY <4>2 DEF Charged
    <3> HIDE DEF r
    <3> QED BY <1>4, <3>1, <3>2
  <2>2. CASE register_esp[t] # "clock"
    <3>1. p_stats' = p2
      BY <2>0, <2>2 DEF BackStats
    <3> QED BY <1>4, <3>1, ChargedSelf
  <2> QED BY <2>1, <2>2
<1>6. /\ gone \in [Tasks -> TruthRec]
      /\ \A u \in Tasks \ {k} : gone[u] = truth[u]
      /\ gone[k].left = b /\ gone[k].born = truth[k].born
      /\ gone[k].waited = truth[k].waited /\ gone[k].got = truth[k].got
  BY <1>2 DEF StTypeOK, TruthRec
<1>7. /\ truth' \in [Tasks -> TruthRec]
      /\ \A u \in Tasks \ {t} : truth'[u] = gone[u]
      /\ truth'[t].left = gone[t].left /\ truth'[t].born = gone[t].born
      /\ truth'[t].waited = gone[t].waited + (c - gone[t].left)
      /\ truth'[t].got = gone[t].got + 1
  <2>1. truth' = [gone EXCEPT ![t].waited = @ + (c - gone[t].left), ![t].got = @ + 1]
    BY <1>1
  <2> HIDE DEF gone
  <2> QED BY <1>2, <1>6, <2>1 DEF TruthRec
<1> HIDE DEF p1, p2, gone
<1>8. /\ Balance(p_stats'[t]) = Balance(p1[t])
      /\ p_stats'[t].ready_ticks = p1[t].ready_ticks + (c - p1[t].elapsed_total_ticks)
      /\ p_stats'[t].total_trans = p1[t].total_trans + 1
      /\ p_stats'[t].blocked_ticks = p1[t].blocked_ticks
  BY <1>4, <1>5 DEF Charged
<1>9. /\ \A u \in Tasks \ {k, t} : p_stats'[u] = p_stats[u] /\ truth'[u] = truth[u]
      /\ k # t => /\ p_stats'[k] = p1[k] /\ truth'[k] = gone[k]
                  /\ p1[t] = p_stats[t] /\ gone[t] = truth[t]
  BY <1>3, <1>4, <1>5, <1>6, <1>7
<1>10. k = t => /\ Balance(p1[t]) = Balance(p_stats[t])
                /\ p1[t].ready_ticks = p_stats[t].ready_ticks
                /\ p1[t].total_trans = p_stats[t].total_trans
                /\ p1[t].blocked_ticks = p_stats[t].blocked_ticks
                /\ p1[t].elapsed_total_ticks = b
                /\ gone[t].left = b /\ gone[t].born = truth[t].born
                /\ gone[t].waited = truth[t].waited /\ gone[t].got = truth[t].got
  BY <1>3, <1>6 DEF Charged
<1>11. CASE k = t
  <2> QED BY <1>1, <1>2, <1>5, <1>7, <1>8, <1>9, <1>10, <1>11
<1>12. CASE k # t
  <2> QED BY <1>1, <1>2, <1>3, <1>5, <1>6, <1>7, <1>8, <1>9, <1>12
<1> QED BY <1>11, <1>12

\* A switch away from a process of the user.
LEMMA SwitchKeeps ==
    ASSUME TypeOK, SchedInv, TypeOK', SchedInv', StInv,
           NEW a \in Int, now <= a, NEW s0 \in [Tasks -> StatsRec],
           Charged(s0[current], p_stats[current]),
           \A t \in Tasks \ {current} : s0[t] = p_stats[t],
           SwitchStats(s0, a),
           current # idle_task,
           Waiting' \subseteq Waiting \cup {current},
           current' \in Waiting \cup {current, idle_task}
    PROVE  StInv'
<1>1. /\ current \in Tasks /\ current' \in Tasks /\ idle_task \in Tasks
      /\ Waiting \subseteq Tasks /\ current \notin Waiting
      /\ idle_task \notin Waiting /\ idle_task \notin Waiting' /\ current' \notin Waiting'
  BY TaskFacts DEF TypeOK, SchedInv, OnePlace
<1>2. /\ StTypeOK /\ now \in Nat
      /\ p_stats \in [Tasks -> StatsRec] /\ truth \in [Tasks -> TruthRec]
  BY DEF StInv, StTypeOK
<1>3. PICK b \in a .. MaxTime, c \in a .. MaxTime, d \in a .. MaxTime :
             /\ b <= c /\ c <= d /\ now' = d
             /\ p_stats' \in [Tasks -> StatsRec]
             /\ truth' \in [Tasks -> TruthRec]
             /\ \A t \in Tasks \ {current, current'} :
                  p_stats'[t] = p_stats[t] /\ truth'[t] = truth[t]
             /\ current # current' =>
                  /\ Charged(p_stats'[current], p_stats[current])
                  /\ p_stats'[current].elapsed_total_ticks = b
                  /\ truth'[current].left = b
                  /\ truth'[current].born = truth[current].born
                  /\ truth'[current].waited = truth[current].waited
                  /\ truth'[current].got = truth[current].got
             /\ LET t == current'
                    e == IF t = current THEN b ELSE p_stats[t].elapsed_total_ticks
                    l == IF t = current THEN b ELSE truth[t].left
                IN  /\ Balance(p_stats'[t]) = Balance(p_stats[t])
                    /\ p_stats'[t].ready_ticks = p_stats[t].ready_ticks + (c - e)
                    /\ p_stats'[t].total_trans = p_stats[t].total_trans + 1
                    /\ p_stats'[t].blocked_ticks = p_stats[t].blocked_ticks
                    /\ p_stats'[t].elapsed_total_ticks \in {c, d}
                    /\ truth'[t].born = truth[t].born
                    /\ truth'[t].waited = truth[t].waited + (c - l)
                    /\ truth'[t].got = truth[t].got + 1
  BY <1>1, <1>2, SwitchStatsGives
<1>4. b \in Int /\ c \in Int /\ d \in Int /\ now <= b /\ b <= c /\ c <= d /\ now' = d
  BY <1>2, <1>3, TimeAssumption
<1>5. StTypeOK'
  BY <1>2, <1>3, <1>4 DEF StTypeOK
<1>6. ASSUME NEW t \in Live' PROVE Exact(t)'
  <2>1. t \in Tasks /\ t # idle_task /\ (t = current \/ t \in Waiting)
    BY <1>1, <1>6 DEF Live
  <2>2. Exact(t)
    BY <2>1 DEF StInv, StatsExact, Exact, Live
  <2>3. CASE t \notin {current, current'}
    BY <1>3, <2>1, <2>2, <2>3 DEF Exact
  <2>4. CASE t = current /\ t # current'
    BY <1>1, <1>2, <1>3, <2>1, <2>2, <2>4 DEF Exact, Charged, Balance, Total, StatsRec, TruthRec
  <2>5. CASE t = current'
    <3>1. t # current => p_stats[t].elapsed_total_ticks = truth[t].left
      BY <2>1 DEF StInv, StampsPast
    <3>2. /\ p_stats[t] \in StatsRec /\ truth[t] \in TruthRec
          /\ p_stats'[t] \in StatsRec /\ truth'[t] \in TruthRec
      BY <1>2, <1>3, <2>1
    <3> DEFINE e == IF t = current THEN b ELSE p_stats[t].elapsed_total_ticks
               l == IF t = current THEN b ELSE truth[t].left
    <3>3. /\ Balance(p_stats'[t]) = Balance(p_stats[t])
          /\ p_stats'[t].ready_ticks = p_stats[t].ready_ticks + (c - e)
          /\ p_stats'[t].total_trans = p_stats[t].total_trans + 1
          /\ p_stats'[t].blocked_ticks = p_stats[t].blocked_ticks
          /\ truth'[t].born = truth[t].born
          /\ truth'[t].waited = truth[t].waited + (c - l)
          /\ truth'[t].got = truth[t].got + 1
      BY <1>3, <2>5
    <3>4. e = l /\ e \in Int
      BY <1>4, <3>1, <3>2 DEF StatsRec
    <3> HIDE DEF e, l
    <3>5. Total(p_stats[t]) = p_stats[t].elapsed_total_ticks - truth[t].born
      BY <2>2 DEF Exact, Total
    <3>6. truth[t].born \in Int
      BY <3>2 DEF TruthRec
    <3>7. Total(p_stats'[t]) = p_stats'[t].elapsed_total_ticks - truth'[t].born
      BY <3>2, <3>3, <3>5, <3>6, TotalKept
    <3> QED BY <2>2, <3>3, <3>4, <3>7 DEF Exact, Total
  <2> QED BY <2>3, <2>4, <2>5
<1>7. StatsExact'
  BY <1>6 DEF StatsExact, Exact
<1>8. \A t \in Tasks \ {current, current'} : p_stats'[t] = p_stats[t] /\ truth'[t] = truth[t]
  BY <1>3
<1>9. ASSUME NEW t \in Live' \cup {idle_task} PROVE p_stats'[t].elapsed_total_ticks <= now'
  <2>1. t \in Tasks /\ (t \in {current, current'} \/ t \in Waiting \cup {idle_task})
    BY <1>1, <1>9 DEF Live
  <2>2. CASE t \notin {current, current'}
    <3>1. p_stats[t].elapsed_total_ticks <= now /\ p_stats[t] \in StatsRec
      BY <1>2, <2>1, <2>2 DEF StInv, StampsPast, Live
    <3> QED BY <1>2, <1>4, <1>8, <2>1, <2>2, <3>1 DEF StatsRec
  <2>3. CASE t = current'
    BY <1>3, <1>4, <2>3
  <2>4. CASE t = current /\ t # current'
    BY <1>3, <1>4, <2>4
  <2> QED BY <2>2, <2>3, <2>4
<1>10. ASSUME NEW t \in Waiting' PROVE p_stats'[t].elapsed_total_ticks = truth'[t].left
  <2>1. t \in Tasks /\ t # current' /\ (t = current \/ t \in Waiting)
    BY <1>1, <1>10
  <2>2. CASE t = current
    BY <1>3, <2>1, <2>2
  <2>3. CASE t \in Waiting
    BY <1>1, <1>8, <2>1, <2>3 DEF StInv, StampsPast
  <2> QED BY <2>1, <2>2, <2>3
<1> QED BY <1>5, <1>7, <1>9, <1>10 DEF StInv, StampsPast

\* A step that leaves the records of the live processes and of idle alone.
LEMMA SameStats ==
    ASSUME StInv, StTypeOK', now <= now',
           Live' = Live, Waiting' = Waiting,
           \A t \in Live \cup {idle_task} :
              Charged(p_stats'[t], p_stats[t]) /\ truth'[t] = truth[t]
              /\ p_stats'[t].elapsed_total_ticks <= now'
              /\ (t \in Waiting => p_stats'[t].elapsed_total_ticks
                                     = p_stats[t].elapsed_total_ticks),
           Live \subseteq Tasks, Waiting \subseteq Live
    PROVE  StInv'
<1>1. ASSUME NEW t \in Live PROVE Exact(t)'
  <2>1. Exact(t)
    BY DEF StInv, StatsExact, Exact
  <2>2. /\ p_stats[t] \in StatsRec /\ p_stats'[t] \in StatsRec
        /\ truth[t] \in TruthRec
    BY <1>1 DEF StInv, StTypeOK
  <2>3. truth[t].born \in Int
    BY <2>2 DEF TruthRec
  <2>4. Total(p_stats[t]) = p_stats[t].elapsed_total_ticks - truth[t].born
    BY <2>1 DEF Exact, Total
  <2>5. Total(p_stats'[t]) = p_stats'[t].elapsed_total_ticks - truth[t].born
    BY <1>1, <2>2, <2>3, <2>4, TotalKept DEF Charged
  <2> QED BY <1>1, <2>1, <2>5 DEF Exact, Charged, Total
<1>2. StatsExact'
  BY <1>1 DEF StatsExact, Exact
<1>3. StampsPast'
  BY DEF StInv, StampsPast
<1> QED BY <1>2, <1>3 DEF StInv

\* One step keeps every record exact.
LEMMA StInvStep ==
    TypeOK /\ SchedInv /\ TypeOK' /\ SchedInv' /\ StInv /\ [StNext]_stVars => StInv'
<1> SUFFICES ASSUME TypeOK, SchedInv, TypeOK', SchedInv', StInv, [StNext]_stVars
             PROVE  StInv'
  OBVIOUS
<1>1. /\ current \in Tasks /\ child \in Tasks /\ idle_task \in Tasks
      /\ Waiting \subseteq Tasks /\ Live \subseteq Tasks /\ Waiting \subseteq Live
      /\ current \notin Waiting /\ idle_task \notin Waiting
  BY TaskFacts DEF TypeOK, SchedInv, OnePlace, Live
<1>2. /\ now \in Nat
      /\ p_stats \in [Tasks -> StatsRec] /\ truth \in [Tasks -> TruthRec]
      /\ \A t \in Live \cup {idle_task} : p_stats[t].elapsed_total_ticks \in Int
                                          /\ p_stats[t].elapsed_total_ticks <= now
  BY <1>1 DEF StInv, StTypeOK, StampsPast, StatsRec
<1>3. ASSUME NEW a \in now .. MaxTime
      PROVE  /\ a \in Int /\ now <= a
             /\ EnterStats(a) \in [Tasks -> StatsRec]
             /\ Charged(EnterStats(a)[current], p_stats[current])
             /\ EnterStats(a)[current].elapsed_total_ticks = a
             /\ \A t \in Tasks \ {current} : EnterStats(a)[t] = p_stats[t]
  <2>1. a \in Int /\ now <= a
    BY <1>2, <1>3, TimeAssumption
  <2> DEFINE u == UpdateStats(p_stats[current], "user_ticks", a)
  <2>2. p_stats[current] \in StatsRec
    BY <1>1, <1>2
  <2>3. Charged(u, p_stats[current]) /\ u.elapsed_total_ticks = a
    BY <2>1, <2>2, ChargeOwn
  <2>4. u \in StatsRec
    BY <2>3 DEF Charged
  <2>5. EnterStats(a) = [p_stats EXCEPT ![current] = u]
    BY DEF EnterStats
  <2> HIDE DEF u
  <2> QED BY <1>1, <1>2, <2>1, <2>3, <2>4, <2>5
<1>4. Charged(p_stats[current], p_stats[current])
  BY <1>1, <1>2, ChargedSelf
<1>5. CASE StClockSwitch
  <2>1. PICK a \in now .. MaxTime : SwitchStats(EnterStats(a), a)
    BY <1>5 DEF StClockSwitch
  <2>2. ForceTaskSwitch /\ current # idle_task
    BY <1>5 DEF StClockSwitch, SwClockSwitch, ClockSwitch, SchedInv, IdleOnlyIfNoneReady
  <2>3. Waiting' \cup {current'} = Waiting \cup {current}
    BY <2>2, SwitchGives
  <2> QED BY <1>3, <2>1, <2>2, <2>3, SwitchKeeps
<1>6. CASE StYield
  <2>1. PICK a \in now .. MaxTime : SwitchStats(p_stats, a)
    BY <1>6 DEF StYield
  <2>2. ForceTaskSwitch /\ current # idle_task
    BY <1>6 DEF StYield, SwYield, sys_yield, InUserCode
  <2>3. Waiting' \cup {current'} = Waiting \cup {current}
    BY <2>2, SwitchGives
  <2> QED BY <1>2, <1>3, <1>4, <2>1, <2>2, <2>3, SwitchKeeps
<1>7. CASE StExit
  <2>1. PICK a \in now .. MaxTime : SwitchStats(p_stats, a)
    BY <1>7 DEF StExit
  <2>2. sys_exit /\ current # idle_task
    BY <1>7 DEF StExit, SwExit, sys_exit, InUserCode
  <2>3. Waiting' \subseteq Waiting /\ current' \in Waiting \cup {idle_task}
    BY <2>2, ExitGives
  <2> QED BY <1>2, <1>3, <1>4, <2>1, <2>2, <2>3, SwitchKeeps
<1>8. ASSUME SameProcessStats, Live' = Live, Waiting' = Waiting PROVE StInv'
  <2>1. PICK a \in now .. MaxTime, d \in now .. MaxTime :
          /\ Reading(now, a) /\ Reading(a, d)
          /\ p_stats' = [EnterStats(a) EXCEPT
               ![current] = UpdateStats(EnterStats(a)[current], "system_ticks", d)]
          /\ now' = d
          /\ truth' = truth
    BY <1>8 DEF SameProcessStats
  <2> DEFINE e == EnterStats(a)
             u == UpdateStats(e[current], "system_ticks", d)
  <2>2. /\ e \in [Tasks -> StatsRec] /\ Charged(e[current], p_stats[current])
        /\ \A t \in Tasks \ {current} : e[t] = p_stats[t]
    BY <1>3
  <2>3. d \in Int /\ now <= d
    BY <1>3
  <2>4. p_stats' = [e EXCEPT ![current] = u]
    BY <2>1
  <2> HIDE DEF e
  <2>5. e[current] \in StatsRec
    BY <1>1, <2>2
  <2>6. Charged(u, e[current]) /\ u.elapsed_total_ticks = d
    BY <2>3, <2>5, ChargeOwn
  <2>7. Charged(u, p_stats[current]) /\ u \in StatsRec
    BY <2>2, <2>6, ChargedTwice DEF Charged
  <2> HIDE DEF u
  <2>8. /\ p_stats' \in [Tasks -> StatsRec] /\ p_stats'[current] = u
        /\ \A t \in Tasks \ {current} : p_stats'[t] = p_stats[t]
    BY <1>1, <2>2, <2>4, <2>7
  <2>9. StTypeOK' /\ now <= now'
    BY <1>2, <2>1, <2>3, <2>8 DEF StTypeOK
  <2>10. ASSUME NEW t \in Live \cup {idle_task}
         PROVE  /\ Charged(p_stats'[t], p_stats[t]) /\ truth'[t] = truth[t]
                /\ p_stats'[t].elapsed_total_ticks <= now'
                /\ (t \in Waiting => p_stats'[t].elapsed_total_ticks
                                       = p_stats[t].elapsed_total_ticks)
    <3>1. CASE t = current
      BY <1>1, <2>1, <2>3, <2>6, <2>7, <2>8, <3>1
    <3>2. CASE t # current
      <4>1. p_stats'[t] = p_stats[t] /\ p_stats[t] \in StatsRec
        BY <1>1, <1>2, <2>8, <3>2
      <4>2. Charged(p_stats'[t], p_stats[t])
        BY <4>1, ChargedSelf
      <4> QED BY <1>2, <2>1, <2>3, <4>1, <4>2
    <3> QED BY <3>1, <3>2
  <2> QED BY <1>1, <1>8, <2>9, <2>10, SameStats
<1>9. CASE StClockStay
  <2>1. Live' = Live /\ Waiting' = Waiting
    BY <1>9 DEF StClockStay, SwClockStay, ClockStay, Live, Waiting
  <2> QED BY <1>8, <1>9, <2>1 DEF StClockStay
<1>10. CASE StKeyboard
  <2>1. Live' = Live /\ Waiting' = Waiting
    BY <1>10 DEF StKeyboard, swVars, vars, sched, Live, Waiting
  <2> QED BY <1>8, <1>10, <2>1 DEF StKeyboard
<1>11. ASSUME NEW c \in Tasks \ (Live \cup {idle_task}), NEW r \in StatsRec,
              p_stats' = [p_stats EXCEPT ![c] = r], UNCHANGED <<now, truth>>,
              Live' = Live, Waiting' = Waiting
       PROVE  StInv'
  <2>1. p_stats' \in [Tasks -> StatsRec] /\ \A t \in Tasks \ {c} : p_stats'[t] = p_stats[t]
    BY <1>2, <1>11
  <2>2. StTypeOK' /\ now <= now'
    BY <1>2, <1>11, <2>1 DEF StTypeOK
  <2>3. \A t \in Live \cup {idle_task} : Charged(p_stats[t], p_stats[t])
    BY <1>1, <1>2, ChargedSelf
  <2> QED BY <1>1, <1>2, <1>11, <2>1, <2>2, <2>3, SameStats
<1>12. CASE StForkBegin
  <2>1. /\ p_stats' = [p_stats EXCEPT ![child'] = p_stats[current]]
        /\ UNCHANGED <<now, truth>> /\ child' = Head(freequeue) /\ freequeue # <<>>
        /\ Live' = Live /\ Waiting' = Waiting
    BY <1>12 DEF StForkBegin, SwForkBegin, ForkBegin, Live, Waiting
  <2>2. child' \in Free /\ child' \in Tasks
    <3>1. freequeue \in Seq(Tasks) /\ freequeue # <<>>
      BY <2>1 DEF TypeOK
    <3> QED BY <2>1, <3>1, TailElems DEF Free
  <2>3. child' \notin Live \cup {idle_task}
    BY <2>2 DEF SchedInv, OnePlace, Live
  <2>4. p_stats[current] \in StatsRec
    BY <1>1, <1>2
  <2> QED BY <1>11, <2>1, <2>2, <2>3, <2>4
<1>13. CASE StForkEnd
  <2>1. PICK c \in now .. MaxTime :
          /\ p_stats' = [p_stats EXCEPT ![child] = InitStats(c)]
          /\ truth' = [truth EXCEPT ![child] = Born(c)]
          /\ now' = c
    BY <1>13 DEF StForkEnd
  <2>2. c \in Nat /\ now <= c
    BY <1>2, TimeAssumption
  <2>3. readyqueue' = Append(readyqueue, child) /\ current' = current /\ kpath # "user"
    BY <1>13 DEF StForkEnd, SwForkEnd, ForkEnd
  <2>4. Waiting' = Waiting \cup {child}
    <3>1. readyqueue \in Seq(Tasks) /\ child \in Tasks
      BY DEF TypeOK
    <3> QED BY <2>3, <3>1, AppendElems DEF Waiting
  <2>5. child \notin Live \cup {idle_task} /\ Live' = Live \cup {child}
    BY <2>3, <2>4 DEF SchedInv, OnePlace, Forking, Live
  <2>6. InitStats(c) \in StatsRec /\ Born(c) \in TruthRec
    BY <2>2 DEF InitStats, Born, StatsRec, TruthRec
  <2>7. /\ p_stats' \in [Tasks -> StatsRec] /\ truth' \in [Tasks -> TruthRec]
        /\ p_stats'[child] = InitStats(c) /\ truth'[child] = Born(c)
        /\ \A t \in Tasks \ {child} : p_stats'[t] = p_stats[t] /\ truth'[t] = truth[t]
    BY <1>1, <1>2, <2>1, <2>6
  <2>8. StTypeOK'
    BY <2>1, <2>2, <2>7 DEF StTypeOK
  <2>9. ASSUME NEW t \in Live' PROVE Exact(t)'
    <3>1. CASE t = child
      BY <2>2, <2>7, <3>1 DEF Exact, InitStats, Born
    <3>2. CASE t # child
      <4>1. t \in Live /\ p_stats'[t] = p_stats[t] /\ truth'[t] = truth[t]
        BY <1>1, <2>5, <2>7, <2>9, <3>2
      <4>2. Exact(t)
        BY <4>1 DEF StInv, StatsExact, Exact
      <4> QED BY <4>1, <4>2 DEF Exact
    <3> QED BY <3>1, <3>2
  <2>10. StatsExact'
    BY <2>9 DEF StatsExact, Exact
  <2>11. p_stats'[child].elapsed_total_ticks = c /\ truth'[child].left = c
    BY <2>7 DEF InitStats, Born
  <2>12. \A t \in Live' \cup {idle_task} : p_stats'[t].elapsed_total_ticks <= now'
    BY <1>1, <1>2, <2>1, <2>2, <2>5, <2>7, <2>11
  <2>13. \A t \in Waiting' : p_stats'[t].elapsed_total_ticks = truth'[t].left
    BY <1>1, <2>4, <2>5, <2>7, <2>11 DEF StInv, StampsPast
  <2> QED BY <2>8, <2>10, <2>12, <2>13 DEF StInv, StampsPast
<1>14. ASSUME NEW pid, sys_get_stats(pid) PROVE StInv'
  <2>1. PICK i \in Tasks : p_stats' = [p_stats EXCEPT ![i].remaining_ticks = remaining_quantum]
    BY <1>14 DEF sys_get_stats
  <2>2. Live' = Live /\ Waiting' = Waiting /\ UNCHANGED <<now, truth>>
    BY <1>14 DEF sys_get_stats, swVars, vars, sched, Live, Waiting
  <2> DEFINE r == [p_stats[i] EXCEPT !.remaining_ticks = remaining_quantum]
  <2>3. p_stats[i] \in StatsRec /\ remaining_quantum \in Int
    BY <1>2 DEF TypeOK
  <2>4. r \in StatsRec /\ Charged(r, p_stats[i])
        /\ r.elapsed_total_ticks = p_stats[i].elapsed_total_ticks
    BY <2>3 DEF Charged, Balance, Total, StatsRec
  <2>5. p_stats' = [p_stats EXCEPT ![i] = r]
    BY <2>1
  <2> HIDE DEF r
  <2>6. /\ p_stats' \in [Tasks -> StatsRec] /\ p_stats'[i] = r
        /\ \A t \in Tasks \ {i} : p_stats'[t] = p_stats[t]
    BY <1>2, <2>4, <2>5
  <2>7. StTypeOK' /\ now <= now'
    BY <1>2, <2>2, <2>6 DEF StTypeOK
  <2>8. \A t \in Tasks : Charged(p_stats'[t], p_stats[t])
           /\ p_stats'[t].elapsed_total_ticks = p_stats[t].elapsed_total_ticks
    BY <1>2, <2>4, <2>6, ChargedSelf
  <2> QED BY <1>1, <1>2, <2>2, <2>7, <2>8, SameStats
<1>15. CASE StForkOther
  BY <1>15 DEF StForkOther, SwForkOther, ForkNoTask, ForkAlloc, ForkNoFrame,
       ForkShareCode, ForkCopyPage, sched, vars, StInv, StTypeOK, StatsExact,
       StampsPast, Live, Waiting
<1>16. CASE StLost
  BY <1>16 DEF StLost, SwLost, swVars, vars, sched, StInv, StTypeOK, StatsExact,
       StampsPast, Live, Waiting
<1>17. CASE UNCHANGED stVars
  BY <1>17 DEF stVars, swVars, vars, sched, StInv, StTypeOK, StatsExact,
       StampsPast, Live, Waiting
<1> QED BY <1>5, <1>6, <1>7, <1>9, <1>10, <1>12, <1>13, <1>14, <1>15, <1>16,
           <1>17 DEF StNext

LEMMA StInvCorrect == StSpec => []StInv
<1>1. StSpec => [](TypeOK /\ SchedInv)
  BY StImplementsSwitch, SwInvCorrect, PTL
<1> QED BY <1>1, StInvInit, StInvStep, PTL DEF StSpec

\* What get_stats reports of a process is true, whatever the kernel did between.
THEOREM StatsCorrect == StSpec => []StatsExact
<1>1. StInv => StatsExact
  BY DEF StInv
<1> QED BY <1>1, StInvCorrect, PTL

\* No process is stamped later than the counter stands, so the unsigned
\* subtraction of update_stats never wraps.
THEOREM StampsCorrect == StSpec => []StampsPast
<1>1. StInv => StampsPast
  BY DEF StInv
<1> QED BY <1>1, StInvCorrect, PTL
=============================================================================
