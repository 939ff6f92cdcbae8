------------------------------ MODULE ZeosStats ------------------------------
(***************************************************************************)
(* The accounting of processor time (so2_old/GAME/zeos: p_stats.c and its  *)
(* callers): ZeosSwitch with the time-stamp counter and the p_stats of the *)
(* PCBs.  update_stats charges the time since the last call to one of a    *)
(* process's counters.  The clock and keyboard handlers call it on entry   *)
(* and on exit, a switch calls it for the process that leaves and for the  *)
(* one that comes, the system call handler never does.                     *)
(***************************************************************************)
EXTENDS ZeosSwitch

CONSTANTS
    MaxTime,    \* bound: the run ends when the time-stamp counter is here
    MaxTrans    \* bound: a process gets the CPU this often

ASSUME TimeAssumption == MaxTime \in Nat /\ MaxTrans \in Nat

VARIABLES
    now,        \* what get_ticks last returned (external: the TSC)
    p_stats,    \* field of task[t]
    truth       \* not in the code: what an observer with a clock has noted

stVars == <<swVars, now, p_stats, truth>>

\* init_stats at time c.
InitStats(c) ==
    [user_ticks |-> 0, system_ticks |-> 0, blocked_ticks |-> 0, ready_ticks |-> 0,
     elapsed_total_ticks |-> c, total_trans |-> 0, remaining_ticks |-> c]

\* The observer's notes: when the process was created and last left the CPU,
\* how long it has waited in the readyqueue, how often it got the CPU.
Born(c) == [born |-> c, left |-> c, waited |-> 0, got |-> 0]

\* PCBs never used are zero; idle and task 1 start at time 0.
StInit ==
    /\ SwInit
    /\ now = 0
    /\ p_stats = [t \in Tasks |-> InitStats(0)]
    /\ truth = [t \in Tasks |-> Born(0)]

UpdateStatsBug(s, v, c) == [s EXCEPT ![v] = @ + (c - s.elapsed_total_ticks)]
\* update_stats(&s.v, &s.elapsed_total_ticks) at time c.
UpdateStats(s, v, c) ==
    [s EXCEPT ![v] = @ + (c - s.elapsed_total_ticks), !.elapsed_total_ticks = c]

\* The counter grows by at most one between two readings, and not past MaxTime.
Reading(earlier, c) == c \in earlier .. earlier + 1 /\ c <= MaxTime

LeaveStatsBug(stats, b) == stats
\* update_process_state_rr and sched_next_rr charge the leaving process.
LeaveStats(stats, b) == [stats EXCEPT ![current] = UpdateStats(@, "system_ticks", b)]

\* sched_next_rr charges the wait of the process it takes and counts the switch.
ComeStats(stats, t, c) ==
    [stats EXCEPT ![t] = [UpdateStats(stats[t], "ready_ticks", c) EXCEPT !.total_trans = @ + 1]]

\* A process that had left through the clock handler finishes that handler.
BackStats(stats, t, d) ==
    IF register_esp[t] = "clock"
    THEN [stats EXCEPT ![t] = UpdateStats(@, "system_ticks", d)] ELSE stats

\* A switch from the statistics s, entered at time a.
SwitchStats(s, a) ==
    /\ p_stats[current'].total_trans < MaxTrans
    /\ \E b, c, d \in a .. MaxTime :
         /\ Reading(a, b) /\ Reading(b, c) /\ Reading(c, d)
         /\ p_stats' = BackStats(ComeStats(LeaveStats(s, b), current', c), current', d)
         /\ truth' = LET gone == [truth EXCEPT ![current].left = b]
                     IN  [gone EXCEPT ![current'].waited = @ + (c - gone[current'].left),
                                      ![current'].got = @ + 1]
         /\ now' = d

\* user_to_system at time a, the first thing the interrupt handlers do.
EnterStats(a) == [p_stats EXCEPT ![current] = UpdateStats(@, "user_ticks", a)]

StClockSwitch ==
    /\ SwClockSwitch
    /\ \E a \in now .. MaxTime : Reading(now, a) /\ SwitchStats(EnterStats(a), a)

\* An interrupt that returns to the process it found: the clock within the
\* quantum, and the keyboard.
SameProcessStats ==
    \E a, d \in now .. MaxTime :
      /\ Reading(now, a) /\ Reading(a, d)
      /\ p_stats' = [EnterStats(a) EXCEPT ![current] = UpdateStats(@, "system_ticks", d)]
      /\ now' = d
      /\ UNCHANGED truth

StClockStay == SwClockStay /\ SameProcessStats

StKeyboard == kpath = "user" /\ ~lost /\ SameProcessStats /\ UNCHANGED swVars

StYield ==
    /\ SwYield
    /\ \E a \in now .. MaxTime : Reading(now, a) /\ SwitchStats(p_stats, a)

StExit ==
    /\ SwExit
    /\ \E a \in now .. MaxTime : Reading(now, a) /\ SwitchStats(p_stats, a)

StForkBegin ==
    /\ SwForkBegin
    /\ p_stats' = [p_stats EXCEPT ![child'] = p_stats[current]]
    /\ UNCHANGED <<now, truth>>

StForkOther == SwForkOther /\ UNCHANGED <<now, p_stats, truth>>

StForkEnd ==
    /\ SwForkEnd
    /\ \E c \in now .. MaxTime :
         /\ Reading(now, c)
         /\ p_stats' = [p_stats EXCEPT ![child] = InitStats(c)]
         /\ truth' = [truth EXCEPT ![child] = Born(c)]
         /\ now' = c

\* The PCB sys_get_stats finds: the first with that PID.
Found(pid, i) == PID[i] = pid /\ \A j \in Tasks : j < i => PID[j] # pid

\* It stores the running process's quantum in the record it copies to the user,
\* whichever process that belongs to.
sys_get_stats(pid) ==
    /\ InUserCode /\ ~lost
    /\ \E i \in Tasks :
         /\ Found(pid, i)
         /\ p_stats' = [p_stats EXCEPT ![i].remaining_ticks = remaining_quantum]
    /\ UNCHANGED <<swVars, now, truth>>

StLost == SwLost /\ UNCHANGED <<now, p_stats, truth>>

StNext ==
    \/ StClockSwitch \/ StClockStay \/ StKeyboard \/ StYield \/ StExit
    \/ StForkBegin \/ StForkOther \/ StForkEnd \/ StLost
    \/ \E pid \in {0, 1} \cup INITIAL_PID .. MaxPID : sys_get_stats(pid)

StSpec == StInit /\ [][StNext]_stVars

-----------------------------------------------------------------------------
\* What get_stats reports is true of every process: ready_ticks is the time it
\* has spent in the readyqueue, total_trans the number of times it got the CPU,
\* and every tick since its creation is charged to exactly one counter.
StatsExact ==
    \A t \in Live :
      LET s == p_stats[t] IN
      /\ s.ready_ticks = truth[t].waited
      /\ s.total_trans = truth[t].got
      /\ s.user_ticks + s.system_ticks + s.ready_ticks
           = s.elapsed_total_ticks - truth[t].born
      /\ s.blocked_ticks = 0

\* The subtraction of update_stats is unsigned: no PCB whose time will be
\* charged was stamped later than the counter stands, and a waiting one was
\* stamped exactly when it left the CPU or was created.
StampsPast ==
    /\ \A t \in Live \cup {idle_task} : p_stats[t].elapsed_total_ticks <= now
    /\ \A t \in Waiting : p_stats[t].elapsed_total_ticks = truth[t].left
=============================================================================
