------------------------------ MODULE ProcLife ------------------------------
(***************************************************************************)
(* What ZeOS promises about processes and memory, without lists, page      *)
(* tables or a byte map: a process is free, new (fork is building it),     *)
(* ready or running; it owns frames of a pool that no other process owns;  *)
(* it becomes ready with exactly Need frames and gives them all back.      *)
(***************************************************************************)
EXTENDS Naturals, FiniteSets

CONSTANTS Proc, Pool, Need, First

VARIABLES life, holds

lvars == <<life, holds>>

LifeStates == {"free", "new", "ready", "run"}
In(s) == {p \in Proc : life[p] = s}
Held == UNION {holds[p] : p \in Proc}

LifeTypeOK == life \in [Proc -> LifeStates] /\ holds \in [Proc -> SUBSET Pool]

Init ==
    /\ life = [p \in Proc |-> IF p = First THEN "run" ELSE "free"]
    /\ \E S \in SUBSET Pool :
         /\ Cardinality(S) = Need
         /\ holds = [p \in Proc |-> IF p = First THEN S ELSE {}]

\* life once p has the CPU and the process that had it becomes s.
Running(p, s) == [q \in Proc |-> IF q = p THEN "run"
                                 ELSE IF life[q] = "run" THEN s ELSE life[q]]

\* A ready process takes the CPU from the running one.
Switch(p) ==
    /\ In("new") = {} /\ In("run") # {}
    /\ life[p] = "ready"
    /\ life' = Running(p, "ready")
    /\ UNCHANGED holds

Spawn(p) ==
    /\ In("new") = {} /\ In("run") # {}
    /\ life[p] = "free"
    /\ life' = [life EXCEPT ![p] = "new"]
    /\ UNCHANGED holds

Grab(p, f) ==
    /\ life[p] = "new" /\ f \notin Held
    /\ holds' = [holds EXCEPT ![p] = @ \cup {f}]
    /\ UNCHANGED life

\* Only when memory is exhausted is a new process given up.
Abort(p) ==
    /\ life[p] = "new" /\ Held = Pool
    /\ life' = [life EXCEPT ![p] = "free"]
    /\ holds' = [holds EXCEPT ![p] = {}]

Admit(p) ==
    /\ life[p] = "new" /\ Cardinality(holds[p]) = Need
    /\ life' = [life EXCEPT ![p] = "ready"]
    /\ UNCHANGED holds

\* The CPU is left to nobody only if nobody is ready.
Terminate(p) ==
    /\ In("new") = {} /\ life[p] = "run"
    /\ \/ \E q \in In("ready") : life' = Running(q, "free")
       \/ In("ready") = {} /\ life' = [life EXCEPT ![p] = "free"]
    /\ holds' = [holds EXCEPT ![p] = {}]

Next == \E p \in Proc : \/ Switch(p) \/ Spawn(p) \/ Abort(p) \/ Admit(p)
                        \/ Terminate(p) \/ \E f \in Pool : Grab(p, f)

Spec == Init /\ [][Next]_lvars
=============================================================================
