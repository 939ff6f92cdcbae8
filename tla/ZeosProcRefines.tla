-------------------------- MODULE ZeosProcRefines --------------------------
(* The kernel's process management implements ProcLife. *)
EXTENDS ZeosProc

\* The life of the process in PCB t, read off the lists.
LifeOf(t) == IF t = current THEN "run"
             ELSE IF t \in Waiting THEN "ready"
             ELSE IF t \in Forking THEN "new"
             ELSE "free"

\* The frames PCB t's data pages are mapped to.
HoldsOf(t) == IF dir[t] = NoDir THEN {} ELSE FramesOf(pt[dir[t]], DataPages) \ {NoFrame}

Life == INSTANCE ProcLife WITH
    Proc <- Tasks \ {idle_task},
    Pool <- ScanFrames \ FramesOf(BootTable, CodePages),
    Need <- NUM_PAG_DATA,
    First <- task1,
    life <- [t \in Tasks \ {idle_task} |-> LifeOf(t)],
    holds <- [t \in Tasks \ {idle_task} |-> HoldsOf(t)]

\* Every step of the clock, fork (with its rollback), exit and yield is a step
\* of ProcLife or changes nothing there: the PCB lists, the page tables and
\* the byte map together do what ProcLife promises.
LifeSpec == Life!Spec
=============================================================================
