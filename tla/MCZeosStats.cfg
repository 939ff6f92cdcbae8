\* Idle, task 1, two more PCBs and frames for one child: every kind of switch,
\* an exit, and forks that fail.
CONSTANTS
    NR_TASKS = 4
    NUM_PAG_KERNEL = 1
    NUM_PAG_CODE = 1
    NUM_PAG_DATA = 1
    TOTAL_PAGES = 7
    DEFAULT_QUANTUM = 1
    MaxPID = 1002
    MaxTime = 3
    MaxTrans = 2
SPECIFICATION StSpec
INVARIANTS StatsExact StampsPast ResumeSound RunsOnOwnStack
PROPERTY OnlyLoneYieldLoses
CHECK_DEADLOCK FALSE
