\* Four PCBs and frames for two processes: a process that yields alone.
SPECIFICATION SwSpec
CONSTANTS
    NR_TASKS = 4
    TOTAL_PAGES = 8
    NUM_PAG_KERNEL = 2
    NUM_PAG_CODE = 1
    NUM_PAG_DATA = 1
    DEFAULT_QUANTUM = 2
    MaxPID = 1004
INVARIANT ContextKept
