\* Five PCBs but frames for three processes: fork fails half way.
CONSTANTS
    NR_TASKS = 5
    NUM_PAG_KERNEL = 1
    NUM_PAG_CODE = 1
    NUM_PAG_DATA = 2
    TOTAL_PAGES = 16
    DEFAULT_QUANTUM = 2
    MaxPID = 1004
SPECIFICATION LiveSpec
INVARIANT FramesConserved
PROPERTIES LifeSpec ReadyRuns
