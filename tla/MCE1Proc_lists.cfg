\* Four PCBs: the queues while nobody forks twice, and PIDs.
CONSTANTS
    NR_TASKS = 4
    DEFAULT_QUANTUM = 2
    MaxPID = 7
    MaxPending = 1
SPECIFICATION Spec
INVARIANTS ListsSound PIDsUnique
