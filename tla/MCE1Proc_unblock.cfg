\* Five PCBs: unblock of a child that is not blocked.
CONSTANTS
    NR_TASKS = 5
    DEFAULT_QUANTUM = 2
    MaxPID = 6
    MaxPending = 1
SPECIFICATION Spec
PROPERTY UnblockReachesChild
