\* Five PCBs: exit of a process with children.
CONSTANTS
    NR_TASKS = 5
    DEFAULT_QUANTUM = 2
    MaxPID = 6
    MaxPending = 1
SPECIFICATION Spec
PROPERTY ExitReturns
