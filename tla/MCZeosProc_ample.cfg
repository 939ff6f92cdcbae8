\* Five PCBs (idle, task 1, three children), frames for all of them.
CONSTANTS
    NR_TASKS = 5
    NUM_PAG_KERNEL = 1
    NUM_PAG_CODE = 1
    NUM_PAG_DATA = 2
    TOTAL_PAGES = 20
    DEFAULT_QUANTUM = 2
    MaxPID = 1005
SPECIFICATION Spec
INVARIANTS TypeOK OnePlace StateMatchesQueue IdleOnlyIfNoneReady QuantumNeverOver FramesPrivate FramesConserved AddressSpaceComplete LivePIDsUnique PIDLookup IInv
PROPERTY BoundedWait
