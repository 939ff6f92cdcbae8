SPECIFICATION Spec
CONSTANTS
  NR_TASKS = 4
  NUM_PAG_KERNEL = 2
  NUM_PAG_CODE = 1
  NUM_PAG_DATA = 2
  TOTAL_PAGES = 19
  Values = {1, 2}
INVARIANTS
  MemoryIsMine
  TlbAgrees
  FramesInUse
