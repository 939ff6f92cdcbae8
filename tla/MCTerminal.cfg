\* A screen of two by two, a ring of four slots, chunks of four and of two.
CONSTANTS
  KB_BUFFER_SIZE = 4
  Keys = {100}
  Codes = {30, 59, 100}
  NUM_COLUMNS = 2
  NUM_ROWS = 2
  PAGE = 4
  SPACE = 32
  WORD = 2
  USER_FIRST_PAGE = 2
  NUM_PAG_CODE = 1
  NUM_PAG_DATA = 1
  TAM_BUFFER = 4
  BUFFER_SIZE = 2
  POLL_SIZE = 4
  STATS_SIZE = 3
  Newlines = {9, 12}
  LITERAL = 8
  FAULT_EIP = 171
  Calls <- MCCalls
SPECIFICATION TSpec
INVARIANTS TypeOK WriteExact Contained
PROPERTIES FifoSpec RingDrains Returns
CHECK_DEADLOCK FALSE
