SPECIFICATION Spec
CONSTANTS
  PAGE = 4
  TOTAL_PAGES = 40
  NUM_PAG_KERNEL = 24
  NUM_PAG_CODE = 1
  NUM_PAG_DATA = 2
  GDT_PAGE = 21
  SCREEN_PAGE = 23
  None = None
  BUF = 24
  PARA = 2
  SEG = 16
  IM_FIELD = 64
  LEN_FIELD = 128
  SysSizes = {58, 62}
  UsrSizes = {3, 8, 12}
  MaxTicks = 11
  WildPages = {2, 21, 30}
INVARIANTS
  ImageFaithful
  NoFault
  BootStackApart
  UserEntry
  PagedConfined
  FramesAccounted
CHECK_DEADLOCK FALSE
