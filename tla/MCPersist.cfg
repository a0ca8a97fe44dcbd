SPECIFICATION Spec
CONSTANTS
  NULL = NULL
  NONE = NONE
  LOST = LOST
  SLOTS = 3
  PAGE_RECS = 11
  Agents = {"ua", "other"}
  Parity <- MCParity
  Texts = {"x", "z"}
  Slot <- MCSlot
  Addrs = {1, 2}
  MAX_IDS = 2
  MAX_SETS = 2
  MAX_STOPS = 1
  Uids = {"u1"}
  Props <- MCProps
  Values = {"x", "y"}
  LOGIN_STOPS = 2
  CUT = CUT
  Sent <- MCSent
  BINSEG_SEG_MAX = 14
  MAX_SENT = 3
  BINSEG_STOPS = 2
INVARIANTS OpenedIsClosed OneName PersistedStays RecordsKept
PROPERTY DestroyedIsFree
