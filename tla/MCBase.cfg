SPECIFICATION Spec
CONSTANTS
  Pieces <- MCPieces
  Control = {"^"}
  SLOT = 2
  STR_DEFAULT = 2
  STR_MAX = 3
  MAX_STRS = 3
  MAX_TEXT = 4
  MAX_OPS = 5
  PATH_BYTES = {"/", ".", "a"}
  MAX_PATH = 8
  Folders <- MCFolders
  Entries <- MCEntries
  Skip <- MCSkip
  Only <- MCOnly
INVARIANTS IsText EqualsExact Relativised NamesSplit GatherExact
CHECK_DEADLOCK FALSE
