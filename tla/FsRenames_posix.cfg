CONSTANTS
  MaxIno = 5
SPECIFICATION RenamesSpec
INVARIANTS RenameReplaces
CHECK_DEADLOCK FALSE
