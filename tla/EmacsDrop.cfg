CONSTANTS
  None = None
  Clients = {alpha}
  Windows = {left}
  MaxCommands = 1
  MaxChanges = 1
SPECIFICATION EmacsSpec
INVARIANT DropClearsSession
CHECK_DEADLOCK FALSE
