\* One client and a frame of two windows; three commands, and one thing that
\* happens to the client or to the plugin.
SPECIFICATION EmacsSpec
CONSTANTS
  None = None
  Clients = {alpha}
  Windows = {left, right}
  MaxCommands = 3
  MaxChanges = 1
INVARIANTS EmacsTypeOK PluginFollowsWindows
PROPERTY AnswersSettle
CHECK_DEADLOCK FALSE
