SPECIFICATION Spec
CONSTANTS
  Connections = {c1}
  Roles = {"user", "sender"}
  Entries = {e1}
  Timeouts = {t1}
  None = None
  Loop = Loop
  MaxMessages = 1
  MaxToggles = 1
  MaxBegun = 3
INVARIANT TypeOK
CHECK_DEADLOCK FALSE
INVARIANT NothingFreedIsUsed
PROPERTY LoopResponds
