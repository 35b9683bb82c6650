SPECIFICATION FairSpec
CONSTANTS
  Callers = {ui}
  Closers = {exit}
  ExitThread = exit
  OpKinds = {"render"}
  PtyCap = 1
  MaxWrites = 1
PROPERTIES
  ExitTerminates
CHECK_DEADLOCK FALSE
