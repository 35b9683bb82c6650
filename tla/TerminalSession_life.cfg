SPECIFICATION FairSpec
CONSTANTS
  ui = ui
  closer = closer
  exit = exit
  Callers <- OneCaller
  Closers <- BothClosers
  ExitThread = exit
  OpKinds <- LockingKinds
  PtyCap = 1
  MaxWrites = 1
INVARIANTS
  TypeOK
  NoUseAfterFree
  TerminalExclusive
  WritesReachOpenPty
PROPERTIES
  NoInputAfterClose
  DeathNoticed
  JoinReturnsOutsideWindow
CHECK_DEADLOCK FALSE
