SPECIFICATION MCSpec
CONSTANTS
  Sessions = {s1, s2, s3}
  HttpThreads = {h1}
  NoSession = NoSession
  MaxPosts = 1
  Senders = {t1, t2, t3}
  t1 = t1
  Names = {n1}
  NoId = NoId
  KittySettings <- MCKittySettings
  Images = {1, 2}
  Shapes <- MCShapes
  ScreenSizes <- MCSizes
  Capacity = 1
  CacheLimit = 1
  MaxSide = 2
  MaxGeneration = 3
  Height = 2
  MaxRows = 6
  Marks = {"prompt", "continuation", "output", "blank"}
CHECK_DEADLOCK FALSE
INVARIANTS ListConsistent ViewConsistent KittyLimits NothingStaleShown EndsOnce FrameSound HistorySound
PROPERTIES ViewportKept
