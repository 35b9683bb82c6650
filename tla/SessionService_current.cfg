SPECIFICATION ServiceSpec
CONSTANTS
  Sessions = {s1, s2, s3}
  HttpThreads = {}
  NoSession = NoSession
  MaxPosts = 2
CHECK_DEADLOCK FALSE
INVARIANT OnScreenIsCurrent
