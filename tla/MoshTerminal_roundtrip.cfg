SPECIFICATION MCSpec
CONSTANTS
  Narrow = {"a", "sp"}
  Wide = {"W"}
  Combining = {"c"}
  Unprintable = {"u"}
  Space = "sp"
  NoLink = NoLink
  CellLimit = 3
  HasEch = TRUE
  HasBce = TRUE
  HasTitle = TRUE
  EchMinimum = 1
  Tokens <- MCTokens
  Sizes <- MCSizes
  MaxTokens = 2
  ParamLimit = 3
  CollectLimit = 2
  OscLimit = 1
  EarlyCheck = TRUE
  Bytes <- MCBytes
  Frames <- MCFrames
  UserBytes <- MCUserBytes
  MaxUserBytes = 5
INVARIANT RoundTrip
CHECK_DEADLOCK FALSE
