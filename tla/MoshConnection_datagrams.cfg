SPECIFICATION MCSpec
CHECK_DEADLOCK FALSE
CONSTANTS
  Client = Client
  Server = Server
  Settings <- MCSettings
  Wrap = 9
  FirstTime = 6
  HoldLimit = 2
  RTTLimit = 5
  PENALTY = 1
  SERVER_ASSOCIATION_TIMEOUT = 4
  PORT_HOP_INTERVAL = 1
  MAX_PORTS_OPEN = 4
  MAX_OLD_SOCKET_AGE = 5
  CounterSpan = 32
  SeqSpan = 12
  BlockLimit = 11
  FragmentLimit = 8
  DEFAULT_MTU = 2
  FALLBACK_MTU = 1
  PORT_RANGE_LOW = 1
  PORT_RANGE_HIGH = 3
  BlockLen = 4
  BPI = 4
  Poly <- MCPoly
  StretchShift = 1
  Ciphers <- MCCiphers
  Nonces <- MCNonces
  Texts <- MCTexts
  Datas <- MCDatas
  MaxMessages = 2
  ByteBits = 4
  KeyGroups = 1
  Printables <- MCPrintables
  Letter = "a"
  Secret = "s"
  NoFrame = 99
  SRTT_TRIGGER_LOW = 1
  SRTT_TRIGGER_HIGH = 2
  GLITCH_THRESHOLD = 1
  GLITCH_FLAG_THRESHOLD = 2
  GLITCH_REPAIR_COUNT = 2
  GLITCH_REPAIR_MININTERVAL = 1
  MaxKeys = 4
  MaxNow = 3
  EchoSettings <- MCEchoSettings
INVARIANTS FragmentsWhole NonceNeverRepeats AddressesRight SampleHonest CipherAsReference PredictionsEnd PasswordHidden
