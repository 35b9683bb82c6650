SPECIFICATION MCSpec
CONSTANTS
  Client = Client
  Server = Server
  SEND_INTERVAL = 1
  ACK_INTERVAL = 3
  ACK_DELAY = 1
  SEND_MINDELAY = 0
  RTO = 1
  ACTIVE_RETRY_TIMEOUT = 2
  SHUTDOWN_RETRIES = 2
  SentLimit = 4
  EraseBack = 3
  ReceivedLimit = 2
  Quench = 2
  LastNum = 12
  Never = 100
  Garbage = Garbage
  ECHO_TIMEOUT = 1
  SERVER_ASSOCIATION_TIMEOUT = 1
  NoClientTimeout = 3
  ConnectTimeout = 3
  NetworkTimeout = 0
  MaxTime = 5
  MaxTyped = 2
  NetworkSignaledTimeout = 2
  Scenarios <- MCScenarios
  CLIENT_WAKE = 2
  MESSAGE_TIME = 1
  ERROR_TIME = 3
  SERVER_LATE = 2
  REPLY_LATE = 3
  LONG_SILENCE = 4
  CONNECT_TIMEOUT = 3
  Uses <- MCUses
  NO_CLIENT = 4
  NO_CLIENT_WAKE = 1
  UTMP_LATE = 2
  ASSOCIATION = 3
  HEARTBEAT = 1
  Environs <- MCEnvirons
CHECK_DEADLOCK FALSE
INVARIANTS
  StatesAgree LastStateArrives
  MessagesHonest TerminalSafe SignalActedOn TypedIsSent
  ShellOnlyForClient SshReaped SilentServerEnds UtmpHonest
PROPERTIES SyncSpec
