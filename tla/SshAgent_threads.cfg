SPECIFICATION MCSpec
CONSTANTS
  None = None
  c1 = c1
  c2 = c2
  a1 = a1
  sk = sk
  FileKeys = {file}
  SkKeys = {sk}
  Clients = {c1, c2}
  Acceptors = {a1, a2}
  Managers = {m1}
  MaxClients = 2
  MaxAttempts = 2
  MaxRequests = 2
  MaxStarts = 2
CHECK_DEADLOCK FALSE
INVARIANTS OneTouchOneSignature CounterNeverReused AgentBounded
PROPERTIES RequestAnswered
