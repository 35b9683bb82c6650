SPECIFICATION AgentSpec
CONSTANTS
  None = None
  FileKeys = {}
  SkKeys = {sk}
  Clients = {c1}
  Acceptors = {a1}
  Managers = {m1, m2}
  MaxClients = 1
  MaxAttempts = 1
  MaxRequests = 1
  MaxStarts = 1
CHECK_DEADLOCK FALSE
INVARIANT NoSignatureWhileLocked
