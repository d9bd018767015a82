SPECIFICATION Spec
CONSTANTS
  Configs <- MCConfigs
  Suites <- MCSuites
  ServerSuites = {"ecdsa128"}
  Required = "ecdsa128"
  MinSuites = 1
  MTU = 10
  MaxQueue = 3
INVARIANTS TypeOK NetworkCannotAbort KeysAgree DataAtMostOnce
PROPERTY FullHandshakeCompletes
CHECK_DEADLOCK FALSE
