SPECIFICATION Spec
CONSTANTS
  Endpoints = {"chat"}
  Events <- AllEvents
  Callable <- Defined
  InitialAcl <- OneList
  AclMethods = {"on_a", "on_b"}
  Packets <- ClientPackets
  MaxPackets = 3
  MaxPuts = 2
INVARIANTS TypeOK FiredOnce AcksMatchRequests
PROPERTIES KilledCallbacksSilent OnlyGrantedRun
CHECK_DEADLOCK FALSE
