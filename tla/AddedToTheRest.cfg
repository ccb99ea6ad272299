SPECIFICATION Spec
CONSTANTS
  Endpoints = {"chat"}
  Events <- AllEvents
  Callable <- Defined
  InitialAcl <- OneList
  AclMethods = {"on_a", "on_b"}
  Packets <- ClientPackets
  MaxPackets = 1
  MaxPuts = 0
INVARIANT AddedToTheRest
CHECK_DEADLOCK FALSE
