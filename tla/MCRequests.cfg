SPECIFICATION Spec
CHECK_DEADLOCK FALSE
CONSTANTS
  chat = chat
  room = room
  global = global
  r1 = r1
  r2 = r2
  Names <- OneName
  GLOBAL_NS = global
  Requests <- TwoRequests
  Payloads <- AllPayloads
  MaxInstances = 1
  MaxJobs = 1
  MaxSent = 2
  Raises = TRUE
VIEW View
SYMMETRY Symmetry
INVARIANTS
  TypeOK
  ConnectedAttached
  Monitored
  OneKiller
PROPERTY NoResurrection
