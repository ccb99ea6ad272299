SPECIFICATION Spec
CHECK_DEADLOCK FALSE
CONSTANTS
  chat = chat
  room = room
  global = global
  r1 = r1
  r2 = r2
  Names <- TwoNames
  GLOBAL_NS = global
  Requests <- OneRequest
  Payloads <- Pair
  MaxInstances = 2
  MaxJobs = 0
  MaxSent = 5
  Raises = FALSE
VIEW View
INVARIANT IInv
PROPERTY KeepsLifecycle
