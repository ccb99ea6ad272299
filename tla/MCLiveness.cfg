SPECIFICATION FairSpec
CHECK_DEADLOCK FALSE
CONSTANTS
  chat = chat
  room = room
  global = global
  r1 = r1
  r2 = r2
  Names <- OneName
  GLOBAL_NS = global
  Requests <- OneRequest
  Payloads <- AllPayloads
  MaxInstances = 1
  MaxJobs = 1
  MaxSent = 1
  Raises = FALSE
PROPERTIES
  KillersUnblock
  SilentClientDropped
  NamespacesCleared
  SocketJobsDie
  LocalJobsDie
