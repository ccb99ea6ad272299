SPECIFICATION FairSpec
CONSTANTS
  c1 = c1
  c2 = c2
  c3 = c3
  Consumers = {c1, c2, c3}
  Kind <- Mixed
  MaxMessages = 3
INVARIANTS TypeOK Accounted DropsOnlyLate
PROPERTIES StreamEndsOnKill PollAnswered Delivered
CHECK_DEADLOCK FALSE
