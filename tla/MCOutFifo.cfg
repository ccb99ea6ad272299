SPECIFICATION Spec
CONSTANTS
  c1 = c1
  c2 = c2
  c3 = c3
  Consumers = {c1}
  Kind <- OnePoll
  MaxMessages = 6
PROPERTY ReliableFifo
CHECK_DEADLOCK FALSE
