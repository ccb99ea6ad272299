SPECIFICATION Spec
CONSTANTS
  Sessions = {s1, s2}
  Endpoints <- TwoEndpoints
  RoomNames <- OneRoom
  NoRooms = NoRooms
  MaxEvents = 2
SYMMETRY Symmetry
INVARIANTS
  TypeOK
  SameOrder
PROPERTIES
  KeepsRooms
  KeepsLifecycles
CHECK_DEADLOCK FALSE
