\* Two rooms and three messages, one turn kept verbatim.
SPECIFICATION Spec
CONSTANTS
  r1 = r1
  r2 = r2
  Rooms = {r1, r2}
  Global = global
  KeepRecent = 1
  MaxMessages = 3
  MaxSpawned = 1
SYMMETRY RoomSymmetry
INVARIANTS
  ReservedExactly
  InOrder
  SummarisedIsOld
PROPERTIES
  OnlyLateMessagesLost
  TldrAdvances
  RoomFactsKept
