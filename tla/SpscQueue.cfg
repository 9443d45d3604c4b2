SPECIFICATION Spec
CONSTANTS
  a = a
  b = b
  Items <- MCItems
  Gone = Gone
  Capacity = 4
  MaxPush = 6
  Throws = {"assign", "copy", "move"}
INVARIANTS
  TypeOK
  Inv
  NoDataRace
  ProducerVerdictExact
  ConsumerVerdictExact
PROPERTY ImplementsFifo
