SPECIFICATION Handoff
CONSTANTS
  Items = {1, 2, 3, 4, 5, 6, 7, 8, 9, 10}
  Gone = Gone
  Capacity = 4
  MaxPush = 10
  Throws = {}
INVARIANTS
  FifoDelivery
  SomebodyProceeds
PROPERTY EveryTickArrives
CHECK_DEADLOCK FALSE
