SPECIFICATION Spec
CONSTANTS
  Depth = 2
  Faults = {"submit", "wait"}
  MaxCalls = 4
INVARIANTS
  TypeOK
  DescriptorsClosed
  LagIsAbandoned
  ForeignOnlyWhileLagging
  NeverWaitsInVain
PROPERTIES
  ImplementsReplies
  CallsReturn
