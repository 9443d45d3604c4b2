SPECIFICATION Spec
CONSTANTS
  SlotSize = 34
  Ports = {7}
  Formats = {"sbe", "packed"}
  Rooms = {15, 31, 34}
  Blocks = {16, 26}
  Cuts = {6, 8, 20, 31}
  MaxPackets = 3
INVARIANTS
  PolledInOrderOnce
  FreshVerdictExact
  FreshFieldsExact
  LateDecodeWhole
