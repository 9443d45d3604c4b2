SPECIFICATION Spec
CONSTANTS
  SlotSize = 34
  Ports = {0}
  Formats = {"sbe"}
  Rooms = {32}
  Blocks = {}
  Cuts = {6, 20}
  MaxPackets = 1
INVARIANT ShortBufferRefused
