SPECIFICATION Spec
CONSTANTS
  Depth = 2
  Faults = {"wait"}
  MaxCalls = 2
INVARIANT ReturnsOwnBytes
