SPECIFICATION Spec
CONSTANTS
  Machines <- MCMachines
  Library = {TRUE, FALSE}
INVARIANT BoundToNode
