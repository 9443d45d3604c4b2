SPECIFICATION Spec
CONSTANT N = 4
INVARIANTS
  TypeOK
  SlotsPartitioned
