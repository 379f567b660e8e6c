SPECIFICATION Spec
CONSTANTS
  Cmd = {c1, c2, c3}
  Size = 3
INVARIANTS
  TypeOK
  RingInv
PROPERTIES
  ImplementsFifo
