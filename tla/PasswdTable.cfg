SPECIFICATION Spec
SYMMETRY Symmetry
CONSTANTS
  a = a  b = b  c = c  p1 = p1  p2 = p2
  NoId = NoId  Nobody = Nobody
  Ids <- MCIds
  Procs <- MCProcs
  Hash <- MCHash
  MaxUsers = 2
  Faults <- AllFaults
INVARIANTS TypeOK HashAgrees UniqueIds OneChain
PROPERTIES SlotIdentity KickoutSticks
