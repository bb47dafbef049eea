SPECIFICATION LiveSpec
CONSTANTS
  a = a  b = b  c = c  p1 = p1  p2 = p2
  NoId = NoId  Nobody = Nobody
  Ids <- MCIds
  Procs <- MCProcs
  Hash <- MCHash
  MaxUsers = 2
  Faults <- NoFaults
PROPERTIES  KickedIdFreed
