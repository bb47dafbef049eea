SPECIFICATION Spec
CONSTANTS
  p1 = p1  p2 = p2  p3 = p3
  Nobody = Nobody
  Procs <- ThreeProcs
  Casts <- BoardCasts
  Owners <- FirstOwns
  Old = 3
  MinAge = 1
  MaxTry = 3
  MaxTime = 5
INVARIANTS BoardRight 
PROPERTIES  Ordered
