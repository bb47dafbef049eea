SPECIFICATION LiveSpec
CONSTRAINT TwoMails
CHECK_DEADLOCK FALSE
CONSTANTS
  p1 = p1  p2 = p2  p3 = p3
  Nobody = Nobody
  Procs <- TwoProcs
  Casts <- Stale
  Calls <- AllKinds
  Flags <- NoFlags
  NumTable <- OneKilobyte
  Lengths <- Short
  MaxMailSize = 1
  ShrtMax = 1
  NoLimit = FALSE
  Misses = TRUE
  MaxTry = 2
  MaxTime = 1
PROPERTIES LossExplained LockReleased
