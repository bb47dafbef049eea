SPECIFICATION Spec
CONSTRAINT FewMails
CHECK_DEADLOCK FALSE
CONSTANTS
  p1 = p1  p2 = p2  p3 = p3
  Nobody = Nobody
  Procs <- ThreeProcs
  Casts <- Deletions
  Calls <- MailOnly
  Flags <- BothFlags
  NumTable <- Table
  Lengths <- ShortAndLong
  MaxMailSize = 3
  ShrtMax = 100
  NoLimit = FALSE
  Misses = FALSE
  MaxTry = 2
  MaxTime = 2
INVARIANTS BoxRight
PROPERTIES QuotaKept 
