SPECIFICATION Spec
CHECK_DEADLOCK FALSE
CONSTANTS
  p1 = p1  p2 = p2  p3 = p3
  Procs <- MCProcs
  Jobs <- MCJobs
  MaxMessage = 0
  MaxMsgs = 2
  MaxClears = 1
INVARIANTS FilesRight ViewRight 
