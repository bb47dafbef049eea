SPECIFICATION LiveSpec
CHECK_DEADLOCK FALSE
CONSTANTS
  ta = ta  wa = wa  tb = tb  a = a  b = b
  Nobody = Nobody
  Telnet <- Sessions
  Web <- WebProcs
  UserOf <- Whose
  Casts <- Pairs
  Values = {1, 2}
  SaveLog <- Second
  MaxVotes = 2
  MaxBallots = 2
  MaxFiles = 3
  MaxFaults = 1
 
PROPERTIES VotesKept BallotsRight NoneUncounted ExpiredClosed
