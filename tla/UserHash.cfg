SPECIFICATION LiveSpec
CONSTANTS
  a = a  b = b  w = w  r1 = r1
  NoId = NoId  Nobody = Nobody
  Ids <- TwoIds
  Writers <- MCWriters
  Readers <- MCReaders
  Hash <- MCHash
  MaxUsers = 3
  Faults <- Crashes
INVARIANTS SearchesRight
PROPERTIES LookupEnds ImplementsTable
