SPECIFICATION Spec
CONSTRAINT FewSteps
CONSTANTS
  u1 = u1 u2 = u2 t1 = t1 w1 = w1 w2 = w2 b1 = b1 b2 = b2
  Casts <- TwoAtATime
  Before <- SomeMarks
  Users = {u1, u2}
  Boards = {b1, b2}
  Telnet = {t1}
  Web = {p1}
  Windows = {w1, w2}
  UserOf <- WhoseSession
  Times = {2, 10}
  MaxNum = 2
  Byte = 3
  HeadLen = 2
  MaxSize = 10
  NoBoard = NoBoard
  Info = Info
  NoWindow = NoWindow
  MaxOpens = 2
  MaxMarks = 2
  MaxSaves = 2
  MaxFaults = 1
CHECK_DEADLOCK FALSE
INVARIANTS ListsRight NothingInvented SessionRight
PROPERTIES MarksKept
