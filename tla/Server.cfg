SPECIFICATION ServerSpec
CONSTANTS
  Panes = {p1, p2}
  MaxAttempts = 2
  MaxHead = 2
  MaxFds = 64
  Input = {i1, i2}
  Answer = answer
  Size = 2
  Capacity = 1
  MaxCalls = 3
  MaxAnswers = 1
CHECK_DEADLOCK FALSE
INVARIANTS OneReader NothingLost InputDelivered QuiescedIsDrained
PROPERTIES HandoffEnds AcceptedIsWritten
