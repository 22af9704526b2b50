SPECIFICATION FairSpec
CONSTANTS
  Process = {p1, p2}
  NoProcess = NoProcess
  NoFrame = NoFrame
  EventId = {e1, e2}
  Payload = {x, y}
  MaxFrames = 2
  MaxFaults = 2
  PowerLoss = FALSE
INVARIANT AcknowledgedIsDurable
PROPERTIES ImplementsEventLog RestartRecovers
