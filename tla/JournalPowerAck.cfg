SPECIFICATION Spec
CONSTANTS
  Process = {p1, p2}
  NoProcess = NoProcess
  NoFrame = NoFrame
  EventId = {e1, e2}
  Payload = {x}
  MaxFrames = 2
  MaxFaults = 3
  PowerLoss = TRUE
INVARIANT AcknowledgedIsDurable
