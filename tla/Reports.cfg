SPECIFICATION ReportsSpec
CONSTANTS
  None = None
  SessionId = {s1, s2}
  ControlId = {q1, q2}
  MaxTurn = 2
  MaxControl = 2
  MaxFrames = 6
  AgentState = {"Idle", "Working", "Unknown"}
  Title = {t1, t2}
  RingSize = 2
  MaxPushed = 3
  MaxMoments = 2
\* An actor ends with its provider, a subscriber with its client.
CHECK_DEADLOCK FALSE
INVARIANTS ReportsInOrder RequestsOfTurn
PROPERTIES TurnEnds ToldInOrder ClientLearns
