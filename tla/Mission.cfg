SPECIFICATION MissionSpec
CONSTANTS
  None = None
  MaxTurn = 2
  MaxEvents = 2
  MaxReceived = 3
  Event = {e1, e2, e3}
  r1 = r1  r2 = r2  c1 = c1  c2 = c2  p1 = p1  p2 = p2
  Path = {p1, p2}
  Content = {0, 1, 2}
  Plan <- MCPlan
  Scope <- MCScope
  Good <- MCGood
  NoTree = NoTree
  Request <- MCRequest
  Payload <- MCPayload
  MaxTime = 2
  MaxAttempts = 2
CHECK_DEADLOCK FALSE
SYMMETRY EventSymmetry
INVARIANTS SnapshotIsJustified AnsweredOnce AuditTrail BlockedWhileInDoubt ProofIsSound ReceiptsAgree
PROPERTIES CompletedTurnHolds
