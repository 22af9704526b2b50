SPECIFICATION Spec
CONSTANTS
  c1 = c1  c2 = c2  p1 = p1  p2 = p2
  Path = {p1, p2}
  Content = {0, 1, 2}
  Plan <- MCPlan
  Scope <- MCScope
  Good <- MCGood
  NoTree = NoTree
INVARIANTS VerifiedPasses
