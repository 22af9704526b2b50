SPECIFICATION OwnershipSpec
CONSTANTS
  None = None
  pi = pi  claude = claude
  Owner = {pi, claude}
  Agent <- MCAgent
  AgentOf <- MCAgentOf
  Full = {pi}
  Reserved = {claude}
  Official = {pi, claude}
  Rethreading = {pi}
  Replaces <- MCReplaces
  Session = {s1, s2}
  PathSession = {}
  Reported = {"Working"}
  Screen <- MCScreen
  MaxSeq = 1
  MaxClock = 1
  Runtime = {a, b}
  Request = {r, q}
  MaxPort = 2
  MaxStarts = 2
  Ops = {"start", "stop", "cleanup"}
CHECK_DEADLOCK FALSE
SYMMETRY OwnershipSymmetry
INVARIANTS ForegroundAgrees OneIdentity EndedIsBarred RegistryLoads
PROPERTY ServiceStaysRecorded
