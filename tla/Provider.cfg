SPECIFICATION ProviderSpec
CONSTANTS
  Run = {r1, r2}
  NoRun = NoRun
  Provider = {codex, claude}
  NoProvider = NoProvider
  Session = {s1, s2}
  NoSession = NoSession
  Attention = {a1, a2}
  Check = {c1}
  Subject = {u1, u2}
  NoReceipt = NoReceipt
  MaxAttempt = 2
  MaxTime = 1
  MaxSequence = 12
  Permission = {p1}
  Question = {q1}
  MaxMessages = 1
  MaxTurns = 2
  MaxStream = 3
\* An actor ends with its provider, a history with its bound.
CHECK_DEADLOCK FALSE
SYMMETRY ProviderSymmetry
INVARIANTS AnsweredAtMostOnce NothingOfEarlierRun ClosureIsProvenTwice OwnTurnIsShown QuietAgrees
PROPERTY ArchivedIsFinal
