SPECIFICATION DiligentSpec
CONSTANTS
  r1 = r1  r2 = r2  a1 = a1  a2 = a2
  Run = {r1, r2}
  NoRun = NoRun
  Provider = {codex, claude}
  NoProvider = NoProvider
  Session = {s1}
  NoSession = NoSession
  Attention = {a1}
  Check = {c1}
  Subject = {u1, u2}
  NoReceipt = NoReceipt
  Other = Other
  Asker <- MCAskerOne
  MaxAttempt = 2
  MaxTime = 0
  MaxSequence = 9
  MaxFaults = 0
PROPERTIES Reconciles
