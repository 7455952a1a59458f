\* Two previews with different contents for one path; the owner edits between
\* the engine's steps and keeps asking for the undo.  One clock value: time
\* only tells receipts apart.
CONSTANTS
  t1 = t1  t2 = t2  p1 = p1  p2 = p2  b1 = b1  b2 = b2
  NoBody = NoBody  NoToken = NoToken
  Token = {k1, k2}
  Transaction <- TwoTransactions
  Path = {p1}
  Body = {b1, b2}
  TargetOf <- SamePath
  BodyOf <- OwnBody
  Stamp = {1}
  Drill = {t1}
  Declared = {t1, t2}
  Editor = "betweenSteps"
  IOFaults = FALSE
  Tampering = FALSE
SPECIFICATION RetryingOwner
INVARIANT ReportsAreProven
PROPERTIES KeepsPromise UndoSettles
