\* One drill; file operations fail, manifests and receipts are damaged, and the
\* owner edits between steps.
CONSTANTS
  t1 = t1  t2 = t2  p1 = p1  p2 = p2  b1 = b1  b2 = b2
  NoBody = NoBody  NoToken = NoToken
  Token = {k1, k2}
  Transaction <- OneTransaction
  Path = {p1}
  Body = {b1, b2}
  TargetOf <- SamePath
  BodyOf <- OwnBody
  Stamp = {1, 2}
  Drill = {t1}
  Declared = {t1}
  Editor = "racing"
  IOFaults = TRUE
  Tampering = TRUE
SPECIFICATION Spec
INVARIANTS BytesWereApproved ReversedLeavesNothing
PROPERTY LaterWorkLostOnlyInTheWindow
