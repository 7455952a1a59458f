\* The smallest guided run: one host, one normal packet, nobody is killed.
CONSTANTS
  n1 = n1  n2 = n2  c1 = c1  c2 = c2  e1 = e1  e2 = e2  a1 = a1  a2 = a2
  Run = {r1}
  Proc = {q1}
  Normal = {n1}
  Sceptic = sceptic
  Answer = {a1}
  Choice = {c1}
  Entry = {e1, e2}
  Selected <- SelectedBy
  Cites <- Citations
  Mode = {"guided"}
  None = None
  MaxKills = 0
SPECIFICATION Spec
CHECK_DEADLOCK FALSE
INVARIANT ReplayIsHarmless
