\* One run in every mode; two processes, one of them killed inside a command.
\* A closed or wedged run is the end: a new diagnosis is a new run.
CONSTANTS
  n1 = n1  n2 = n2  c1 = c1  c2 = c2  e1 = e1  e2 = e2  a1 = a1  a2 = a2
  Run = {r1}
  Proc = {q1, q2}
  Normal = {n1, n2}
  Sceptic = sceptic
  Answer = {a1, a2}
  Choice = {c1, c2}
  Entry = {e1, e2}
  Selected <- SelectedBy
  Cites <- Citations
  Mode = {"inventoryOnly", "guided", "focused"}
  None = None
  MaxKills = 1
SPECIFICATION Spec
SYMMETRY Interchangeable
CHECK_DEADLOCK FALSE
INVARIANTS ToldIsKept SavedReportIsWhole
PROPERTY OnlyForward
