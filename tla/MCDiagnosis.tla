----------------------------- MODULE MCDiagnosis ------------------------------
(* Instances of DiagnosisRun for TLC: two entries, one of them selected or     *)
(* both; a packet's answer judges one, the sceptic's answer judges neither.    *)
EXTENDS DiagnosisRun, TLC

CONSTANTS n1, n2, c1, c2, e1, e2, a1, a2

SelectedBy == [c \in Choice |-> IF c = c1 THEN {e1} ELSE Entry]
Citations ==
  [k \in Packet |-> [x \in Answer |->
     IF k = Sceptic THEN {} ELSE IF x = a1 THEN {e1} ELSE {e2}]]

\* Processes are interchangeable.
Interchangeable == Permutations(Proc)
=============================================================================
