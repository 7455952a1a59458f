----------------------------- MODULE MCAdaptation -----------------------------
(* Instances of AdaptationTransaction for TLC: two previews, on one path,     *)
(* with different contents.                                                   *)
EXTENDS AdaptationTransaction

CONSTANTS t1, t2, p1, p2, b1, b2

OneTransaction  == {t1}
TwoTransactions == {t1, t2}

SamePath == [t \in Transaction |-> p1]
OwnBody == [t \in Transaction |-> IF t = t1 THEN b1 ELSE b2]
=============================================================================
