------------------------------- MODULE MCPilot -------------------------------
(* Two people of the one stratum compete for one place, one of the other has *)
(* a place of their own, so a cohort is two people and a strict majority    *)
(* both of them.  One build passes all but G1, whose formal evidence is of   *)
(* another commit; the other fails G5.                                     *)
EXTENDS PilotPack, TLC

CONSTANTS a1, a2, b

TheStratum == (a1 :> "non-dex") @@ (a2 :> "non-dex") @@ (b :> "dex")
OneOfEach == ("non-dex" :> 1) @@ ("dex" :> 1)

TheRuns ==
  {[commit |-> 1, proven |-> Gates, formal |-> ("G1" :> 2) @@ ("G2" :> 1)],
   [commit |-> 1, proven |-> Gates \ {"G5"}, formal |-> ("G1" :> 1) @@ ("G2" :> 1)]}

TheBaselines == {[supports |-> TRUE, objective |-> TRUE, value |-> 0]}

TheFollowUps ==
  {[supports |-> TRUE, objective |-> TRUE, value |-> 1, claim |-> None],
   [supports |-> TRUE, objective |-> TRUE, value |-> 1, claim |-> TRUE],
   [supports |-> FALSE, objective |-> TRUE, value |-> 2, claim |-> None]}

FirstWindow == 0..1
SecondWindow == 1..1

(* Bounds: consents and contracts come in one order and before the gate is    *)
(* opened; the second of the stratum is enrolled but not measured, one person *)
(* withdraws, drops out or comes to harm, and the same one's plan is edited or *)
(* locked late, with the time or another, and first used as of its lock; the  *)
(* pack is written when the plain course has ended well.                    *)
Line == <<a1, b, a2>>
First(n) == {Line[i] : i \in 1..n}

Bounded ==
  /\ \E n \in 0..3 : confirmed = First(n)
  /\ \E n \in 0..3 : {k[1] : k \in consents} = First(n)
  /\ \A k \in consents : k[2] = protocol \/ k[1] = a1
  /\ gate = None => now = 0 /\ \A p \in People : plan[p] = NewPlan(1)
  /\ DOMAIN tombstones \subseteq {<<a1, gate>>}
  /\ tombstones # <<>> => plan[a1].threshold = 1 /\ plan[a1].locked \in {None, 0}
  /\ plan[a2] = NewPlan(1) /\ base[a2] = None /\ fate[a2] = "in"
  /\ plan[b].threshold = 1 /\ plan[b].locked \in {None, 0} /\ plan[b].first \in {None, 0}
  /\ plan[a1].first \in {None, plan[a1].locked}
  /\ base[b] # None => plan[b].first # None
  /\ fate[b] = "in"
  /\ disk # NoFiles => now = MaxTime /\ tombstones = <<>> /\ report.verdict = "successful"
                    /\ plan[a1] = plan[b] /\ Cardinality(consents) = 3
                    /\ \A p \in {a1, b} : fate[p] = "in" /\ base[p].at = 0 /\ follow[p].row.claim = TRUE
===========================================================================
