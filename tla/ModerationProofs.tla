---------------------------- MODULE ModerationProofs ----------------------------
(* Proofs about ContributionLifecycle, for any versions, contributions,       *)
(* stores and permission sets, and whichever store operations may fail; and   *)
(* about Moderation, which implements the lifecycle it reviews for and keeps  *)
(* decisions and cases to the attestation, for any people, reviewers, cases.  *)
EXTENDS Moderation, TLAPS

(* How far a contribution can be without which permission. *)
Accepted(c) == state[c] \in {"submitted", "quarantined", "reviewed", "changes_requested",
                             "rejected", "eligible"}

ReviewedUnderModeration ==
    \A c \in Contribution :
        /\ state[c] = "reviewed" => {"review", "moderation"} \subseteq permissions[CardOf[c]]
        /\ Accepted(c) => "review" \in permissions[CardOf[c]]

(* A contribution, or a copy, only exists for a version with consent on       *)
(* record; a withdrawn contribution's consent is withdrawn.                   *)
OnRecord ==
    /\ \A c \in Contribution :
          /\ state[c] # "none" => ledger[CardOf[c]] # "none"
          /\ state[c] = "withdrawn" => ledger[CardOf[c]] = "withdrawn"
    /\ \A v \in Version, s \in Store : CanUse(s, v) => ledger[v] # "none"

IInv == TypeOK /\ WithdrawnIsRecalled /\ UseWasPermitted /\ ReviewedUnderModeration /\ OnRecord

--------------------------------------------------------------------------------

(* What a pass over some stores leaves: no copy comes into use, and a store   *)
(* of the pass with the version in use refused both calls.                    *)
LEMMA RecallEffect ==
    ASSUME TypeOK, NEW v \in Version, NEW target \in SUBSET Store,
           NEW noWithdraw \in SUBSET Store, NEW noQuarantine \in SUBSET Store,
           Recall(v, target, noWithdraw, noQuarantine)
    PROVE  /\ payloads' \in [Store -> SUBSET Version]
           /\ withdrawn' \in [Store -> SUBSET Version]
           /\ quarantined' \in [Store -> SUBSET Version]
           /\ \A s \in Store, x \in Version : CanUse(s, x)' => CanUse(s, x)
           /\ \A s \in target : CanUse(s, v)' => s \in Owed(target, noWithdraw, noQuarantine)
BY DEF TypeOK, Recall, CanUse, Owed

(* A store that gets a copy into use gets it of that version only. *)
LEMMA PutEffect ==
    ASSUME TypeOK, NEW v \in Version, NEW targets \in SUBSET Store,
           PutIn(targets, v), UNCHANGED <<withdrawn, quarantined>>
    PROVE  /\ payloads' \in [Store -> SUBSET Version]
           /\ \A s \in Store, x \in Version : CanUse(s, x)' /\ ~ CanUse(s, x) => x = v /\ s \in targets
BY DEF TypeOK, PutIn, CanUse

(* The transition table leads to known states only. *)
LEMMA TransitionEffect ==
    ASSUME TypeOK, NEW c \in Contribution, NEW t \in ContributionState, Transition(c, t)
    PROVE  /\ state' \in [Contribution -> ContributionState \cup {"none"}]
           /\ state'[c] = t /\ state[c] \notin {"none", "withdrawn"}
           /\ t = "eligible" => state[c] = "reviewed"
           /\ t = "reviewed" => state[c] = "submitted"
           /\ t \in {"quarantined", "changes_requested", "rejected"} => Accepted(c)
           /\ \A d \in Contribution : d # c => state'[d] = state[d]
BY DEF TypeOK, Transition, Allowed, ContributionState, Accepted

(* A propagation: no copy comes into use, and what stays in use is owed.      *)
LEMMA PropagateEffect ==
    ASSUME TypeOK, LifecycleAssumption, NEW v \in Version, PropagateWithdrawal(v)
    PROVE  /\ payloads' \in [Store -> SUBSET Version]
           /\ withdrawn' \in [Store -> SUBSET Version]
           /\ quarantined' \in [Store -> SUBSET Version]
           /\ pending' \in [Version -> SUBSET Store]
           /\ \A s \in Store, x \in Version : CanUse(s, x)' => CanUse(s, x)
           /\ \A s \in Store : CanUse(s, v)' => s \in pending'[v]
           /\ \A x \in Version : pending[x] \subseteq pending'[x]
<1>1. PICK noWithdraw \in SUBSET Store, noQuarantine \in SUBSET Store :
        /\ Recall(v, Store, noWithdraw, noQuarantine)
        /\ pending' = [pending EXCEPT ![v] = @ \cup Owed(Store, noWithdraw, noQuarantine)]
  BY DEF PropagateWithdrawal, Failing
<1>2. Owed(Store, noWithdraw, noQuarantine) \in SUBSET Store
  BY DEF Owed
<1>3. /\ pending' \in [Version -> SUBSET Store]
      /\ pending'[v] = pending[v] \cup Owed(Store, noWithdraw, noQuarantine)
      /\ \A x \in Version : pending[x] \subseteq pending'[x]
  BY <1>1, <1>2 DEF TypeOK
<1>4. QED
  BY <1>1, <1>3, RecallEffect

--------------------------------------------------------------------------------

LEMMA InitHolds == LifecycleAssumption /\ Init => IInv
BY DEF LifecycleAssumption, Init, IInv, TypeOK, WithdrawnIsRecalled, UseWasPermitted,
       ReviewedUnderModeration, OnRecord, CanUse, Consent, Accepted

(* The two withdrawals differ only in how they start: all that matters is     *)
(* that consent ends, the contribution is withdrawn and the stores are told.  *)
LEMMA RevokePreserves ==
    ASSUME LifecycleAssumption, IInv, NEW c \in Contribution, RevokeAndWithdraw(c)
    PROVE  IInv'
<1> DEFINE v == CardOf[c]
<1>1. v \in Version
  BY DEF LifecycleAssumption
<1>2. /\ state' \in [Contribution -> ContributionState \cup {"none"}]
      /\ state'[c] = "withdrawn"
      /\ \A d \in Contribution : d # c => state'[d] = state[d]
  BY TransitionEffect DEF RevokeAndWithdraw, IInv, ContributionState
<1>3. /\ payloads' \in [Store -> SUBSET Version]
      /\ withdrawn' \in [Store -> SUBSET Version]
      /\ quarantined' \in [Store -> SUBSET Version]
      /\ pending' \in [Version -> SUBSET Store]
      /\ \A s \in Store, x \in Version : CanUse(s, x)' => CanUse(s, x)
      /\ \A s \in Store : CanUse(s, v)' => s \in pending'[v]
      /\ \A x \in Version : pending[x] \subseteq pending'[x]
  BY <1>1, PropagateEffect DEF RevokeAndWithdraw, IInv
<1>4. /\ ledger' \in [Version -> Consent]
      /\ ledger'[v] = "withdrawn"
      /\ \A x \in Version : x # v => ledger'[x] = ledger[x]
      /\ permissions' = permissions
  BY <1>1 DEF RevokeAndWithdraw, IInv, TypeOK, Consent
<1>5. TypeOK'
  BY <1>2, <1>3, <1>4 DEF IInv, TypeOK
<1>6. WithdrawnIsRecalled'
  <2> SUFFICES ASSUME NEW d \in Contribution, NEW s \in Store,
                      state'[d] = "withdrawn", CanUse(s, CardOf[d])'
               PROVE  s \in pending'[CardOf[d]]
    BY DEF WithdrawnIsRecalled
  <2>1. CASE CardOf[d] = v
    BY <1>3, <2>1
  <2>2. CASE CardOf[d] # v
    <3>1. state[d] = "withdrawn" /\ CardOf[d] \in Version
      BY <1>2, <2>2 DEF LifecycleAssumption
    <3>2. s \in pending[CardOf[d]]
      BY <1>3, <3>1 DEF IInv, WithdrawnIsRecalled
    <3>3. QED
      BY <1>3, <3>1, <3>2
  <2>3. QED
    BY <2>1, <2>2
<1>7. UseWasPermitted'
  BY <1>2, <1>3, <1>4 DEF IInv, UseWasPermitted
<1>8. ReviewedUnderModeration'
  BY <1>2, <1>4 DEF IInv, ReviewedUnderModeration, Accepted
<1>9. OnRecord'
  BY <1>2, <1>3, <1>4, <1>1 DEF IInv, OnRecord, LifecycleAssumption
<1>10. QED
  BY <1>5, <1>6, <1>7, <1>8, <1>9 DEF IInv

(* A submission puts copies only while the consent stands and allows it.      *)
LEMMA SubmitPreserves ==
    ASSUME LifecycleAssumption, IInv, NEW c \in Contribution, Submit(c) \/ SubmitPutFails(c)
    PROVE  IInv'
<1> DEFINE v == CardOf[c]
<1>1. v \in Version
  BY DEF LifecycleAssumption
<1>2. /\ UNCHANGED <<ledger, permissions, withdrawn, quarantined, pending>>
      /\ ledger[v] = "granted" /\ "review" \in permissions[v]
      /\ Transition(c, "submitted")
  BY DEF Submit, SubmitPutFails, Granted, consentVars
<1>3. PICK targets \in SUBSET Store :
        PutIn(targets, v) /\ (targets # {} => "storage" \in permissions[v])
  <2>1. CASE Submit(c)
    BY <2>1 DEF Submit
  <2>2. CASE SubmitPutFails(c)
    BY <2>2 DEF SubmitPutFails, Granted
  <2>3. QED
    BY <2>1, <2>2
<1>4. /\ state' \in [Contribution -> ContributionState \cup {"none"}]
      /\ state'[c] = "submitted" /\ state[c] \notin {"none", "withdrawn"}
      /\ \A d \in Contribution : d # c => state'[d] = state[d]
  BY <1>2, TransitionEffect DEF IInv, ContributionState
<1>5. /\ payloads' \in [Store -> SUBSET Version]
      /\ \A s \in Store, x \in Version : CanUse(s, x)' /\ ~ CanUse(s, x) => x = v /\ s \in targets
  BY <1>1, <1>2, <1>3, PutEffect DEF IInv
<1>6. TypeOK'
  BY <1>2, <1>4, <1>5 DEF IInv, TypeOK
<1>7. WithdrawnIsRecalled'
  <2> SUFFICES ASSUME NEW d \in Contribution, NEW s \in Store,
                      state'[d] = "withdrawn", CanUse(s, CardOf[d])'
               PROVE  s \in pending'[CardOf[d]]
    BY DEF WithdrawnIsRecalled
  <2>1. state[d] = "withdrawn" /\ ledger[CardOf[d]] = "withdrawn" /\ CardOf[d] \in Version
    BY <1>4 DEF IInv, OnRecord, LifecycleAssumption
  <2>2. CanUse(s, CardOf[d])
    BY <1>2, <1>5, <2>1
  <2>3. QED
    BY <1>2, <2>1, <2>2 DEF IInv, WithdrawnIsRecalled
<1>8. UseWasPermitted'
  BY <1>2, <1>3, <1>4, <1>5 DEF IInv, UseWasPermitted
<1>9. ReviewedUnderModeration'
  BY <1>2, <1>4 DEF IInv, ReviewedUnderModeration, Accepted
<1>10. OnRecord'
  BY <1>2, <1>4, <1>5 DEF IInv, OnRecord
<1>11. QED
  BY <1>6, <1>7, <1>8, <1>9, <1>10 DEF IInv

(* Quarantine and the decisions of review only move the contribution along,   *)
(* and never bring a copy into use.                                           *)
LEMMA MovePreserves ==
    ASSUME LifecycleAssumption, IInv, NEW c \in Contribution, Quarantine(c) \/ Review(c)
    PROVE  IInv'
<1>1. /\ UNCHANGED <<ledger, permissions, pending>>
      /\ ledger[CardOf[c]] = "granted"
  BY DEF Quarantine, Review, MarkReviewed, RequestChanges, Reject, MarkEligible, Granted, consentVars
<1>2. /\ payloads' \in [Store -> SUBSET Version]
      /\ withdrawn' \in [Store -> SUBSET Version]
      /\ quarantined' \in [Store -> SUBSET Version]
      /\ \A s \in Store, x \in Version : CanUse(s, x)' => CanUse(s, x)
  <2>1. CASE Quarantine(c)
    BY <2>1, RecallEffect DEF Quarantine, Failing, IInv, LifecycleAssumption
  <2>2. CASE Review(c)
    BY <2>2 DEF Review, MarkReviewed, RequestChanges, Reject, MarkEligible, storeVars, IInv, TypeOK, CanUse
  <2>3. QED
    BY <2>1, <2>2
<1>3. PICK t \in {"quarantined", "reviewed", "changes_requested", "rejected", "eligible"} :
        /\ Transition(c, t)
        /\ t = "reviewed" => "moderation" \in permissions[CardOf[c]]
        /\ t = "eligible" => {"reuse", "distribution"} \subseteq permissions[CardOf[c]]
  BY DEF Quarantine, Review, MarkReviewed, RequestChanges, Reject, MarkEligible, Granted
<1>4. /\ state' \in [Contribution -> ContributionState \cup {"none"}]
      /\ state'[c] = t /\ state[c] \notin {"none", "withdrawn"}
      /\ Accepted(c)
      /\ t = "eligible" => state[c] = "reviewed"
      /\ \A d \in Contribution : d # c => state'[d] = state[d]
  BY <1>3, TransitionEffect DEF IInv, ContributionState, Accepted
<1>5. "review" \in permissions[CardOf[c]]
  BY <1>4 DEF IInv, ReviewedUnderModeration
<1>6. TypeOK'
  BY <1>1, <1>2, <1>4 DEF IInv, TypeOK
<1>7. WithdrawnIsRecalled'
  BY <1>1, <1>2, <1>4 DEF IInv, WithdrawnIsRecalled, LifecycleAssumption
<1>8. UseWasPermitted'
  BY <1>1, <1>2, <1>3, <1>4 DEF IInv, UseWasPermitted, ReviewedUnderModeration
<1>9. ReviewedUnderModeration'
  BY <1>1, <1>3, <1>4, <1>5 DEF IInv, ReviewedUnderModeration, Accepted
<1>10. OnRecord'
  BY <1>1, <1>2, <1>4 DEF IInv, OnRecord
<1>11. QED
  BY <1>6, <1>7, <1>8, <1>9, <1>10 DEF IInv

(* A retry takes a store off the list only when it has let go of the copy.    *)
LEMMA RetryPreserves ==
    ASSUME LifecycleAssumption, IInv, NEW v \in Version, RetryPendingWithdrawals(v)
    PROVE  IInv'
<1>1. UNCHANGED <<ledger, permissions, state>>
  BY DEF RetryPendingWithdrawals, consentVars
<1>2. PICK noWithdraw \in SUBSET Store, noQuarantine \in SUBSET Store :
        /\ Recall(v, pending[v], noWithdraw, noQuarantine)
        /\ pending' = [pending EXCEPT ![v] = Owed(@, noWithdraw, noQuarantine)]
  BY DEF RetryPendingWithdrawals, Failing
<1>3. pending[v] \in SUBSET Store
  BY DEF IInv, TypeOK
<1>4. /\ payloads' \in [Store -> SUBSET Version]
      /\ withdrawn' \in [Store -> SUBSET Version]
      /\ quarantined' \in [Store -> SUBSET Version]
      /\ \A s \in Store, x \in Version : CanUse(s, x)' => CanUse(s, x)
      /\ \A s \in pending[v] : CanUse(s, v)' => s \in Owed(pending[v], noWithdraw, noQuarantine)
  BY <1>2, <1>3, RecallEffect DEF IInv
<1>5. /\ pending' \in [Version -> SUBSET Store]
      /\ pending'[v] = Owed(pending[v], noWithdraw, noQuarantine)
      /\ \A x \in Version : x # v => pending'[x] = pending[x]
  BY <1>2, <1>3 DEF IInv, TypeOK, Owed
<1>6. TypeOK'
  BY <1>1, <1>4, <1>5 DEF IInv, TypeOK
<1>7. WithdrawnIsRecalled'
  BY <1>1, <1>4, <1>5 DEF IInv, WithdrawnIsRecalled, LifecycleAssumption
<1>8. UseWasPermitted' /\ ReviewedUnderModeration' /\ OnRecord'
  BY <1>1, <1>4 DEF IInv, UseWasPermitted, ReviewedUnderModeration, OnRecord, Accepted
<1>9. QED
  BY <1>6, <1>7, <1>8 DEF IInv

(* Giving consent concerns a version nothing exists of; drafting and          *)
(* withdrawing consent touch no store.                                        *)
LEMMA ConsentPreserves ==
    ASSUME LifecycleAssumption, IInv,
           \/ \E v \in Version : Grant(v) \/ WithdrawConsent(v)
           \/ \E c \in Contribution : Draft(c)
    PROVE  IInv'
<1>1. CASE \E v \in Version : Grant(v)
  <2>1. PICK v \in Version : Grant(v)
    BY <1>1
  <2>2. /\ ledger' \in [Version -> Consent] /\ permissions' \in [Version -> SUBSET Permission]
        /\ ledger[v] = "none" /\ ledger'[v] = "granted"
        /\ \A x \in Version : x # v => ledger'[x] = ledger[x] /\ permissions'[x] = permissions[x]
        /\ UNCHANGED <<state, payloads, withdrawn, quarantined, pending>>
    BY <2>1 DEF Grant, IInv, TypeOK, Consent, LifecycleAssumption
  <2>3. TypeOK'
    BY <2>2 DEF IInv, TypeOK
  <2>4. WithdrawnIsRecalled' /\ OnRecord'
    BY <2>2 DEF IInv, WithdrawnIsRecalled, OnRecord, CanUse, LifecycleAssumption
  <2>5. UseWasPermitted' /\ ReviewedUnderModeration'
    BY <2>2 DEF IInv, UseWasPermitted, ReviewedUnderModeration, OnRecord, CanUse, Accepted, LifecycleAssumption
  <2>6. QED
    BY <2>3, <2>4, <2>5 DEF IInv
<1>2. CASE \E v \in Version : WithdrawConsent(v)
  BY <1>2 DEF WithdrawConsent, IInv, TypeOK, WithdrawnIsRecalled, UseWasPermitted,
              ReviewedUnderModeration, OnRecord, CanUse, Consent, Accepted, LifecycleAssumption
<1>3. CASE \E c \in Contribution : Draft(c)
  BY <1>3 DEF Draft, IInv, TypeOK, WithdrawnIsRecalled, UseWasPermitted, ReviewedUnderModeration,
              OnRecord, CanUse, ContributionState, Accepted, consentVars, storeVars, LifecycleAssumption
<1>4. QED
  BY <1>1, <1>2, <1>3

LEMMA StepHolds == LifecycleAssumption /\ IInv /\ [Next]_lifecycleVars => IInv'
<1> SUFFICES ASSUME LifecycleAssumption, IInv, [Next]_lifecycleVars PROVE IInv'
  OBVIOUS
<1>1. CASE \E v \in Version : Grant(v) \/ WithdrawConsent(v) \/ RetryPendingWithdrawals(v)
  BY <1>1, ConsentPreserves, RetryPreserves
<1>2. ASSUME NEW c \in Contribution,
             \/ Draft(c) \/ Submit(c) \/ SubmitPutFails(c) \/ SubmitUnreviewable(c)
             \/ ConsentLapsed(c) \/ Quarantine(c) \/ Withdraw(c) \/ Review(c)
      PROVE  IInv'
  <2>1. CASE Draft(c)
    BY <2>1, ConsentPreserves
  <2>2. CASE Submit(c) \/ SubmitPutFails(c)
    BY <2>2, SubmitPreserves
  <2>3. CASE SubmitUnreviewable(c) \/ ConsentLapsed(c) \/ Withdraw(c)
    BY <2>3, RevokePreserves DEF SubmitUnreviewable, ConsentLapsed, Withdraw
  <2>4. CASE Quarantine(c) \/ Review(c)
    BY <2>4, MovePreserves
  <2>5. QED
    BY <1>2, <2>1, <2>2, <2>3, <2>4
<1>3. CASE UNCHANGED lifecycleVars
  BY <1>3 DEF lifecycleVars, IInv, TypeOK, WithdrawnIsRecalled, UseWasPermitted,
              ReviewedUnderModeration, OnRecord, CanUse, Accepted
<1>4. QED
  BY <1>1, <1>2, <1>3 DEF Next, Unreviewed

--------------------------------------------------------------------------------

THEOREM Invariance == Spec => []IInv
<1>1. LifecycleAssumption
  BY LifecycleAssumption
<1>2. QED
  BY <1>1, InitHolds, StepHolds, PTL DEF Spec

(* Every reachable state of the service is well-typed. *)
THEOREM TypeCorrect == Spec => []TypeOK
BY Invariance, PTL DEF IInv

(* A withdrawn contribution's version is in use nowhere but at stores that    *)
(* are still owed the withdrawal.                                             *)
THEOREM Recalled == Spec => []WithdrawnIsRecalled
BY Invariance, PTL DEF IInv

(* Copies in use and eligible contributions rest on their permissions. *)
THEOREM Permitted == Spec => []UseWasPermitted
BY Invariance, PTL DEF IInv

(* What a step may do once consent is withdrawn. *)
FinalStep(v) ==
    /\ ledger'[v] = "withdrawn"
    /\ \A s \in Store : CanUse(s, v)' => CanUse(s, v)
    /\ \A c \in Contribution : CardOf[c] = v /\ state'[c] # state[c] => state'[c] = "withdrawn"

(* Withdrawn consent is final: no step brings the version back into use or    *)
(* moves a contribution of it anywhere but to withdrawn.                      *)
THEOREM Final == Spec => NoNewUse
<1>1. LifecycleAssumption
  BY LifecycleAssumption
<1>2. ASSUME IInv, Next, NEW v \in Version, ledger[v] = "withdrawn"
      PROVE  FinalStep(v)
  <2>1. ASSUME NEW x \in Version, Grant(x) \/ WithdrawConsent(x)
        PROVE  FinalStep(v)
    BY <1>2, <2>1 DEF FinalStep, Grant, WithdrawConsent, IInv, TypeOK, CanUse
  <2>2. ASSUME NEW x \in Version, RetryPendingWithdrawals(x)
        PROVE  FinalStep(v)
    <3>1. PICK noWithdraw \in SUBSET Store, noQuarantine \in SUBSET Store :
            Recall(x, pending[x], noWithdraw, noQuarantine)
      BY <2>2 DEF RetryPendingWithdrawals, Failing
    <3>2. pending[x] \in SUBSET Store
      BY <1>2 DEF IInv, TypeOK
    <3>3. \A s \in Store : CanUse(s, v)' => CanUse(s, v)
      BY <1>2, <3>1, <3>2, RecallEffect DEF IInv
    <3>4. QED
      BY <1>2, <2>2, <3>3 DEF FinalStep, RetryPendingWithdrawals, consentVars
  <2>3. ASSUME NEW c \in Contribution, RevokeAndWithdraw(c)
        PROVE  FinalStep(v)
    <3>1. CardOf[c] \in Version
      BY <1>1 DEF LifecycleAssumption
    <3>2. \A s \in Store : CanUse(s, v)' => CanUse(s, v)
      BY <1>1, <1>2, <2>3, <3>1, PropagateEffect DEF RevokeAndWithdraw, IInv
    <3>3. \A d \in Contribution : state'[d] # state[d] => state'[d] = "withdrawn"
      BY <1>2, <2>3, TransitionEffect DEF RevokeAndWithdraw, IInv, ContributionState
    <3>4. ledger'[v] = "withdrawn"
      BY <1>2, <2>3, <3>1 DEF RevokeAndWithdraw, IInv, TypeOK
    <3>5. QED
      BY <3>2, <3>3, <3>4 DEF FinalStep
  <2>4. ASSUME NEW c \in Contribution,
               Draft(c) \/ Submit(c) \/ SubmitPutFails(c) \/ Quarantine(c) \/ Review(c)
        PROVE  FinalStep(v)
    <3>1. /\ ledger[CardOf[c]] = "granted" /\ CardOf[c] # v /\ CardOf[c] \in Version
          /\ ledger' = ledger
      BY <1>1, <1>2, <2>4 DEF Draft, Submit, SubmitPutFails, Quarantine, Review, MarkReviewed,
           RequestChanges, Reject, MarkEligible, Granted, consentVars, LifecycleAssumption
    <3>2. \A d \in Contribution : d # c => state'[d] = state[d]
      BY <1>2, <2>4 DEF Draft, Submit, SubmitPutFails, Quarantine, Review, MarkReviewed,
           RequestChanges, Reject, MarkEligible, Transition, IInv, TypeOK
    <3>3. \A s \in Store : CanUse(s, v)' => CanUse(s, v)
      <4>1. CASE Submit(c) \/ SubmitPutFails(c)
        <5>1. PICK targets \in SUBSET Store : PutIn(targets, CardOf[c])
          BY <4>1 DEF Submit, SubmitPutFails
        <5>2. QED
          BY <1>2, <3>1, <4>1, <5>1, PutEffect DEF Submit, SubmitPutFails, IInv
      <4>2. CASE Quarantine(c)
        BY <1>2, <3>1, <4>2, RecallEffect, <1>1 DEF Quarantine, Failing, IInv, LifecycleAssumption
      <4>3. CASE Draft(c) \/ Review(c)
        BY <4>3 DEF Draft, Review, MarkReviewed, RequestChanges, Reject, MarkEligible, storeVars, CanUse
      <4>4. QED
        BY <2>4, <4>1, <4>2, <4>3
    <3>4. QED
      BY <1>2, <3>1, <3>2, <3>3 DEF FinalStep
  <2>5. QED
    BY <1>2, <2>1, <2>2, <2>3, <2>4 DEF Next, Unreviewed, SubmitUnreviewable, ConsentLapsed, Withdraw
<1>3. IInv /\ [Next]_lifecycleVars =>
        [\A v \in Version : ledger[v] = "withdrawn" => FinalStep(v)]_lifecycleVars
  BY <1>2
<1>4. Spec => [][\A v \in Version : ledger[v] = "withdrawn" => FinalStep(v)]_lifecycleVars
  BY <1>3, Invariance, PTL DEF Spec
<1>5. QED
  BY <1>4 DEF NoNewUse, FinalStep
--------------------------------------------------------------------------------
(* Moderation. *)

(* Only the guards of approve make an attestation. *)
Attested ==
    \A v \in Version : attestation[v] # NoAttestation =>
        attestation[v].reviewer \in Reviewer /\ attestation[v].reviewer # attestation[v].contributor

(* An earlier case was reported, and the version it is about attested. *)
EarlierReported ==
    \A k \in Case : earlier[k] => caseState[k] # "none"

MInv == ModerationTypeOK /\ Attested /\ DecidedByAnother /\ EarlierReported /\ EarlierCasesAreClosed

--------------------------------------------------------------------------------

LEMMA ModeratedStep == [ModeratedNext]_moderatedVars => [Next]_lifecycleVars
BY DEF ModeratedNext, moderatedVars, Next, ModeratedReview, Approve, ReportAbuse, ResolveAbuseCase

(* Reviewing under moderation is one way to run the lifecycle. *)
THEOREM Implements == ModeratedSpec => Spec
BY ModeratedStep, PTL DEF ModeratedSpec, ModeratedInit, Spec

(* So what holds of every lifecycle holds of the moderated one: a withdrawn   *)
(* version is in use only where its withdrawal is still owed ...              *)
THEOREM ModeratedRecalled == ModeratedSpec => []WithdrawnIsRecalled
BY Implements, Recalled, PTL

(* ... copies and eligible contributions rest on their permissions ...        *)
THEOREM ModeratedPermitted == ModeratedSpec => []UseWasPermitted
BY Implements, Permitted, PTL

(* ... and withdrawn consent is final. *)
THEOREM ModeratedFinal == ModeratedSpec => NoNewUse
BY Implements, Final, PTL

--------------------------------------------------------------------------------

(* Nothing but a review moves a contribution to a decided state. *)
LEMMA UndecidedStays ==
    ASSUME TypeOK, LifecycleAssumption, Unreviewed, NEW c \in Contribution, Decided(c)'
    PROVE  Decided(c)
<1>1. CASE \E v \in Version : Grant(v) \/ WithdrawConsent(v) \/ RetryPendingWithdrawals(v)
  BY <1>1 DEF Grant, WithdrawConsent, RetryPendingWithdrawals, Decided, TypeOK
<1>2. ASSUME NEW d \in Contribution, NEW t \in {"draft", "submitted", "quarantined", "withdrawn"},
             state' = [state EXCEPT ![d] = t]
      PROVE  Decided(c)
  BY <1>2 DEF Decided, TypeOK
<1>3. ASSUME NEW d \in Contribution,
             \/ Draft(d) \/ Submit(d) \/ SubmitPutFails(d) \/ SubmitUnreviewable(d)
             \/ ConsentLapsed(d) \/ Quarantine(d) \/ Withdraw(d)
      PROVE  Decided(c)
  BY <1>3, <1>2 DEF Draft, Submit, SubmitPutFails, SubmitUnreviewable, ConsentLapsed, Quarantine,
       Withdraw, RevokeAndWithdraw, Transition
<1>4. QED
  BY <1>1, <1>3 DEF Unreviewed

LEMMA ModerationInit == ModerationAssumption /\ LifecycleAssumption /\ ModeratedInit => MInv
BY DEF ModerationAssumption, LifecycleAssumption, ModeratedInit, Init, MInv, ModerationTypeOK,
       Attested, DecidedByAnother, EarlierReported, EarlierCasesAreClosed, Decided, Open, Closing

(* An attestation stands for good, and no other is touched. *)
LEMMA ApproveHolds ==
    ASSUME ModerationAssumption, LifecycleAssumption, MInv, NEW v \in Version, Approve(v)
    PROVE  MInv'
<1>1. PICK reviewer \in Reviewer, contributor \in Person :
        LET a == [reviewer |-> reviewer, contributor |-> contributor]
        IN  /\ a # NoAttestation /\ reviewer # contributor
            /\ attestation' = [attestation EXCEPT ![v] = a]
  BY DEF Approve, Verified
<1> DEFINE a == [reviewer |-> reviewer, contributor |-> contributor]
<1>2. a \in Attestation /\ a.reviewer = reviewer /\ a.contributor = contributor
  BY DEF ModerationAssumption, Attestation
<1>3. /\ attestation'[v] = a
      /\ \A x \in Version : x # v => attestation'[x] = attestation[x]
      /\ attestation' \in [Version -> Attestation \cup {NoAttestation}]
  BY <1>1, <1>2 DEF MInv, ModerationTypeOK
<1>4. /\ \A k \in Case : About[k] = v => ~ Open(k)
      /\ attestation[v] = NoAttestation
      /\ state' = state /\ caseState' = caseState
  BY DEF Approve, NoOpenCase, lifecycleVars
<1>5. /\ earlier' \in [Case -> BOOLEAN]
      /\ \A k \in Case : earlier'[k] => earlier[k] \/ (About[k] = v /\ caseState[k] # "none")
  BY DEF Approve, MInv, ModerationTypeOK
<1>6. ModerationTypeOK'
  BY <1>3, <1>4, <1>5 DEF MInv, ModerationTypeOK
<1>7. Attested'
  BY <1>1, <1>2, <1>3 DEF MInv, Attested
<1>8. DecidedByAnother'
  BY <1>1, <1>2, <1>3, <1>4 DEF MInv, DecidedByAnother, Decided, LifecycleAssumption
<1>9. EarlierReported'
  BY <1>4, <1>5 DEF MInv, EarlierReported
<1>10. EarlierCasesAreClosed'
  <2> SUFFICES ASSUME NEW k \in Case, Open(k)', attestation'[About[k]] # NoAttestation, earlier'[k]
               PROVE  FALSE
    BY <1>4 DEF EarlierCasesAreClosed
  <2>1. Open(k) /\ About[k] # v /\ About[k] \in Version
    BY <1>4 DEF Open, ModerationAssumption
  <2>2. QED
    BY <1>3, <1>5, <2>1 DEF MInv, EarlierCasesAreClosed
<1>11. QED
  BY <1>6, <1>7, <1>8, <1>9, <1>10 DEF MInv

LEMMA ReportHolds ==
    ASSUME MInv, NEW k \in Case, ReportAbuse(k)
    PROVE  MInv'
<1>1. /\ state' = state /\ attestation' = attestation
      /\ caseState' = [caseState EXCEPT ![k] = "open"] /\ earlier' = [earlier EXCEPT ![k] = FALSE]
  BY DEF ReportAbuse, lifecycleVars
<1>2. ModerationTypeOK' /\ Attested' /\ DecidedByAnother'
  BY <1>1 DEF MInv, ModerationTypeOK, Attested, DecidedByAnother, Decided
<1>3. EarlierReported' /\ EarlierCasesAreClosed'
  BY <1>1 DEF MInv, ModerationTypeOK, EarlierReported, EarlierCasesAreClosed, Open
<1>4. QED
  BY <1>2, <1>3 DEF MInv

LEMMA ResolveHolds ==
    ASSUME MInv, NEW k \in Case, ResolveAbuseCase(k)
    PROVE  MInv'
<1>1. PICK to \in Closing : caseState' = [caseState EXCEPT ![k] = to]
  BY DEF ResolveAbuseCase
<1>2. state' = state /\ attestation' = attestation /\ earlier' = earlier
  BY DEF ResolveAbuseCase, lifecycleVars
<1>3. ModerationTypeOK' /\ Attested' /\ DecidedByAnother'
  BY <1>1, <1>2 DEF MInv, ModerationTypeOK, Attested, DecidedByAnother, Decided, Closing
<1>4. EarlierReported' /\ EarlierCasesAreClosed'
  BY <1>1, <1>2 DEF MInv, ModerationTypeOK, EarlierReported, EarlierCasesAreClosed, Open, Closing
<1>5. QED
  BY <1>3, <1>4 DEF MInv

LEMMA ReviewHolds ==
    ASSUME LifecycleAssumption, TypeOK, MInv, NEW c \in Contribution, ModeratedReview(c)
    PROVE  MInv'
<1>1. /\ attestation' = attestation /\ caseState' = caseState /\ earlier' = earlier
      /\ attestation[CardOf[c]] # NoAttestation /\ CardOf[c] \in Version
  BY DEF ModeratedReview, moderationVars, Trusted, Verified, LifecycleAssumption
<1>2. \A d \in Contribution : d # c => state'[d] = state[d]
  BY DEF ModeratedReview, Review, MarkReviewed, RequestChanges, Reject, MarkEligible, Transition, TypeOK
<1>3. DecidedByAnother'
  BY <1>1, <1>2 DEF MInv, DecidedByAnother, Decided, Attested
<1>4. QED
  BY <1>1, <1>3 DEF MInv, ModerationTypeOK, Attested, EarlierReported, EarlierCasesAreClosed, Open

LEMMA ModerationStep ==
    ASSUME ModerationAssumption, LifecycleAssumption, TypeOK, MInv, [ModeratedNext]_moderatedVars
    PROVE  MInv'
<1>1. CASE UNCHANGED moderatedVars
  BY <1>1 DEF moderatedVars, moderationVars, lifecycleVars, MInv, ModerationTypeOK, Attested,
       DecidedByAnother, Decided, EarlierReported, EarlierCasesAreClosed, Open
<1>2. CASE Unreviewed /\ UNCHANGED moderationVars
  <2>1. \A c \in Contribution : Decided(c)' => Decided(c)
    BY <1>2, UndecidedStays
  <2>2. QED
    BY <1>2, <2>1 DEF moderationVars, MInv, ModerationTypeOK, Attested, DecidedByAnother,
         EarlierReported, EarlierCasesAreClosed, Open
<1>3. QED
  BY <1>1, <1>2, ApproveHolds, ReportHolds, ResolveHolds, ReviewHolds DEF ModeratedNext

THEOREM ModerationInvariance == ModeratedSpec => []MInv
<1>1. ModerationAssumption /\ LifecycleAssumption
  BY ModerationAssumption, LifecycleAssumption
<1>2. ModeratedSpec => []TypeOK
  BY Implements, TypeCorrect, PTL
<1>3. ModeratedInit => MInv
  BY <1>1, ModerationInit
<1>4. TypeOK /\ MInv /\ [ModeratedNext]_moderatedVars => MInv'
  BY <1>1, ModerationStep
<1>5. QED
  BY <1>2, <1>3, <1>4, PTL DEF ModeratedSpec

(* Whatever was decided about a contribution, an eligible reviewer who is not *)
(* its contributor has attested the version.                                  *)
THEOREM IndependentReview == ModeratedSpec => []DecidedByAnother
BY ModerationInvariance, PTL DEF MInv

(* A version is never left attested over a case that was last reported before *)
(* that; closing a case never opens it.                                       *)
THEOREM CasesSettledFirst == ModeratedSpec => []EarlierCasesAreClosed
BY ModerationInvariance, PTL DEF MInv
================================================================================
