----------------------- MODULE ContributionJourneyProofs -----------------------
(* Proofs about ContributionJourney, for any number of edits, stores,         *)
(* permission sets and failures, and a retry at any moment: the journey never *)
(* loses the authority to revoke what the intake may hold, the close recalls  *)
(* the card unless a retry came before any withdrawal, and a withdrawal       *)
(* reported complete is complete.                                             *)
EXTENDS ContributionJourney, TLAPS

JourneyTypes ==
    /\ stage \in Stage /\ calling \in Handler
    /\ card \in Version
    /\ contribution \in Reference /\ lifecycle \in Reference
    /\ handle \in Reference /\ retryVersion \in Reference
    /\ hasIntake \in BOOLEAN /\ attempted \in BOOLEAN /\ pendingFlag \in BOOLEAN
    /\ intake \in [Version -> {"never", "held", "gone"}]

(* Up to the submission the journey has all it takes to revoke; from then on  *)
(* it keeps it for as long as a submission counts as attempted.               *)
Revocable ==
    /\ stage \in {"build", "review", "disclose", "approve", "submit"} => hasIntake
    /\ stage \notin {"withdraw", "closed"} => ~ pendingFlag
    /\ stage = "submit" => handle # NoVersion /\ lifecycle # NoVersion
    /\ attempted => handle # NoVersion /\ lifecycle # NoVersion /\ hasIntake
    /\ calling # "none" => attempted
    /\ calling = "none" /\ attempted => stage \in {"withdraw", "closed"}
    /\ calling = "submit" => stage = "submit"
    /\ calling \in {"withdraw", "retry"} => stage \in {"withdraw", "closed"}

JInv == JourneyTypes /\ Revocable /\ IntakeNeverOrphaned

LEMMA JourneyInit == Init => JInv
<1> SUFFICES ASSUME Init PROVE JInv
  OBVIOUS
<1>1. 1 \in Version
  BY JourneyAssumption DEF Version
<1>2. JourneyTypes
  BY <1>1 DEF Init, JourneyTypes, Stage, Handler, Reference
<1>3. Revocable /\ IntakeNeverOrphaned
  BY DEF Init, Revocable, IntakeNeverOrphaned
<1>4. QED
  BY <1>2, <1>3 DEF JInv

LEMMA NoVersionIsNone == NoVersion \notin Version
BY JourneyAssumption DEF NoVersion, Version

(* What the intake's answers do to what it holds. *)
LEMMA LetsGo ==
    ASSUME JourneyTypes, IntakeNeverOrphaned, handle \in Version, IntakeLetsGo
    PROVE  /\ intake' \in [Version -> {"never", "held", "gone"}]
           /\ \A v \in Version : intake'[v] # "held"
BY NoVersionIsNone DEF JourneyTypes, IntakeLetsGo, IntakeNeverOrphaned

LEMMA Silent ==
    ASSUME JourneyTypes, handle \in Version, IntakeSilent
    PROVE  /\ intake' \in [Version -> {"never", "held", "gone"}]
           /\ \A v \in Version : intake'[v] = "held" => intake[v] = "held"
BY DEF JourneyTypes, IntakeSilent, IntakeLetsGo

LEMMA BeforeSubmission ==
    ASSUME JInv, ConfigureContribution \/ Proceed \/ ApproveContribution \/ EditContribution
    PROVE  JInv'
<1>1. CASE ConfigureContribution
  BY <1>1 DEF ConfigureContribution, At, outside, JInv, JourneyTypes, Revocable, IntakeNeverOrphaned
<1>2. CASE Proceed
  BY <1>2 DEF Proceed, At, authority, outside, Stage, JInv, JourneyTypes, Revocable, IntakeNeverOrphaned
<1>3. CASE ApproveContribution
  BY <1>3, NoVersionIsNone DEF ApproveContribution, At, outside, Stage, Reference, JInv, JourneyTypes,
     Revocable, IntakeNeverOrphaned
<1>4. CASE EditContribution
  <2>1. card + 1 \in Version
    BY <1>4, JourneyAssumption DEF EditContribution, JInv, JourneyTypes, Version
  <2>2. QED
    BY <1>4, <2>1, NoVersionIsNone DEF EditContribution, outside, Stage, Reference, JInv, JourneyTypes,
       Revocable, IntakeNeverOrphaned
<1>5. QED
  BY <1>1, <1>2, <1>3, <1>4

LEMMA SubmissionPreserves == ASSUME JInv, Submission PROVE JInv'
<1>1. CASE SubmitContribution
  BY <1>1 DEF SubmitContribution, At, authority, outside, Stage, Handler, JInv, JourneyTypes, Revocable,
     IntakeNeverOrphaned
<1>2. CASE SubmitWithdraws
  BY <1>2 DEF SubmitWithdraws, At, authority, outside, Stage, JInv, JourneyTypes, Revocable,
     IntakeNeverOrphaned
<1>3. CASE SubmitBreaks
  BY <1>3 DEF SubmitBreaks, journeyVars, JInv, JourneyTypes, Revocable, IntakeNeverOrphaned
<1>4. CASE IntakeAccepts \/ IntakeUnconfirmed
  <2>1. /\ calling = "submit" /\ attempted /\ hasIntake /\ handle \in Version
        /\ stage' = "withdraw" /\ calling' = "none" /\ pendingFlag' = TRUE
        /\ UNCHANGED <<card, contribution, lifecycle, handle, retryVersion, hasIntake, attempted>>
    BY <1>4 DEF IntakeAccepts, IntakeUnconfirmed, authority, JInv, Revocable, JourneyTypes, Reference
  <2>2. intake' \in {intake, [intake EXCEPT ![handle] = "held"]}
    BY <1>4 DEF IntakeAccepts, IntakeUnconfirmed
  <2>3. /\ intake' \in [Version -> {"never", "held", "gone"}]
        /\ \A v \in Version : intake'[v] = "held" => v = handle
    BY <2>1, <2>2 DEF JInv, JourneyTypes, IntakeNeverOrphaned
  <2>4. QED
    BY <2>1, <2>3 DEF Stage, Handler, JInv, JourneyTypes, Revocable, IntakeNeverOrphaned
<1>5. QED
  BY <1>1, <1>2, <1>3, <1>4 DEF Submission

(* Every withdrawal, retry or close that hears from the intake: if it let go, *)
(* nothing is held any more, else everything needed is kept.                  *)
LEMMA WithdrawalPreserves == ASSUME JInv, Withdrawal PROVE JInv'
<1>1. CASE WithdrawContribution
  <2>1. contribution \in Version
    BY <1>1 DEF WithdrawContribution, JInv, JourneyTypes, Reference
  <2>2. /\ pendingFlag' \in BOOLEAN /\ calling' \in Handler
        /\ calling' # "none" => attempted
        /\ calling' = "none" \/ calling' = "withdraw"
        /\ stage = "withdraw" /\ stage' = stage
        /\ retryVersion' = contribution
        /\ UNCHANGED <<card, contribution, lifecycle, handle, hasIntake, attempted, intake>>
    BY <1>1 DEF WithdrawContribution, At, JInv, JourneyTypes, Handler
  <2>3. QED
    BY <2>1, <2>2 DEF JInv, JourneyTypes, Revocable, IntakeNeverOrphaned
<1>2. CASE WithdrawConfirmed
  <2>1. handle \in Version
    BY <1>2 DEF WithdrawConfirmed, JInv, Revocable, JourneyTypes, Reference
  <2>2. /\ intake' \in [Version -> {"never", "held", "gone"}]
        /\ \A v \in Version : intake'[v] # "held"
    BY <1>2, <2>1, LetsGo DEF WithdrawConfirmed, JInv
  <2>3. QED
    BY <1>2, <2>2 DEF WithdrawConfirmed, Owes, Handler, Reference, JInv, JourneyTypes, Revocable,
       IntakeNeverOrphaned
<1>3. CASE WithdrawUnconfirmed
  <2>1. handle \in Version
    BY <1>3 DEF WithdrawUnconfirmed, JInv, Revocable, JourneyTypes, Reference
  <2>2. /\ intake' \in [Version -> {"never", "held", "gone"}]
        /\ \A v \in Version : intake'[v] = "held" => intake[v] = "held"
    BY <1>3, <2>1, Silent DEF WithdrawUnconfirmed, JInv
  <2>3. QED
    BY <1>3, <2>2 DEF WithdrawUnconfirmed, authority, Handler, JInv, JourneyTypes, Revocable,
       IntakeNeverOrphaned
<1>4. QED
  BY <1>1, <1>2, <1>3 DEF Withdrawal

LEMMA RetryPreserves == ASSUME JInv, Retry PROVE JInv'
<1>1. CASE RetryPendingWithdrawal
  <2>1. /\ calling = "none" /\ stage \in {"withdraw", "closed"}
        /\ UNCHANGED <<stage, card, contribution, attempted, intake>>
    BY <1>1 DEF RetryPendingWithdrawal, JInv, JourneyTypes, Revocable
  <2>2. CASE attempted
    BY <1>1, <2>1, <2>2 DEF RetryPendingWithdrawal, retryVars, Handler, JInv, JourneyTypes, Revocable, IntakeNeverOrphaned
  <2>3. CASE ~ attempted
    <3>1. calling' = "none" /\ Receipt
      BY <1>1, <2>3 DEF RetryPendingWithdrawal
    <3>2. /\ handle' \in Reference /\ lifecycle' \in Reference /\ retryVersion' \in Reference
          /\ hasIntake' \in BOOLEAN /\ pendingFlag' \in BOOLEAN
      BY <3>1 DEF Receipt, retryVars, Reference, JInv, JourneyTypes
    <3>3. JourneyTypes'
      BY <2>1, <3>1, <3>2 DEF Handler, JInv, JourneyTypes
    <3>4. Revocable' /\ IntakeNeverOrphaned'
      BY <2>1, <2>3, <3>1 DEF Receipt, retryVars, JInv, Revocable, IntakeNeverOrphaned
    <3>5. QED
      BY <3>3, <3>4 DEF JInv
  <2>4. QED
    BY <2>2, <2>3
<1>2. CASE RetryConfirmed
  <2>1. handle \in Version
    BY <1>2 DEF RetryConfirmed, JInv, Revocable, JourneyTypes, Reference
  <2>2. /\ intake' \in [Version -> {"never", "held", "gone"}]
        /\ \A v \in Version : intake'[v] # "held"
    BY <1>2, <2>1, LetsGo DEF RetryConfirmed, JInv
  <2>3. QED
    BY <1>2, <2>2 DEF RetryConfirmed, Receipt, retryVars, Handler, Reference, JInv, JourneyTypes, Revocable,
       IntakeNeverOrphaned
<1>3. CASE RetryUnconfirmed
  <2>1. handle \in Version
    BY <1>3 DEF RetryUnconfirmed, JInv, Revocable, JourneyTypes, Reference
  <2>2. /\ intake' \in [Version -> {"never", "held", "gone"}]
        /\ \A v \in Version : intake'[v] = "held" => intake[v] = "held"
    BY <1>3, <2>1, Silent DEF RetryUnconfirmed, JInv
  <2>3. QED
    BY <1>3, <2>2 DEF RetryUnconfirmed, authority, Handler, JInv, JourneyTypes, Revocable,
       IntakeNeverOrphaned
<1>4. QED
  BY <1>1, <1>2, <1>3 DEF Retry

LEMMA ClosingPreserves == ASSUME JInv, Closing PROVE JInv'
<1>1. CASE Close
  <2>1. ~ attempted
    BY <1>1 DEF Close, JInv, Revocable
  <2>2. /\ pendingFlag' \in BOOLEAN /\ retryVersion' \in Reference
        /\ UNCHANGED <<card, attempted, intake>>
    BY <1>1 DEF Close, outside, JInv, JourneyTypes, Reference
  <2>3. /\ stage' = "closed" /\ calling' = "none" /\ contribution' = NoVersion
        /\ lifecycle' \in Reference /\ handle' \in Reference /\ hasIntake' \in BOOLEAN
    BY <1>1 DEF Close, Clear, JInv, JourneyTypes, Reference
  <2>4. QED
    BY <2>1, <2>2, <2>3 DEF Stage, Handler, Reference, JInv, JourneyTypes, Revocable, IntakeNeverOrphaned
<1>2. CASE CloseSubmitted
  BY <1>2 DEF CloseSubmitted, outside, Handler, JInv, JourneyTypes, Revocable, IntakeNeverOrphaned
<1>3. CASE CloseConfirmed
  <2>1. handle \in Version
    BY <1>3 DEF CloseConfirmed, JInv, Revocable, JourneyTypes, Reference
  <2>2. /\ intake' \in [Version -> {"never", "held", "gone"}]
        /\ \A v \in Version : intake'[v] # "held"
    BY <1>3, <2>1, LetsGo DEF CloseConfirmed, JInv
  <2>3. /\ attempted' = FALSE /\ pendingFlag' \in BOOLEAN /\ retryVersion' \in Reference /\ card' = card
    BY <1>3 DEF CloseConfirmed, Owes, JInv, JourneyTypes, Reference
  <2>4. /\ stage' = "closed" /\ calling' = "none" /\ contribution' = NoVersion
        /\ lifecycle' \in Reference /\ handle' \in Reference /\ hasIntake' \in BOOLEAN
    BY <1>3 DEF CloseConfirmed, Clear, JInv, JourneyTypes, Reference
  <2>5. QED
    BY <2>2, <2>3, <2>4 DEF Stage, Handler, Reference, JInv, JourneyTypes, Revocable, IntakeNeverOrphaned
<1>4. CASE CloseUnconfirmed
  <2>1. handle \in Version
    BY <1>4 DEF CloseUnconfirmed, JInv, Revocable, JourneyTypes, Reference
  <2>2. /\ intake' \in [Version -> {"never", "held", "gone"}]
        /\ \A v \in Version : intake'[v] = "held" => intake[v] = "held"
    BY <1>4, <2>1, Silent DEF CloseUnconfirmed, JInv
  <2>3. /\ stage' = "closed" /\ calling' = "none" /\ contribution' = NoVersion /\ pendingFlag' = TRUE
        /\ UNCHANGED <<card, retryVersion, attempted, hasIntake, lifecycle, handle>>
    BY <1>4 DEF CloseUnconfirmed, Clear
  <2>4. QED
    BY <2>2, <2>3 DEF Stage, Handler, Reference, JInv, JourneyTypes, Revocable, IntakeNeverOrphaned
<1>5. QED
  BY <1>1, <1>2, <1>3, <1>4 DEF Closing

LEMMA JourneyStep == JInv /\ [Next]_vars => JInv'
<1>1. JInv /\ UNCHANGED vars => JInv'
  BY DEF vars, journeyVars, JInv, JourneyTypes, Revocable, IntakeNeverOrphaned
<1>2. QED
  BY <1>1, BeforeSubmission, SubmissionPreserves, WithdrawalPreserves, RetryPreserves, ClosingPreserves
  DEF Next

(* While the intake may hold bytes, the journey keeps the handle, the port    *)
(* and the mark that it sent them.                                            *)
THEOREM NeverOrphaned == Spec => []IntakeNeverOrphaned
<1>1. Spec => []JInv
  BY JourneyInit, JourneyStep, PTL DEF Spec
<1>2. QED
  BY <1>1, PTL DEF JInv

--------------------------------------------------------------------------------
(* What the stores have in use. *)

Using == [v \in Version |-> {s \in Store : CanUse(s, v)}]

StoreTypes ==
    /\ ledger \in [Version -> Lifecycle!Consent]
    /\ state \in [Version -> Lifecycle!ContributionState \cup {"none"}]
    /\ payloads \in [Store -> SUBSET Version]
    /\ withdrawn \in [Store -> SUBSET Version]
    /\ quarantined \in [Store -> SUBSET Version]
    /\ pending \in [Version -> SUBSET Store]

(* A withdrawn version is in use only at stores that are owed.                *)
WithdrawnIsOwed ==
    \A v \in Version : state[v] = "withdrawn" =>
        ledger[v] = "withdrawn" /\ Using[v] \subseteq pending[v]

StoreInv == StoreTypes /\ WithdrawnIsOwed

LEMMA UsingIs == ASSUME NEW v \in Version PROVE Using[v] = {s \in Store : CanUse(s, v)}
BY DEF Using

(* A pass over some stores brings no copy into use, and a store of the pass   *)
(* with a copy left in use refused both calls.                                *)
LEMMA RecallEffect ==
    ASSUME StoreTypes, NEW v \in Version, NEW target \in SUBSET Store,
           NEW noWithdraw \in SUBSET Store, NEW noQuarantine \in SUBSET Store,
           Lifecycle!Recall(v, target, noWithdraw, noQuarantine)
    PROVE  /\ payloads' \in [Store -> SUBSET Version]
           /\ withdrawn' \in [Store -> SUBSET Version]
           /\ quarantined' \in [Store -> SUBSET Version]
           /\ \A x \in Version : Using'[x] \subseteq Using[x]
           /\ Using'[v] \cap target \subseteq noWithdraw \cap noQuarantine
BY DEF StoreTypes, Lifecycle!Recall, Using, CanUse, Lifecycle!CanUse

LEMMA FailingIsStores ==
    ASSUME NEW operation, NEW failing \in Lifecycle!Failing(operation)
    PROVE  failing \in SUBSET Store
BY DEF Lifecycle!Failing

(* Withdrawing a version, by request or for want of the review permission.    *)
LEMMA WithdrawalEffect ==
    ASSUME StoreInv, NEW v \in Version,
           WithdrawLocally(v) \/ Lifecycle!SubmitUnreviewable(v)
    PROVE  /\ StoreInv'
           /\ state'[v] = "withdrawn"
           /\ \A x \in Version : x # v => state'[x] = state[x]
           /\ \A x \in Version : ledger[x] = "withdrawn" => ledger'[x] = "withdrawn"
           /\ \A x \in Version : Using'[x] \subseteq Using[x]
<1>1. CASE state[v] = "withdrawn"
  <2>1. UNCHANGED lifecycleVars
    BY <1>1 DEF WithdrawLocally, Lifecycle!Withdraw, Lifecycle!SubmitUnreviewable, Lifecycle!Active
  <2>2. Using' = Using
    BY <2>1 DEF lifecycleVars, Using, CanUse, Lifecycle!CanUse
  <2>3. QED
    BY <1>1, <2>1, <2>2 DEF lifecycleVars, StoreInv, StoreTypes, WithdrawnIsOwed
<1>2. CASE state[v] # "withdrawn"
  <2>1. Lifecycle!RevokeAndWithdraw(v)
    BY <1>2 DEF WithdrawLocally, Lifecycle!Withdraw, Lifecycle!SubmitUnreviewable
  <2>2. /\ ledger' = [ledger EXCEPT ![v] = "withdrawn"]
        /\ state' = [state EXCEPT ![v] = "withdrawn"]
    BY <2>1 DEF Lifecycle!RevokeAndWithdraw, Lifecycle!Transition
  <2>3. PICK noWithdraw \in SUBSET Store, noQuarantine \in SUBSET Store :
          /\ Lifecycle!Recall(v, Store, noWithdraw, noQuarantine)
          /\ pending' = [pending EXCEPT ![v] =
                           @ \cup Lifecycle!Owed(Store, noWithdraw, noQuarantine)]
    BY <2>1, FailingIsStores DEF Lifecycle!RevokeAndWithdraw, Lifecycle!PropagateWithdrawal
  <2>4. /\ payloads' \in [Store -> SUBSET Version]
        /\ withdrawn' \in [Store -> SUBSET Version]
        /\ quarantined' \in [Store -> SUBSET Version]
        /\ \A x \in Version : Using'[x] \subseteq Using[x]
        /\ Using'[v] \cap Store \subseteq noWithdraw \cap noQuarantine
    BY <2>3, RecallEffect DEF StoreInv
  <2>5. StoreTypes'
    BY <2>2, <2>3, <2>4 DEF StoreInv, StoreTypes, Lifecycle!Owed, Lifecycle!Consent,
       Lifecycle!ContributionState
  <2>6. Using'[v] \subseteq pending'[v]
    <3>1. Using'[v] \subseteq Store
      BY DEF Using
    <3>2. noWithdraw \cap noQuarantine \subseteq pending'[v]
      BY <2>3 DEF StoreInv, StoreTypes, Lifecycle!Owed
    <3>3. QED
      BY <2>4, <3>1, <3>2
  <2>7. WithdrawnIsOwed'
    BY <2>2, <2>3, <2>4, <2>6 DEF StoreInv, StoreTypes, WithdrawnIsOwed
  <2>8. QED
    BY <2>2, <2>4, <2>5, <2>7 DEF StoreInv, StoreTypes
<1>3. QED
  BY <1>1, <1>2

(* A retry takes a store off the list only when it has let go of the copy.    *)
LEMMA RetryEffect ==
    ASSUME StoreInv, retryVersion \in Reference, RetryStores
    PROVE  /\ StoreInv'
           /\ UNCHANGED <<ledger, state>>
           /\ \A x \in Version : Using'[x] \subseteq Using[x]
<1>1. CASE ~ (lifecycle # NoVersion /\ Owes(retryVersion))
  <2>1. UNCHANGED lifecycleVars
    BY <1>1 DEF RetryStores
  <2>2. Using' = Using
    BY <2>1 DEF lifecycleVars, Using, CanUse, Lifecycle!CanUse
  <2>3. QED
    BY <2>1, <2>2 DEF lifecycleVars, StoreInv, StoreTypes, WithdrawnIsOwed
<1>2. CASE lifecycle # NoVersion /\ Owes(retryVersion)
  <2>0. PICK v \in Version : v = retryVersion
    BY <1>2 DEF Owes, Reference
  <2>1. PICK owed \in SUBSET Store : owed = pending[v]
    BY DEF StoreInv, StoreTypes
  <2>2. PICK noWithdraw \in SUBSET Store, noQuarantine \in SUBSET Store :
          /\ Lifecycle!Recall(v, owed, noWithdraw, noQuarantine)
          /\ pending' = [pending EXCEPT ![v] = Lifecycle!Owed(@, noWithdraw, noQuarantine)]
          /\ UNCHANGED <<ledger, state>>
    BY <1>2, <2>0, <2>1, FailingIsStores DEF Lifecycle!Recall, RetryStores, Lifecycle!RetryPendingWithdrawals,
       Lifecycle!consentVars
  <2>3. /\ payloads' \in [Store -> SUBSET Version]
        /\ withdrawn' \in [Store -> SUBSET Version]
        /\ quarantined' \in [Store -> SUBSET Version]
        /\ \A x \in Version : Using'[x] \subseteq Using[x]
        /\ Using'[v] \cap owed \subseteq noWithdraw \cap noQuarantine
    BY <2>2, RecallEffect DEF StoreInv
  <2>4. StoreTypes'
    BY <2>1, <2>2, <2>3 DEF StoreInv, StoreTypes, Lifecycle!Owed
  <2>5. /\ pending'[v] = pending[v] \cap noWithdraw \cap noQuarantine
        /\ pending[v] = owed
        /\ \A x \in Version : x # v => pending'[x] = pending[x]
    BY <2>1, <2>2 DEF StoreInv, StoreTypes, Lifecycle!Owed
  <2>6. WithdrawnIsOwed'
    <3> SUFFICES ASSUME NEW x \in Version, state'[x] = "withdrawn"
                 PROVE  ledger'[x] = "withdrawn" /\ Using'[x] \subseteq pending'[x]
      BY DEF WithdrawnIsOwed
    <3>1. ledger[x] = "withdrawn" /\ Using[x] \subseteq pending[x]
      BY <2>2 DEF StoreInv, WithdrawnIsOwed
    <3>2. CASE x = v
      BY <2>2, <2>3, <2>5, <3>1, <3>2
    <3>3. CASE x # v
      BY <2>2, <2>3, <2>5, <3>1, <3>3
    <3>4. QED
      BY <3>2, <3>3
  <2>7. QED
    BY <2>2, <2>3, <2>4, <2>6 DEF StoreInv
<1>3. QED
  BY <1>1, <1>2

(* A submission brings copies of its own version into use only.               *)
LEMMA SubmitEffect ==
    ASSUME StoreInv, NEW v \in Version, Lifecycle!Submit(v) \/ Lifecycle!SubmitPutFails(v)
    PROVE  /\ StoreInv'
           /\ state[v] # "withdrawn" /\ UNCHANGED ledger
           /\ \A x \in Version : x # v => state'[x] = state[x] /\ Using'[x] \subseteq Using[x]
<1>1. /\ UNCHANGED <<ledger, withdrawn, quarantined, pending>>
      /\ state[v] # "withdrawn" /\ state' = [state EXCEPT ![v] = "submitted"]
  BY DEF Lifecycle!Submit, Lifecycle!SubmitPutFails, Lifecycle!consentVars, Lifecycle!Transition,
         Lifecycle!Allowed
<1>2. PICK targets \in SUBSET Store : Lifecycle!PutIn(targets, v)
  BY DEF Lifecycle!Submit, Lifecycle!SubmitPutFails
<1>3. /\ payloads' \in [Store -> SUBSET Version]
      /\ \A x \in Version : x # v => Using'[x] \subseteq Using[x]
  BY <1>1, <1>2 DEF Lifecycle!PutIn, Using, CanUse, Lifecycle!CanUse, StoreInv, StoreTypes
<1>4. StoreTypes'
  BY <1>1, <1>3 DEF StoreInv, StoreTypes, Lifecycle!ContributionState
<1>5. WithdrawnIsOwed'
  BY <1>1, <1>3 DEF StoreInv, StoreTypes, WithdrawnIsOwed
<1>6. QED
  BY <1>1, <1>3, <1>4, <1>5 DEF StoreInv, StoreTypes

LEMMA QuarantineEffect ==
    ASSUME StoreInv, NEW v \in Version, Lifecycle!Quarantine(v)
    PROVE  /\ StoreInv'
           /\ state[v] # "withdrawn" /\ UNCHANGED ledger
           /\ \A x \in Version : x # v => state'[x] = state[x]
           /\ \A x \in Version : Using'[x] \subseteq Using[x]
<1>1. /\ UNCHANGED <<ledger, pending>>
      /\ state[v] # "withdrawn" /\ state' = [state EXCEPT ![v] = "quarantined"]
  BY DEF Lifecycle!Quarantine, Lifecycle!consentVars, Lifecycle!Transition, Lifecycle!Allowed
<1>2. PICK noQuarantine \in SUBSET Store : Lifecycle!Recall(v, Store, Store, noQuarantine)
  BY FailingIsStores DEF Lifecycle!Quarantine
<1>3. /\ payloads' \in [Store -> SUBSET Version]
      /\ withdrawn' \in [Store -> SUBSET Version]
      /\ quarantined' \in [Store -> SUBSET Version]
      /\ \A x \in Version : Using'[x] \subseteq Using[x]
  BY <1>2, RecallEffect DEF StoreInv
<1>4. StoreTypes'
  BY <1>1, <1>3 DEF StoreInv, StoreTypes, Lifecycle!ContributionState
<1>5. WithdrawnIsOwed'
  BY <1>1, <1>3 DEF StoreInv, StoreTypes, WithdrawnIsOwed
<1>6. QED
  BY <1>1, <1>3, <1>4, <1>5 DEF StoreInv, StoreTypes

--------------------------------------------------------------------------------
(* What the journey keeps of the card on the table. *)

Early == {"map", "build", "review", "disclose", "approve"}

(* The references are to the card or to nothing; nothing newer is in use or   *)
(* reported.                                                                  *)
References ==
    /\ contribution \in {card, NoVersion} /\ lifecycle \in {card, NoVersion}
    /\ handle \in {card, NoVersion} /\ retryVersion \in {card, NoVersion}
    /\ \A v \in Version : v > card => Using[v] = {}
    /\ receipted \subseteq Version /\ \A v \in receipted : v <= card
    /\ calledBack \subseteq Version /\ \A v \in calledBack : v <= card

(* Which stage leaves which of them, until the close.                         *)
Staged ==
    /\ stage \in Early => contribution = NoVersion /\ lifecycle = NoVersion /\ Using[card] = {}
    /\ stage = "submit" => contribution = card /\ lifecycle = card
    /\ stage \in Early \cup {"submit"} => retryVersion = NoVersion /\ card \notin receipted \cup calledBack
    /\ stage = "withdraw" => contribution = card
    /\ stage = "withdraw" /\ lifecycle = NoVersion =>
           card \in receipted \cup calledBack /\ ~ pendingFlag

(* A version to retry was withdrawn here; nothing is reported while the       *)
(* intake may still hold it.                                                  *)
RetryAfterWithdrawal ==
    /\ retryVersion # NoVersion => state[card] = "withdrawn"
    /\ calling \in {"withdraw", "close"} => stage = "withdraw" /\ retryVersion = card
    /\ attempted => card \notin receipted \cup calledBack

CardRecalled ==
    stage = "closed" /\ card \notin calledBack =>
        /\ Using[card] \subseteq pending[card]
        /\ Using[card] # {} => pendingFlag /\ lifecycle = card /\ retryVersion = card

ReportedRecalled == \A v \in receipted : ledger[v] = "withdrawn" /\ Using[v] = {}

CardInv == References /\ Staged /\ RetryAfterWithdrawal /\ CardRecalled /\ ReportedRecalled

RInv == StoreInv /\ CardInv

USE NoVersionIsNone

(* The steps that leave stores, ledger and lifecycle alone. *)
LEMMA SameStores ==
    ASSUME StoreInv, UNCHANGED lifecycleVars
    PROVE  StoreInv' /\ Using' = Using /\ UNCHANGED <<ledger, state, pending>>
<1>1. Using' = Using
  BY DEF lifecycleVars, Using, CanUse, Lifecycle!CanUse
<1>2. QED
  BY <1>1 DEF lifecycleVars, StoreInv, StoreTypes, WithdrawnIsOwed

LEMMA EarlySteps ==
    ASSUME JInv, RInv, ConfigureContribution \/ Proceed \/ ApproveContribution \/ EditContribution
    PROVE  RInv'
<1> USE DEF RInv, CardInv
<1>1. CASE ConfigureContribution
  BY <1>1, SameStores DEF ConfigureContribution, At, outside, Early, References, Staged,
     RetryAfterWithdrawal, CardRecalled, ReportedRecalled
<1>2. CASE Proceed
  BY <1>2, SameStores DEF Proceed, At, authority, outside, Early, References, Staged,
     RetryAfterWithdrawal, CardRecalled, ReportedRecalled
<1>3. CASE ApproveContribution
  <2>1. card \in Version /\ stage = "approve" /\ calling = "none"
    BY <1>3 DEF ApproveContribution, At, JInv, JourneyTypes
  <2>2. /\ ledger' = [ledger EXCEPT ![card] = "granted"]
        /\ state' = [state EXCEPT ![card] = "draft"]
        /\ UNCHANGED <<payloads, withdrawn, quarantined, pending>>
    BY <1>3 DEF ApproveContribution
  <2>3. Using' = Using
    BY <2>2 DEF Using, CanUse, Lifecycle!CanUse
  <2>4. StoreInv'
    BY <2>1, <2>2, <2>3 DEF StoreInv, StoreTypes, WithdrawnIsOwed, Lifecycle!Consent,
       Lifecycle!ContributionState
  <2>5. card \notin receipted \cup calledBack /\ retryVersion = NoVersion
    BY <2>1 DEF Staged, Early
  <2>6. \A v \in receipted : ledger'[v] = ledger[v]
    BY <2>2, <2>5 DEF StoreInv, StoreTypes, References
  <2>7. QED
    BY <1>3, <2>1, <2>3, <2>4, <2>5, <2>6 DEF ApproveContribution, outside, Early, References,
       Staged, RetryAfterWithdrawal, CardRecalled, ReportedRecalled
<1>4. CASE EditContribution
  <2>1. /\ card \in Version /\ card + 1 \in Version /\ card' = card + 1
        /\ stage' = "review" /\ calling = "none" /\ stage # "withdraw" /\ stage # "closed"
    BY <1>4, JourneyAssumption DEF EditContribution, JInv, JourneyTypes, Version
  <2>2. /\ ledger' \in {ledger, [ledger EXCEPT ![card] = "withdrawn"]}
        /\ UNCHANGED <<state, payloads, withdrawn, quarantined, pending>>
    BY <1>4 DEF EditContribution
  <2>3. Using' = Using
    BY <2>2 DEF Using, CanUse, Lifecycle!CanUse
  <2>4. /\ StoreInv'
        /\ \A v \in Version : ledger[v] = "withdrawn" => ledger'[v] = "withdrawn"
    BY <2>1, <2>2, <2>3 DEF StoreInv, StoreTypes, WithdrawnIsOwed, Lifecycle!Consent
  <2>5. /\ card + 1 \notin receipted \cup calledBack /\ Using[card + 1] = {}
        /\ \A v \in Version : v > card + 1 => v > card
        /\ \A v \in receipted \cup calledBack : v <= card + 1
    BY <2>1, JourneyAssumption DEF References, Version
  <2>6. /\ contribution' = NoVersion /\ lifecycle' = NoVersion /\ handle' = NoVersion
        /\ retryVersion' = NoVersion /\ attempted' = FALSE /\ calling' = "none"
        /\ receipted' = receipted /\ calledBack' = calledBack
    BY <1>4, <2>1 DEF EditContribution, outside
  <2>7. References'
    <3>1. \A x \in Version : x > card' => Using'[x] = {}
      BY <2>1, <2>3, <2>5 DEF References
    <3>2. /\ receipted' \subseteq Version /\ \A x \in receipted' : x <= card'
          /\ calledBack' \subseteq Version /\ \A x \in calledBack' : x <= card'
      BY <2>1, <2>5, <2>6 DEF References
    <3>3. QED
      BY <2>6, <3>1, <3>2 DEF References
  <2>8. Using'[card'] = {} /\ card' \notin receipted' \cup calledBack'
    BY <2>1, <2>3, <2>5, <2>6
  <2>9. Staged' /\ RetryAfterWithdrawal' /\ CardRecalled'
    BY <2>1, <2>6, <2>8 DEF Staged, RetryAfterWithdrawal, CardRecalled, Early
  <2>10. ReportedRecalled'
    BY <2>3, <2>4, <2>6 DEF References, ReportedRecalled
  <2>11. QED
    BY <2>4, <2>7, <2>9, <2>10
<1>5. QED
  BY <1>1, <1>2, <1>3, <1>4

LEMMA SubmissionSteps ==
    ASSUME JInv, RInv, Submission
    PROVE  RInv'
<1> USE DEF RInv, CardInv
<1> DEFINE v == card
<1>0. v \in Version
  BY DEF JInv, JourneyTypes
<1>1. ASSUME At("submit")
      PROVE  /\ contribution = v /\ lifecycle = v /\ retryVersion = NoVersion
             /\ v \notin receipted \cup calledBack /\ stage = "submit" /\ calling = "none"
  BY <1>1 DEF At, Staged, Early
<1>2. CASE SubmitContribution \/ SubmitBreaks
  <2>1. At("submit") /\ (Lifecycle!Submit(v) \/ Lifecycle!SubmitPutFails(v))
    BY <1>1, <1>2 DEF SubmitContribution, SubmitBreaks
  <2>2. /\ StoreInv' /\ ledger' = ledger
        /\ \A x \in Version : x # v => state'[x] = state[x] /\ Using'[x] \subseteq Using[x]
    BY <1>0, <2>1, SubmitEffect
  <2>3. /\ stage' = stage /\ card' = card /\ calling' \in {"submit", "none"}
        /\ UNCHANGED <<contribution, lifecycle, handle, retryVersion, pendingFlag, receipted, calledBack>>
    BY <1>1, <1>2, <2>1 DEF SubmitContribution, SubmitBreaks, journeyVars, authority, outside
  <2>4. \A x \in Version : x > v => x # v
    BY <1>0 DEF Version
  <2>5. QED
    BY <1>0, <1>1, <2>1, <2>2, <2>3, <2>4 DEF Early, References, Staged, RetryAfterWithdrawal,
       CardRecalled, ReportedRecalled
<1>3. CASE SubmitWithdraws
  <2>1. At("submit") /\ Lifecycle!SubmitUnreviewable(v)
    BY <1>1, <1>3 DEF SubmitWithdraws
  <2>2. /\ StoreInv'
        /\ \A x \in Version : ledger[x] = "withdrawn" => ledger'[x] = "withdrawn"
        /\ \A x \in Version : Using'[x] \subseteq Using[x]
    BY <1>0, <2>1, WithdrawalEffect
  <2>3. QED
    BY <1>0, <1>1, <1>3, <2>1, <2>2 DEF SubmitWithdraws, authority, outside, Early, References,
       Staged, RetryAfterWithdrawal, CardRecalled, ReportedRecalled
<1>4. CASE IntakeAccepts \/ IntakeUnconfirmed
  <2>1. calling = "submit" /\ stage = "submit" /\ contribution = v /\ lifecycle = v
        /\ retryVersion = NoVersion /\ v \notin receipted \cup calledBack
    BY <1>4 DEF IntakeAccepts, IntakeUnconfirmed, JInv, Revocable, Staged, Early
  <2>2. /\ stage' = "withdraw" /\ calling' = "none" /\ card' = card
        /\ UNCHANGED <<contribution, lifecycle, handle, retryVersion, attempted, receipted,
                       calledBack>>
    BY <1>4 DEF IntakeAccepts, IntakeUnconfirmed, authority
  <2>3. UNCHANGED lifecycleVars \/ Lifecycle!Quarantine(v)
    BY <1>4, <2>1 DEF IntakeAccepts, IntakeUnconfirmed
  <2>4. /\ StoreInv' /\ ledger' = ledger
        /\ \A x \in Version : Using'[x] \subseteq Using[x]
    BY <1>0, <2>3, SameStores, QuarantineEffect
  <2>5. QED
    BY <1>0, <2>1, <2>2, <2>4 DEF Early, References, Staged, RetryAfterWithdrawal,
       CardRecalled, ReportedRecalled
<1>5. QED
  BY <1>2, <1>3, <1>4 DEF Submission

LEMMA WithdrawalSteps ==
    ASSUME JInv, RInv, Withdrawal
    PROVE  RInv'
<1> USE DEF RInv, CardInv
<1>0. card \in Version
  BY DEF JInv, JourneyTypes
<1>1. CASE WithdrawContribution
  <2>1. stage = "withdraw" /\ calling = "none" /\ contribution = card /\ lifecycle = card
    BY <1>1 DEF WithdrawContribution, At, References
  <2>2. WithdrawLocally(card)
    BY <1>1, <2>1 DEF WithdrawContribution
  <2>3. /\ StoreInv' /\ state'[card] = "withdrawn"
        /\ \A x \in Version : ledger[x] = "withdrawn" => ledger'[x] = "withdrawn"
        /\ \A x \in Version : Using'[x] \subseteq Using[x]
    BY <1>0, <2>2, WithdrawalEffect
  <2>4. ledger'[card] = "withdrawn" /\ Using'[card] \subseteq pending'[card]
    BY <1>0, <2>3 DEF StoreInv, WithdrawnIsOwed
  <2>5. /\ stage' = stage /\ card' = card /\ retryVersion' = card
        /\ UNCHANGED <<contribution, lifecycle, handle, attempted, calledBack>>
        /\ calling' \in {"none", "withdraw"}
        /\ \/ attempted /\ receipted' = receipted
           \/ ~ attempted /\ receipted' = receipted
           \/ ~ attempted /\ receipted' = receipted \cup {card} /\ pending'[card] = {}
    BY <1>1, <2>1 DEF WithdrawContribution
  <2>6. \A x \in Version : x > card => x # card
    BY <1>0 DEF Version
  <2>7. card <= card
    BY <1>0 DEF Version
  <2>8. QED
    BY <1>0, <2>1, <2>3, <2>4, <2>5, <2>6, <2>7 DEF Early, References, Staged,
       RetryAfterWithdrawal, CardRecalled, ReportedRecalled
<1>2. CASE WithdrawConfirmed
  <2>1. /\ calling = "withdraw" /\ stage = "withdraw" /\ contribution = card /\ retryVersion = card
        /\ lifecycle = card /\ state[card] = "withdrawn"
    BY <1>2 DEF WithdrawConfirmed, Staged, RetryAfterWithdrawal, JInv, Revocable, References
  <2>2. /\ StoreInv' /\ Using' = Using /\ UNCHANGED <<ledger, state, pending>>
    BY <1>2, SameStores DEF WithdrawConfirmed
  <2>3. ledger[card] = "withdrawn" /\ Using[card] \subseteq pending[card]
    BY <1>0, <2>1 DEF StoreInv, WithdrawnIsOwed
  <2>4. /\ stage' = stage /\ card' = card /\ calling' = "none" /\ attempted' = FALSE
        /\ UNCHANGED <<contribution, lifecycle, calledBack>>
        /\ \/ UNCHANGED <<handle, retryVersion, receipted>>
           \/ /\ handle' = NoVersion /\ retryVersion' = NoVersion
              /\ receipted' = receipted \cup {card} /\ pending[card] = {}
    <3>1. card # NoVersion /\ Owes(contribution) = Owes(card)
      BY <1>0, <2>1
    <3>2. CASE Owes(card)
      BY <1>2, <3>1, <3>2 DEF WithdrawConfirmed
    <3>3. CASE ~ Owes(card)
      BY <1>2, <2>1, <3>1, <3>3 DEF WithdrawConfirmed, Owes
    <3>4. QED
      BY <3>2, <3>3
  <2>5. card <= card
    BY <1>0 DEF Version
  <2>6. QED
    BY <1>0, <2>1, <2>2, <2>3, <2>4, <2>5 DEF Early, References, Staged,
       RetryAfterWithdrawal, CardRecalled, ReportedRecalled
<1>3. CASE WithdrawUnconfirmed
  <2>1. calling = "withdraw" /\ stage = "withdraw" /\ lifecycle = card
    BY <1>3 DEF WithdrawUnconfirmed, RetryAfterWithdrawal, JInv, Revocable, References
  <2>2. QED
    BY <1>0, <1>3, <2>1, SameStores DEF WithdrawUnconfirmed, authority, Early, References, Staged,
       RetryAfterWithdrawal, CardRecalled, ReportedRecalled
<1>4. QED
  BY <1>1, <1>2, <1>3 DEF Withdrawal

(* The end of a retry: it reports a withdrawn card no store is owed, or one    *)
(* that was never withdrawn.                                                  *)
LEMMA ReceiptEffect ==
    ASSUME JInv, RInv, StoreInv', UNCHANGED <<ledger, state, stage, card, contribution>>,
           \A x \in Version : Using'[x] \subseteq Using[x],
           stage \in {"withdraw", "closed"},
           attempted' = FALSE, calling' = "none", Receipt
    PROVE  RInv'
<1> USE DEF RInv, CardInv
<1>1. card \in Version /\ card <= card
  BY DEF JInv, JourneyTypes, Version
<1>2. retryVersion # NoVersion =>
        /\ retryVersion = card /\ state'[card] = "withdrawn" /\ ledger'[card] = "withdrawn"
        /\ Using'[card] \subseteq pending'[card]
  BY <1>1 DEF References, RetryAfterWithdrawal, StoreInv, WithdrawnIsOwed
<1>3. retryVersion = NoVersion /\ stage = "closed" /\ card \notin calledBack => Using'[card] = {}
  BY <1>1 DEF CardRecalled
<1>4. CASE UNCHANGED retryVars
  BY <1>1, <1>2, <1>3, <1>4 DEF retryVars, Early, References, Staged, RetryAfterWithdrawal,
     CardRecalled, ReportedRecalled
<1>5. CASE /\ retryVersion # NoVersion
           /\ receipted' = receipted \cup {handle} /\ calledBack' = calledBack
           /\ pendingFlag' = FALSE
           /\ handle' = NoVersion /\ lifecycle' = NoVersion /\ retryVersion' = NoVersion
           /\ handle # NoVersion /\ pending'[retryVersion] = {}
  <2>1. handle = card
    BY <1>5 DEF References
  <2>2. Using'[card] = {}
    BY <1>2, <1>5
  <2>3. QED
    BY <1>1, <1>2, <1>5, <2>1, <2>2 DEF Early, References, Staged, RetryAfterWithdrawal,
       CardRecalled, ReportedRecalled
<1>6. CASE /\ retryVersion = NoVersion
           /\ calledBack' = calledBack \cup {handle} /\ receipted' = receipted
           /\ pendingFlag' = FALSE
           /\ handle' = NoVersion /\ lifecycle' = NoVersion /\ retryVersion' = NoVersion
           /\ handle # NoVersion
  <2>1. handle = card
    BY <1>6 DEF References
  <2>2. QED
    BY <1>1, <1>6, <2>1 DEF Early, References, Staged, RetryAfterWithdrawal, CardRecalled,
       ReportedRecalled
<1>7. QED
  BY <1>4, <1>5, <1>6 DEF Receipt, StillOwed

LEMMA RetrySteps ==
    ASSUME JInv, RInv, Retry
    PROVE  RInv'
<1> USE DEF RInv, CardInv
<1>0. card \in Version
  BY DEF JInv, JourneyTypes
<1>1. CASE RetryPendingWithdrawal
  <2>1. /\ StoreInv' /\ UNCHANGED <<ledger, state>>
        /\ \A x \in Version : Using'[x] \subseteq Using[x]
    BY <1>1, RetryEffect DEF RetryPendingWithdrawal, JInv, JourneyTypes
  <2>2. /\ stage \in {"withdraw", "closed"} /\ pendingFlag
        /\ UNCHANGED <<stage, card, contribution, attempted>>
    BY <1>1 DEF RetryPendingWithdrawal, JInv, Revocable
  <2>3. CASE attempted
    <3>1. calling' = "retry" /\ UNCHANGED retryVars
      BY <1>1, <2>3 DEF RetryPendingWithdrawal
    <3>2. retryVersion # NoVersion => retryVersion = card /\ state'[card] = "withdrawn"
      BY <2>1 DEF References, RetryAfterWithdrawal
    <3>3. retryVersion # NoVersion => Using'[card] \subseteq pending'[card]
      BY <1>0, <2>1, <3>2 DEF StoreInv, WithdrawnIsOwed
    <3>4. retryVersion = NoVersion /\ stage = "closed" /\ card \notin calledBack => Using'[card] = {}
      BY <1>0, <2>1 DEF CardRecalled
    <3>5. QED
      BY <1>0, <2>1, <2>2, <2>3, <3>1, <3>2, <3>3, <3>4 DEF retryVars, Early, References, Staged,
         RetryAfterWithdrawal, CardRecalled, ReportedRecalled
  <2>4. CASE ~ attempted
    <3>1. calling' = "none" /\ attempted' = FALSE /\ Receipt
      BY <1>1, <2>2, <2>4 DEF RetryPendingWithdrawal, JInv, JourneyTypes
    <3>2. QED
      BY <2>1, <2>2, <3>1, ReceiptEffect
  <2>5. QED
    BY <2>3, <2>4
<1>2. CASE RetryConfirmed
  <2>1. /\ stage \in {"withdraw", "closed"}
        /\ attempted' = FALSE /\ calling' = "none" /\ Receipt
        /\ UNCHANGED <<stage, card, contribution>>
    BY <1>2 DEF RetryConfirmed, JInv, Revocable
  <2>2. /\ StoreInv' /\ Using' = Using /\ UNCHANGED <<ledger, state>>
    BY <1>2, SameStores DEF RetryConfirmed
  <2>3. QED
    BY <2>1, <2>2, ReceiptEffect
<1>3. CASE RetryUnconfirmed
  BY <1>0, <1>3, SameStores DEF RetryUnconfirmed, authority, Early, References, Staged,
     RetryAfterWithdrawal, CardRecalled, ReportedRecalled
<1>4. QED
  BY <1>1, <1>2, <1>3 DEF Retry

(* A session that ends: the card is withdrawn, was never in use, or had its   *)
(* lifecycle dropped by a retry before any withdrawal.                        *)
LEMMA ClosingSteps ==
    ASSUME JInv, RInv, Closing
    PROVE  RInv'
<1> USE DEF RInv, CardInv
<1>0. card \in Version
  BY DEF JInv, JourneyTypes
<1>1. CASE Close /\ contribution # NoVersion /\ lifecycle # NoVersion
  <2>1. contribution = card /\ lifecycle = card /\ WithdrawLocally(card) /\ stage # "closed"
    BY <1>1 DEF Close, References
  <2>2. /\ StoreInv' /\ state'[card] = "withdrawn"
        /\ \A x \in Version : ledger[x] = "withdrawn" => ledger'[x] = "withdrawn"
        /\ \A x \in Version : Using'[x] \subseteq Using[x]
    BY <1>0, <2>1, WithdrawalEffect
  <2>3. Using'[card] \subseteq pending'[card]
    BY <1>0, <2>2 DEF StoreInv, WithdrawnIsOwed
  <2>4. /\ stage' = "closed" /\ calling' = "none" /\ contribution' = NoVersion
        /\ UNCHANGED <<card, attempted, receipted, calledBack>>
        /\ pending'[card] # {} => pendingFlag'
        /\ pendingFlag' => retryVersion' = card /\ lifecycle' = lifecycle /\ handle' = handle
        /\ ~ pendingFlag' => /\ retryVersion' = NoVersion /\ lifecycle' = NoVersion
                             /\ handle' = NoVersion
    BY <1>1, <2>1 DEF Close, Clear, outside
  <2>5. QED
    BY <1>0, <2>1, <2>2, <2>3, <2>4 DEF Early, References, Staged, RetryAfterWithdrawal,
       CardRecalled, ReportedRecalled
<1>2. CASE Close /\ ~ (contribution # NoVersion /\ lifecycle # NoVersion)
  <2>1. /\ StoreInv' /\ Using' = Using /\ UNCHANGED <<ledger, state, pending>>
    BY <1>2, SameStores DEF Close
  <2>2. Using[card] = {} \/ card \in calledBack
    <3>1. stage \in Early \/ (stage = "withdraw" /\ lifecycle = NoVersion)
      BY <1>0, <1>2 DEF Close, Staged, Early, JInv, JourneyTypes, Stage
    <3>2. QED
      BY <3>1 DEF Staged, ReportedRecalled
  <2>3. /\ stage' = "closed" /\ calling' = "none" /\ contribution' = NoVersion
        /\ UNCHANGED <<card, attempted, receipted, calledBack>>
        /\ retryVersion' \in {retryVersion, NoVersion}
        /\ lifecycle' \in {lifecycle, NoVersion} /\ handle' \in {handle, NoVersion}
    BY <1>2 DEF Close, Clear, outside
  <2>4. QED
    BY <1>0, <2>1, <2>2, <2>3 DEF Early, References, Staged, RetryAfterWithdrawal,
       CardRecalled, ReportedRecalled
<1>3. CASE CloseSubmitted
  <2>1. contribution = card /\ lifecycle = card /\ WithdrawLocally(card)
        /\ stage = "withdraw" /\ stage' = stage
    BY <1>3 DEF CloseSubmitted, References, JInv, Revocable
  <2>2. /\ StoreInv' /\ state'[card] = "withdrawn"
        /\ \A x \in Version : ledger[x] = "withdrawn" => ledger'[x] = "withdrawn"
        /\ \A x \in Version : Using'[x] \subseteq Using[x]
    BY <1>0, <2>1, WithdrawalEffect
  <2>3. QED
    BY <1>0, <1>3, <2>1, <2>2 DEF CloseSubmitted, outside, Early, References, Staged,
       RetryAfterWithdrawal, CardRecalled, ReportedRecalled
<1>4. CASE CloseConfirmed \/ CloseUnconfirmed
  <2>1. /\ calling = "close" /\ stage = "withdraw" /\ retryVersion = card
        /\ contribution = card /\ lifecycle = card /\ state[card] = "withdrawn"
    BY <1>4 DEF CloseConfirmed, CloseUnconfirmed, Staged, RetryAfterWithdrawal, JInv, Revocable,
       References
  <2>2. /\ StoreInv' /\ Using' = Using /\ UNCHANGED <<ledger, state, pending>>
    BY <1>4, SameStores DEF CloseConfirmed, CloseUnconfirmed
  <2>3. Using[card] \subseteq pending[card]
    BY <1>0, <2>1 DEF StoreInv, WithdrawnIsOwed
  <2>4. /\ stage' = "closed" /\ calling' = "none" /\ contribution' = NoVersion
        /\ UNCHANGED <<card, receipted, calledBack>> /\ (attempted' => attempted)
        /\ pending[card] # {} => pendingFlag'
        /\ pendingFlag' => retryVersion' = card /\ lifecycle' = lifecycle /\ handle' = handle
        /\ ~ pendingFlag' => /\ retryVersion' = NoVersion /\ lifecycle' = NoVersion
                             /\ handle' = NoVersion
    <3>1. card # NoVersion /\ Owes(contribution) = Owes(card)
      BY <1>0, <2>1
    <3>2. CASE CloseConfirmed
      <4>1. /\ pendingFlag' = Owes(card) /\ attempted' = FALSE /\ Clear
            /\ retryVersion' = IF pendingFlag' THEN card ELSE NoVersion
            /\ UNCHANGED <<card, receipted, calledBack>>
        BY <2>1, <3>1, <3>2 DEF CloseConfirmed
      <4>2. QED
        BY <2>1, <3>1, <4>1 DEF Clear, Owes
    <3>3. CASE CloseUnconfirmed
      BY <2>1, <3>3 DEF CloseUnconfirmed, Clear
    <3>4. QED
      BY <1>4, <3>2, <3>3
  <2>5. References' /\ Staged' /\ ReportedRecalled'
    BY <1>0, <2>1, <2>2, <2>4 DEF Early, References, Staged, ReportedRecalled
  <2>6. RetryAfterWithdrawal'
    BY <2>1, <2>2, <2>4, Zenon DEF RetryAfterWithdrawal
  <2>7. CardRecalled'
    BY <2>1, <2>2, <2>3, <2>4 DEF CardRecalled
  <2>8. QED
    BY <2>2, <2>5, <2>6, <2>7
<1>5. QED
  BY <1>1, <1>2, <1>3, <1>4 DEF Closing

LEMMA RecallInit == Init => RInv
<1> SUFFICES ASSUME Init PROVE RInv
  OBVIOUS
<1>1. StoreTypes
  BY DEF Init, Lifecycle!Init, StoreTypes, Lifecycle!Consent
<1>2. \A v \in Version : Using[v] = {}
  BY DEF Init, Lifecycle!Init, Using, CanUse, Lifecycle!CanUse
<1>3. 1 \in Version
  BY JourneyAssumption DEF Version
<1>4. WithdrawnIsOwed
  BY DEF Init, Lifecycle!Init, WithdrawnIsOwed
<1>5. CardInv
  BY <1>2, <1>3 DEF Init, CardInv, Early, References, Staged, RetryAfterWithdrawal,
     CardRecalled, ReportedRecalled
<1>6. QED
  BY <1>1, <1>4, <1>5 DEF RInv, StoreInv

LEMMA RecallStep == JInv /\ RInv /\ [Next]_vars => RInv'
<1>1. JInv /\ RInv /\ UNCHANGED vars => RInv'
  BY SameStores DEF vars, journeyVars, RInv, CardInv, Early, References, Staged,
     RetryAfterWithdrawal, CardRecalled, ReportedRecalled
<1>2. QED
  BY <1>1, EarlySteps, SubmissionSteps, WithdrawalSteps, RetrySteps, ClosingSteps DEF Next

LEMMA Recalling == Spec => [](JInv /\ RInv)
BY JourneyInit, JourneyStep, RecallInit, RecallStep, PTL DEF Spec

(* Whatever stores fail and whatever the intake answers, a closed session has *)
(* the card in use nowhere but at stores the retry it left will ask again -   *)
(* unless a retry, called before any withdrawal, dropped the lifecycle.       *)
THEOREM ClosedRecallsTheCard == Spec => []CardIsRecalled
<1>1. JInv /\ RInv => CardIsRecalled
  BY UsingIs DEF JInv, JourneyTypes, RInv, CardInv, CardRecalled, CardIsRecalled
<1>2. QED
  BY <1>1, Recalling, PTL

(* A version whose withdrawal was reported complete has no consent left, no   *)
(* bytes at the intake and no copy in use, then and ever after; one that a    *)
(* retry reported complete before any withdrawal has none at the intake.      *)
THEOREM CompleteIsComplete == Spec => []ReportedIsRecalled
<1>1. JInv /\ RInv => ReportedIsRecalled
  <2> SUFFICES ASSUME JInv, RInv PROVE ReportedIsRecalled
    OBVIOUS
  <2>1. ASSUME NEW v \in receipted \cup calledBack PROVE intake[v] # "held"
    BY <2>1 DEF JInv, IntakeNeverOrphaned, RInv, CardInv, References, RetryAfterWithdrawal
  <2>2. ASSUME NEW v \in receipted
        PROVE  ledger[v] = "withdrawn" /\ \A s \in Store : ~ CanUse(s, v)
    <3>1. v \in Version /\ ledger[v] = "withdrawn" /\ Using[v] = {}
      BY <2>2 DEF RInv, CardInv, References, ReportedRecalled
    <3>2. QED
      BY <3>1, UsingIs
  <2>3. QED
    BY <2>1, <2>2 DEF ReportedIsRecalled
<1>2. QED
  BY <1>1, Recalling, PTL
================================================================================
