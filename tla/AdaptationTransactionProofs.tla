--------------------- MODULE AdaptationTransactionProofs ---------------------
(***************************************************************************)
(* Theorems about AdaptationTransaction, for every set of previews, paths, *)
(* contents and tokens, and any number of crashes.                         *)
(***************************************************************************)
EXTENDS AdaptationTransaction, TLAPS

(***************************************************************************)
(* The inductive invariant.  A running call knows which journal state it   *)
(* left on disk, and what it knows of the target when it is about to give  *)
(* the target back.                                                        *)
(***************************************************************************)

ApplyingStep == {"reconcile", "discard", "open", "firstHalf", "secondHalf", "commit"}
AppliedStep  == {"verify", "receipt", "receiptBytes", "terminal", "restore",
                 "restoreUnlink", "rollback"}

StepMatchesJournal ==
  /\ pc = "journal" => journal[tx] = "none"
  /\ pc = "current" => journal[tx] = "recoveryReady"
  /\ pc \in ApplyingStep => journal[tx] = "applying"
  /\ pc \in AppliedStep => journal[tx] = "applied"
  /\ pc \in UndoStep => journal[tx] # "none"

GivingBack == pc \in {"rollback", "undoJournal"} => Target(tx) \in OwnerContent

\* The token of a call that has not journalled yet is spent and nobody else's.
TokenInHand ==
  pc = "journal" => /\ tok \in Token
                    /\ approval[tok].status = "consumed"
                    /\ approval[tok].bound = tx

JournalIsApproved ==
  \A t \in Transaction : journal[t] # "none" =>
    /\ approvalOf[t] \in Token
    /\ approval[approvalOf[t]].status \in {"consumed", "forgotten"}
    /\ approval[approvalOf[t]].bound = t

UnapprovedHasNoToken ==
  \A t \in Transaction : journal[t] = "none" => approvalOf[t] = NoToken

BytesHaveJournal ==
  \A p \in Path : file[p] \notin {Absent, Empty, Foreign} =>
    \E t \in Transaction :
      TargetOf[t] = p /\ file[p] \in OwnBytes(t) /\ journal[t] # "none"

\* What the engine is about to record agrees with the receipt on disk.
ReceiptInHand ==
  /\ pc \in {"receipt", "receiptBytes", "terminal"} => verdict \in Verdict
  /\ ~Tampering /\ pc = "terminal" =>
       receipt[tx].status = "whole" /\ receipt[tx].verdict = verdict

\* Under an editor that does not race, an unlink meets the bytes it checked.
CheckedBytes ==
  /\ pc = "discard" => Target(tx) = Half(BodyOf[tx])
  /\ pc \in {"restoreUnlink", "undoUnlink"} => Target(tx) = Full(BodyOf[tx])

-----------------------------------------------------------------------------
(* What the proofs need of the data, so that contents and receipts need not   *)
(* be expanded again.                                                         *)

\* The five shapes of a target are content, and no two of them are equal.
LEMMA ContentFacts ==
  /\ {Absent, Empty, Foreign} \subseteq Content
  /\ OwnerContent = {Absent, Foreign}
  /\ Absent # Empty /\ Absent # Foreign /\ Empty # Foreign
  /\ \A b \in Body : /\ Half(b) \in Content /\ Full(b) \in Content
                     /\ Half(b) \notin {Absent, Empty, Foreign}
                     /\ Full(b) \notin {Absent, Empty, Foreign}
  /\ \A b, c \in Body : /\ Half(b) # Full(c)
                        /\ Half(b) = Half(c) => b = c
                        /\ Full(b) = Full(c) => b = c
BY PreviewAssumption
   DEF Content, OwnerContent, Absent, Empty, Foreign, Half, Full

\* A receipt is absent, torn, or whole with the verdict it was written with.
LEMMA ReceiptFacts ==
  /\ NoReceipt \in Receipt /\ PartialReceipt \in Receipt
  /\ NoReceipt.status = "none" /\ PartialReceipt.status = "partial"
  /\ \A s \in Stamp, v \in Verdict :
       /\ Whole(s, v) \in Receipt
       /\ Whole(s, v).status = "whole" /\ Whole(s, v).verdict = v
<1>1. /\ NoReceipt \in Receipt /\ PartialReceipt \in Receipt
      /\ \A s \in Stamp, v \in Verdict : Whole(s, v) \in Receipt
  BY DEF Receipt
<1>2. /\ NoReceipt.status = "none" /\ PartialReceipt.status = "partial"
      /\ \A s, v : Whole(s, v).status = "whole" /\ Whole(s, v).verdict = v
  BY DEF NoReceipt, PartialReceipt, Whole
<1>3. QED
  BY <1>1, <1>2

LEMMA ApprovalFacts ==
  /\ Undrawn \in Approval /\ Undrawn.status = "undrawn"
  /\ \A a \in Approval, s \in TokenStatus :
       /\ [a EXCEPT !.status = s] \in Approval
       /\ [a EXCEPT !.status = s].status = s
       /\ [a EXCEPT !.status = s].bound = a.bound
  /\ \A t \in Transaction : [status |-> "live", bound |-> t] \in Approval
BY DEF Approval, Undrawn, TokenStatus

-----------------------------------------------------------------------------
(* Type correctness. *)

\* The definitions that shape every step.
USE DEF vars, disk, session, call, Enter, At, Goto, Return, Answer, HardStop,
        StopWith, AnswerStop, Advance, Target, SetTarget


\* What a call carries from step to step.
WellFormedCall ==
  /\ pc = "journal" => tok \in Token
  /\ pc \in ExecuteStep => now \in Stamp
  /\ pc \in {"receipt", "receiptBytes", "terminal"} => verdict \in Verdict

TypeInv == TypeOK /\ WellFormedCall

LEMMA InitType == Init => TypeInv
<1> SUFFICES ASSUME Init
             PROVE  TypeInv
  OBVIOUS
<1>1. /\ file \in [Path -> Content] /\ receipt \in [Transaction -> Receipt]
      /\ approval \in [Token -> Approval]
  BY ContentFacts, ReceiptFacts, ApprovalFacts DEF Init
<1>2. /\ receiptRef \in [Transaction -> BOOLEAN] /\ evidence \in [Transaction -> BOOLEAN]
      /\ proof \in [Transaction -> BOOLEAN] /\ hardStop \in BOOLEAN
  BY DEF Init
<1>3. QED
  BY <1>1, <1>2 DEF Init, TypeInv, TypeOK, WellFormedCall, Manifest, Step, Result,
                    ExecuteStep, NoVerdict

LEMMA TypeStep == TypeInv /\ [Next]_vars => TypeInv'
<1> SUFFICES ASSUME TypeInv, [Next]_vars
             PROVE  TypeInv'
  OBVIOUS
<1> USE PreviewAssumption, EngineAssumption
    DEF TypeInv, TypeOK, WellFormedCall, Manifest, JournalState, Step, ExecuteStep,
        UndoStep, Result, NoVerdict
<1>1. ASSUME NEW t \in Transaction, Begin(t)
      PROVE  TypeInv'
  <2>1. CASE PrepareRefused(t)
    BY <2>1 DEF PrepareRefused
  <2>2. CASE Prepare(t)
    BY <2>2 DEF Prepare
  <2>3. CASE ExecuteReplay(t)
    BY <2>3 DEF ExecuteReplay
  <2>4. CASE ExecuteBroken(t)
    BY <2>4 DEF ExecuteBroken
  <2>5. CASE ExecuteRefused(t)
    BY <2>5 DEF ExecuteRefused
  <2>6. ASSUME NEW s \in Stamp, ExecuteResume(t, s)
        PROVE  TypeInv'
    BY <2>6 DEF ExecuteResume, InFlight
  <2>7. ASSUME NEW s \in Stamp, NEW k \in Token, ExecuteFresh(t, k, s)
        PROVE  TypeInv'
    <3>1. approval' \in [Token -> Approval]
      BY <2>7, ApprovalFacts DEF ExecuteFresh, TokenStatus
    <3>2. QED
      BY <2>7, <3>1 DEF ExecuteFresh
  <2>8. CASE UndoRefused(t)
    BY <2>8 DEF UndoRefused
  <2>9. CASE UndoAgain(t)
    BY <2>9 DEF UndoAgain
  <2>10. CASE Undo(t)
    BY <2>10 DEF Undo
  <2>11. QED
    BY <1>1, <2>1, <2>2, <2>3, <2>4, <2>5, <2>6, <2>7, <2>8, <2>9, <2>10 DEF Begin
<1>2. ASSUME Continue
      PROVE  TypeInv'
  <2>1. CASE FinishPrepare
    BY <2>1 DEF FinishPrepare
  <2>2. CASE WriteJournal
    BY <2>2 DEF WriteJournal
  <2>3. CASE CheckCurrent \/ CheckDrifted
    BY <2>3 DEF CheckCurrent, CheckDrifted
  <2>4. CASE ReconcileAbsent \/ ReconcilePartial
    BY <2>4 DEF ReconcileAbsent, ReconcilePartial
  <2>5. CASE ReconcileDone
    BY <2>5 DEF ReconcileDone
  <2>6. CASE ReconcileConflict
    BY <2>6 DEF ReconcileConflict
  <2>7. CASE DiscardPartial \/ RestoreUnlink \/ UndoUnlink
    BY <2>7, ContentFacts DEF DiscardPartial, RestoreUnlink, UndoUnlink, Unlink
  <2>8. CASE OpenTarget \/ WriteFirstHalf \/ WriteSecondHalf
    BY <2>8, ContentFacts DEF OpenTarget, WriteFirstHalf, WriteSecondHalf, WriteHalf
  <2>9. CASE Commit
    BY <2>9 DEF Commit
  <2>10. CASE Verify
    BY <2>10 DEF Verify, Verdict, Observed
  <2>11. CASE OpenReceipt
    BY <2>11, ReceiptFacts DEF OpenReceipt
  <2>12. CASE WriteReceipt
    BY <2>12, ReceiptFacts DEF WriteReceipt
  <2>13. CASE ReceiptExists
    BY <2>13 DEF ReceiptExists
  <2>14. CASE Finish
    BY <2>14 DEF Finish
  <2>15. CASE ReceiptFails
    BY <2>15 DEF ReceiptFails
  <2>16. CASE RestoreUnproven
    BY <2>16 DEF RestoreUnproven
  <2>17. CASE RestoreCheck
    BY <2>17 DEF RestoreCheck
  <2>18. CASE RolledBack \/ FinishUndo
    BY <2>18 DEF RolledBack, FinishUndo
  <2>19. QED
    BY <1>2, <2>1, <2>2, <2>3, <2>4, <2>5, <2>6, <2>7, <2>8, <2>9, <2>10,
       <2>11, <2>12, <2>13, <2>14, <2>15, <2>16, <2>17, <2>18 DEF Continue
<1>3. CASE Crash
  BY <1>3, ApprovalFacts DEF Crash, TokenStatus
<1>4. CASE Fault
  BY <1>4 DEF Fault
<1>5. ASSUME NEW t \in Transaction, LoseManifest(t)
      PROVE  TypeInv'
  BY <1>5 DEF LoseManifest
<1>6. ASSUME NEW t \in Transaction, LoseReceipt(t)
      PROVE  TypeInv'
  BY <1>6, ReceiptFacts DEF LoseReceipt
<1>7. ASSUME NEW t \in Transaction, NEW k \in Token, Issue(t, k)
      PROVE  TypeInv'
  BY <1>7, ApprovalFacts DEF Issue
<1>8. ASSUME NEW p \in Path, OwnerEdits(p)
      PROVE  TypeInv'
  BY <1>8, ContentFacts DEF OwnerEdits
<1>9. CASE UNCHANGED vars
  BY <1>9
<1>10. QED
  BY <1>1, <1>2, <1>3, <1>4, <1>5, <1>6, <1>7, <1>8, <1>9 DEF Next, Engine, Environment

\* Every variable keeps its type, whatever is interrupted, damaged or edited.
THEOREM TypeCorrect == Spec => []TypeOK
<1>1. TypeInv => TypeOK
  BY DEF TypeInv
<1>2. QED
  BY <1>1, InitType, TypeStep, PTL DEF Spec

-----------------------------------------------------------------------------
(* A running call knows the journal state it left on disk.                    *)

CallInv == TypeInv /\ StepMatchesJournal

LEMMA CallStep == CallInv /\ [Next]_vars => StepMatchesJournal'
<1> SUFFICES ASSUME CallInv, [Next]_vars
             PROVE  StepMatchesJournal'
  OBVIOUS
<1> USE DEF CallInv, TypeInv, TypeOK, StepMatchesJournal, ApplyingStep, AppliedStep,
            UndoStep
<1>1. ASSUME NEW t \in Transaction, Begin(t)
      PROVE  StepMatchesJournal'
  <2>1. CASE PrepareRefused(t) \/ Prepare(t)
    BY <2>1 DEF PrepareRefused, Prepare
  <2>2. CASE ExecuteReplay(t) \/ ExecuteBroken(t) \/ ExecuteRefused(t)
    BY <2>2 DEF ExecuteReplay, ExecuteBroken, ExecuteRefused
  <2>3. ASSUME NEW s \in Stamp, ExecuteResume(t, s)
        PROVE  StepMatchesJournal'
    BY <2>3 DEF ExecuteResume, InFlight
  <2>4. ASSUME NEW s \in Stamp, NEW k \in Token, ExecuteFresh(t, k, s)
        PROVE  StepMatchesJournal'
    BY <2>4 DEF ExecuteFresh
  <2>5. CASE UndoRefused(t) \/ UndoAgain(t) \/ Undo(t)
    BY <2>5 DEF UndoRefused, UndoAgain, Undo
  <2>6. QED
    BY <1>1, <2>1, <2>2, <2>3, <2>4, <2>5 DEF Begin
<1>2. ASSUME Continue
      PROVE  StepMatchesJournal'
  <2>1. CASE FinishPrepare \/ WriteJournal \/ CheckCurrent \/ CheckDrifted
    BY <2>1 DEF FinishPrepare, WriteJournal, CheckCurrent, CheckDrifted
  <2>2. CASE ReconcileAbsent \/ ReconcilePartial \/ ReconcileDone \/ ReconcileConflict
    BY <2>2 DEF ReconcileAbsent, ReconcilePartial, ReconcileDone, ReconcileConflict
  <2>3. CASE DiscardPartial \/ RestoreUnlink \/ UndoUnlink
    BY <2>3 DEF DiscardPartial, RestoreUnlink, UndoUnlink, Unlink
  <2>4. CASE OpenTarget \/ WriteFirstHalf \/ WriteSecondHalf \/ Commit
    BY <2>4 DEF OpenTarget, WriteFirstHalf, WriteSecondHalf, WriteHalf, Commit
  <2>5. CASE Verify \/ OpenReceipt \/ WriteReceipt \/ ReceiptExists \/ Finish
    BY <2>5 DEF Verify, OpenReceipt, WriteReceipt, ReceiptExists, Finish
  <2>6. CASE ReceiptFails \/ RestoreUnproven \/ RestoreCheck \/ RolledBack \/ FinishUndo
    BY <2>6 DEF ReceiptFails, RestoreUnproven, RestoreCheck, RolledBack, FinishUndo
  <2>7. QED
    BY <1>2, <2>1, <2>2, <2>3, <2>4, <2>5, <2>6 DEF Continue
<1>3. ASSUME Environment
      PROVE  StepMatchesJournal'
  BY <1>3 DEF Environment, Crash, Fault, LoseManifest, LoseReceipt, Issue, OwnerEdits
<1>4. CASE UNCHANGED vars
  BY <1>4
<1>5. QED
  BY <1>1, <1>2, <1>3, <1>4 DEF Next, Engine

LEMMA CallCorrect == Spec => []CallInv
<1>1. Init => CallInv
  BY InitType DEF Init, CallInv, StepMatchesJournal, ApplyingStep, AppliedStep, UndoStep
<1>2. CallInv /\ [Next]_vars => CallInv'
  BY TypeStep, CallStep DEF CallInv
<1>3. QED
  BY <1>1, <1>2, PTL DEF Spec

-----------------------------------------------------------------------------
(* Consent. *)

ConsentInv == TokenInHand /\ JournalIsApproved /\ UnapprovedHasNoToken

\* Only the first journal write names an approval, and it names the token its
\* call consumed; nothing un-spends a token.
LEMMA ConsentStep == CallInv /\ CallInv' /\ ConsentInv /\ [Next]_vars => ConsentInv'
<1> SUFFICES ASSUME CallInv, CallInv', ConsentInv, [Next]_vars
             PROVE  ConsentInv'
  OBVIOUS
<1> USE DEF CallInv, TypeInv, TypeOK, ConsentInv, TokenInHand, JournalIsApproved,
            UnapprovedHasNoToken
<1>1. ASSUME NEW t \in Transaction, Begin(t)
      PROVE  ConsentInv'
  <2>1. CASE PrepareRefused(t) \/ Prepare(t)
    BY <2>1 DEF PrepareRefused, Prepare
  <2>2. CASE ExecuteReplay(t) \/ ExecuteBroken(t) \/ ExecuteRefused(t)
    BY <2>2 DEF ExecuteReplay, ExecuteBroken, ExecuteRefused
  <2>3. ASSUME NEW s \in Stamp, ExecuteResume(t, s)
        PROVE  ConsentInv'
    BY <2>3 DEF ExecuteResume, InFlight
  <2>4. ASSUME NEW s \in Stamp, NEW k \in Token, ExecuteFresh(t, k, s)
        PROVE  ConsentInv'
    <3>1. /\ approval'[k].status = "consumed" /\ approval'[k].bound = t
          /\ \A j \in Token : j # k => approval'[j] = approval[j]
          /\ approval[k].status = "live"
      BY <2>4, ApprovalFacts DEF ExecuteFresh, TokenStatus
    <3>2. QED
      BY <2>4, <3>1 DEF ExecuteFresh
  <2>5. CASE UndoRefused(t) \/ UndoAgain(t) \/ Undo(t)
    BY <2>5 DEF UndoRefused, UndoAgain, Undo
  <2>6. QED
    BY <1>1, <2>1, <2>2, <2>3, <2>4, <2>5 DEF Begin
<1>2. ASSUME Continue
      PROVE  ConsentInv'
  <2> USE DEF StepMatchesJournal, ApplyingStep, AppliedStep, UndoStep
  <2>1. CASE FinishPrepare \/ CheckCurrent \/ CheckDrifted
    BY <2>1 DEF FinishPrepare, CheckCurrent, CheckDrifted
  <2>2. CASE WriteJournal
    BY <2>2 DEF WriteJournal
  <2>3. CASE ReconcileAbsent \/ ReconcilePartial \/ ReconcileDone \/ ReconcileConflict
    BY <2>3 DEF ReconcileAbsent, ReconcilePartial, ReconcileDone, ReconcileConflict
  <2>4. CASE DiscardPartial \/ RestoreUnlink \/ UndoUnlink
    BY <2>4 DEF DiscardPartial, RestoreUnlink, UndoUnlink, Unlink
  <2>5. CASE OpenTarget \/ WriteFirstHalf \/ WriteSecondHalf \/ Commit
    BY <2>5 DEF OpenTarget, WriteFirstHalf, WriteSecondHalf, WriteHalf, Commit
  <2>6. CASE Verify \/ OpenReceipt \/ WriteReceipt \/ ReceiptExists \/ Finish
    BY <2>6 DEF Verify, OpenReceipt, WriteReceipt, ReceiptExists, Finish
  <2>7. CASE ReceiptFails \/ RestoreUnproven \/ RestoreCheck \/ RolledBack \/ FinishUndo
    BY <2>7 DEF ReceiptFails, RestoreUnproven, RestoreCheck, RolledBack, FinishUndo
  <2>8. QED
    BY <1>2, <2>1, <2>2, <2>3, <2>4, <2>5, <2>6, <2>7 DEF Continue
<1>3. CASE Crash
  <2>1. \A k \in Token :
          /\ approval'[k].bound = approval[k].bound
          /\ approval[k].status \in {"consumed", "forgotten"} =>
               approval'[k].status = "forgotten"
    BY <1>3, ApprovalFacts DEF Crash, TokenStatus
  <2>2. QED
    BY <1>3, <2>1 DEF Crash
<1>4. CASE Fault
  BY <1>4 DEF Fault
<1>5. ASSUME NEW t \in Transaction, LoseManifest(t) \/ LoseReceipt(t)
      PROVE  ConsentInv'
  BY <1>5 DEF LoseManifest, LoseReceipt
<1>6. ASSUME NEW t \in Transaction, NEW k \in Token, Issue(t, k)
      PROVE  ConsentInv'
  <2>1. approval[k].status = "undrawn" /\ \A j \in Token : j # k => approval'[j] = approval[j]
    BY <1>6, ApprovalFacts DEF Issue
  <2>2. QED
    BY <1>6, <2>1 DEF Issue
<1>7. ASSUME NEW p \in Path, OwnerEdits(p)
      PROVE  ConsentInv'
  BY <1>7 DEF OwnerEdits
<1>8. CASE UNCHANGED vars
  BY <1>8
<1>9. QED
  BY <1>1, <1>2, <1>3, <1>4, <1>5, <1>6, <1>7, <1>8 DEF Next, Engine, Environment

\* Bytes of a preview appear under a journal, and a journal is never erased.
LEMMA BytesStep == CallInv /\ BytesHaveJournal /\ [Next]_vars => BytesHaveJournal'
<1> SUFFICES ASSUME CallInv, BytesHaveJournal, [Next]_vars
             PROVE  BytesHaveJournal'
  OBVIOUS
<1> USE PreviewAssumption, ContentFacts DEF CallInv, TypeInv, TypeOK
<1> DEFINE JournalsStay == \A t \in Transaction : journal[t] # "none" => journal'[t] # "none"
<1>1. ASSUME JournalsStay, \A p \in Path : file'[p] \in {file[p]} \cup {Absent, Empty, Foreign}
      PROVE  BytesHaveJournal'
  BY <1>1 DEF BytesHaveJournal, OwnBytes
<1>2. ASSUME NEW t \in Transaction, Begin(t)
      PROVE  BytesHaveJournal'
  <2>1. UNCHANGED <<file, journal>>
    BY <1>2 DEF Begin, PrepareRefused, Prepare, ExecuteReplay, ExecuteBroken,
       ExecuteRefused, ExecuteResume, ExecuteFresh, UndoRefused, UndoAgain, Undo
  <2>2. QED
    BY <2>1, <1>1
<1>3. ASSUME Continue
      PROVE  BytesHaveJournal'
  <2> USE DEF StepMatchesJournal, ApplyingStep, AppliedStep, UndoStep
  <2>1. CASE WriteFirstHalf \/ WriteSecondHalf
    <3>1. /\ \A p \in Path : p # TargetOf[tx] => file'[p] = file[p]
          /\ file'[TargetOf[tx]] \in {file[TargetOf[tx]]} \cup OwnBytes(tx)
          /\ UNCHANGED journal /\ journal[tx] # "none"
      BY <2>1 DEF WriteFirstHalf, WriteSecondHalf, WriteHalf, OwnBytes
    <3>2. QED
      BY <3>1 DEF BytesHaveJournal
  <2>2. CASE FinishPrepare \/ CheckDrifted \/ ReconcileAbsent \/ ReconcilePartial
             \/ ReconcileConflict \/ Verify \/ OpenReceipt \/ WriteReceipt
             \/ ReceiptExists \/ ReceiptFails \/ RestoreUnproven \/ RestoreCheck
    <3>1. UNCHANGED <<file, journal>>
      BY <2>2 DEF FinishPrepare, CheckDrifted, ReconcileAbsent, ReconcilePartial,
         ReconcileConflict, Verify, OpenReceipt, WriteReceipt, ReceiptExists,
         ReceiptFails, RestoreUnproven, RestoreCheck
    <3>2. QED
      BY <3>1, <1>1
  <2>3. CASE WriteJournal \/ CheckCurrent \/ ReconcileDone \/ Commit \/ Finish
             \/ RolledBack \/ FinishUndo
    <3>1. JournalsStay /\ UNCHANGED file
      BY <2>3 DEF WriteJournal, CheckCurrent, ReconcileDone, Commit, Finish,
         RolledBack, FinishUndo
    <3>2. QED
      BY <3>1, <1>1
  <2>4. CASE DiscardPartial \/ RestoreUnlink \/ UndoUnlink \/ OpenTarget
    <3>1. /\ UNCHANGED journal
          /\ \A p \in Path : file'[p] \in {file[p], Absent, Empty}
      BY <2>4 DEF DiscardPartial, RestoreUnlink, UndoUnlink, Unlink, OpenTarget
    <3>2. QED
      BY <3>1, <1>1
  <2>5. QED
    BY <1>3, <2>1, <2>2, <2>3, <2>4 DEF Continue
<1>4. ASSUME Environment
      PROVE  BytesHaveJournal'
  <2>1. /\ UNCHANGED journal
        /\ \A p \in Path : file'[p] \in {file[p], Absent, Foreign}
    BY <1>4 DEF Environment, Crash, Fault, LoseManifest, LoseReceipt, Issue, OwnerEdits
  <2>2. QED
    BY <2>1, <1>1
<1>5. CASE UNCHANGED vars
  BY <1>5, <1>1
<1>6. QED
  BY <1>2, <1>3, <1>4, <1>5 DEF Next, Engine

LEMMA ConsentCorrect == Spec => [](TypeOK /\ ConsentInv /\ BytesHaveJournal)
<1>1. Init => ConsentInv /\ BytesHaveJournal
  BY ContentFacts DEF Init, ConsentInv, TokenInHand, JournalIsApproved,
     UnapprovedHasNoToken, BytesHaveJournal
<1>2. CallInv => TypeOK
  BY DEF CallInv, TypeInv
<1>3. QED
  BY <1>1, <1>2, ConsentStep, BytesStep, CallCorrect, PTL DEF Spec

\* No byte of a preview is ever on disk without a spent approval of its own.
THEOREM Consent == Spec => []BytesWereApproved
<1>1. TypeOK /\ ConsentInv /\ BytesHaveJournal => BytesWereApproved
  BY DEF ConsentInv, JournalIsApproved, BytesHaveJournal, BytesWereApproved
<1>2. QED
  BY <1>1, ConsentCorrect, PTL

\* No approval is ever behind two transactions.
THEOREM SingleUse == Spec => []OneApprovalOneChange
<1>1. TypeOK /\ ConsentInv => OneApprovalOneChange
  BY EngineAssumption DEF ConsentInv, JournalIsApproved, UnapprovedHasNoToken,
     OneApprovalOneChange, TypeOK
<1>2. QED
  BY <1>1, ConsentCorrect, PTL

-----------------------------------------------------------------------------
(* Reversal. *)

ReversalInv == GivingBack /\ ReversedLeavesNothing

\* Another preview with the same path has other bytes, in a fact of its own.
LEMMA OwnBytesDiffer ==
  ASSUME NEW t \in Transaction, NEW u \in Transaction, BodyOf[u] # BodyOf[t]
  PROVE  OwnBytes(t) \cap OwnBytes(u) = {}
BY PreviewAssumption, ContentFacts DEF OwnBytes

\* A reversed transaction has no call under way that writes, and every other
\* writer of its path writes other bytes.
LEMMA ReversalStep ==
  CallInv /\ CallInv' /\ ReversalInv /\ [Next]_vars => ReversalInv'
<1> SUFFICES ASSUME CallInv, CallInv', ReversalInv, [Next]_vars
             PROVE  ReversalInv'
  OBVIOUS
<1> USE PreviewAssumption, ContentFacts DEF CallInv, TypeInv, TypeOK
<1> DEFINE Reversed(t) == journal[t] \in {"rolledBack", "undone"}
           Gone(c) == c \in OwnerContent
<1>1. ASSUME \A t \in Transaction :
               \/ ~ Reversed(t)'
               \/ Reversed(t) /\ Target(t)' \in {Target(t), Absent, Empty, Foreign}
               \/ Target(t)' \in OwnerContent,
             GivingBack'
      PROVE  ReversalInv'
  BY <1>1 DEF ReversalInv, ReversedLeavesNothing, OwnBytes
<1>2. ASSUME NEW t \in Transaction, Begin(t)
      PROVE  ReversalInv'
  <2>1. UNCHANGED <<file, journal>>
    BY <1>2 DEF Begin, PrepareRefused, Prepare, ExecuteReplay, ExecuteBroken,
       ExecuteRefused, ExecuteResume, ExecuteFresh, UndoRefused, UndoAgain, Undo
  <2>2. GivingBack'
    <3>1. CASE Undo(t)
      BY <3>1 DEF Undo, GivingBack
    <3>2. CASE \E s \in Stamp : ExecuteResume(t, s)
      BY <3>2 DEF ExecuteResume, GivingBack, InFlight
    <3>3. CASE \/ PrepareRefused(t) \/ Prepare(t) \/ ExecuteReplay(t) \/ ExecuteBroken(t)
               \/ ExecuteRefused(t) \/ UndoRefused(t) \/ UndoAgain(t)
               \/ \E s \in Stamp : \E k \in Token : ExecuteFresh(t, k, s)
      BY <3>3 DEF PrepareRefused, Prepare, ExecuteReplay, ExecuteBroken,
         ExecuteRefused, ExecuteFresh, UndoRefused, UndoAgain, GivingBack
    <3>4. QED
      BY <1>2, <3>1, <3>2, <3>3 DEF Begin
  <2>3. QED
    BY <2>1, <2>2, <1>1
<1>3. ASSUME Continue
      PROVE  ReversalInv'
  <2> USE DEF StepMatchesJournal, ApplyingStep, AppliedStep, UndoStep
  <2>1. CASE WriteFirstHalf \/ WriteSecondHalf
    <3>1. /\ \A p \in Path : p # TargetOf[tx] => file'[p] = file[p]
          /\ file'[TargetOf[tx]] \in {file[TargetOf[tx]]} \cup OwnBytes(tx)
          /\ UNCHANGED <<journal, tx>> /\ journal[tx] = "applying" /\ GivingBack'
      BY <2>1 DEF WriteFirstHalf, WriteSecondHalf, WriteHalf, OwnBytes, GivingBack
    <3>2. QED
      BY <3>1, OwnBytesDiffer DEF ReversalInv, ReversedLeavesNothing
  <2>2. CASE FinishPrepare \/ CheckDrifted \/ ReconcileAbsent \/ ReconcilePartial
             \/ ReconcileConflict \/ Verify \/ OpenReceipt \/ WriteReceipt
             \/ ReceiptExists \/ ReceiptFails \/ RestoreUnproven \/ RestoreCheck
    <3>1. UNCHANGED <<file, journal>> /\ GivingBack'
      BY <2>2 DEF FinishPrepare, CheckDrifted, ReconcileAbsent, ReconcilePartial,
         ReconcileConflict, Verify, OpenReceipt, WriteReceipt, ReceiptExists,
         ReceiptFails, RestoreUnproven, RestoreCheck, GivingBack, OwnerContent
    <3>2. QED
      BY <3>1, <1>1
  <2>3. CASE WriteJournal \/ CheckCurrent \/ ReconcileDone \/ Commit \/ Finish
    <3>1. /\ UNCHANGED file /\ GivingBack'
          /\ \A t \in Transaction : Reversed(t)' => Reversed(t)
      BY <2>3 DEF WriteJournal, CheckCurrent, ReconcileDone, Commit, Finish, GivingBack
    <3>2. QED
      BY <3>1, <1>1
  <2>4. CASE RolledBack \/ FinishUndo
    <3>1. /\ UNCHANGED file /\ GivingBack' /\ Target(tx) \in OwnerContent
          /\ \A t \in Transaction : t # tx /\ Reversed(t)' => Reversed(t)
      BY <2>4 DEF RolledBack, FinishUndo, ReversalInv, GivingBack
    <3>2. QED
      BY <3>1, <1>1
  <2>5. CASE DiscardPartial \/ RestoreUnlink \/ UndoUnlink \/ OpenTarget
    <3>1. /\ UNCHANGED journal /\ GivingBack'
          /\ \A p \in Path : file'[p] \in {file[p], Absent, Empty}
      BY <2>5 DEF DiscardPartial, RestoreUnlink, UndoUnlink, Unlink, OpenTarget,
         GivingBack
    <3>2. QED
      BY <3>1, <1>1
  <2>6. QED
    BY <1>3, <2>1, <2>2, <2>3, <2>4, <2>5 DEF Continue
<1>4. ASSUME Environment
      PROVE  ReversalInv'
  <2>1. /\ UNCHANGED journal
        /\ \A p \in Path : file'[p] \in {file[p], Absent, Foreign}
    BY <1>4 DEF Environment, Crash, Fault, LoseManifest, LoseReceipt, Issue, OwnerEdits
  <2>2. GivingBack'
    BY <1>4 DEF Environment, Crash, Fault, LoseManifest, LoseReceipt, Issue, OwnerEdits,
       ReversalInv, GivingBack, OwnerContent
  <2>3. QED
    BY <2>1, <2>2, <1>1
<1>5. CASE UNCHANGED vars
  BY <1>5, <1>1 DEF ReversalInv, GivingBack
<1>6. QED
  BY <1>2, <1>3, <1>4, <1>5 DEF Next, Engine

\* What was rolled back or undone is gone, and never comes back.
THEOREM Reversal == Spec => []ReversedLeavesNothing
<1>1. Init => ReversalInv
  BY DEF Init, ReversalInv, GivingBack, ReversedLeavesNothing
<1>2. ReversalInv => ReversedLeavesNothing
  BY DEF ReversalInv
<1>3. QED
  BY <1>1, <1>2, ReversalStep, CallCorrect, PTL DEF Spec

-----------------------------------------------------------------------------
(* Receipts. *)

ReceiptInv == ReceiptInHand /\ FinishedIsReceipted

\* A journal finishes only right after its receipt was found whole, and from
\* then on no call of that transaction reaches the receipt again.
LEMMA ReceiptStep ==
  ~Tampering /\ CallInv /\ CallInv' /\ ReceiptInv /\ [Next]_vars => ReceiptInv'
<1> SUFFICES ASSUME ~Tampering, CallInv, CallInv', ReceiptInv, [Next]_vars
             PROVE  ReceiptInv'
  OBVIOUS
<1> USE DEF CallInv, TypeInv, TypeOK, ReceiptInv, ReceiptInHand, FinishedIsReceipted
<1>1. ASSUME NEW t \in Transaction, Begin(t)
      PROVE  ReceiptInv'
  <2>1. UNCHANGED <<journal, receiptRef, receipt>>
        /\ pc' \notin {"receipt", "receiptBytes", "terminal"}
    <3>1. CASE \E s \in Stamp : ExecuteResume(t, s)
      BY <3>1 DEF ExecuteResume, InFlight
    <3>2. CASE ~ \E s \in Stamp : ExecuteResume(t, s)
      BY <1>1, <3>2 DEF Begin, PrepareRefused, Prepare, ExecuteReplay, ExecuteBroken,
         ExecuteRefused, ExecuteFresh, UndoRefused, UndoAgain, Undo
    <3>3. QED
      BY <3>1, <3>2
  <2>2. QED
    BY <2>1
<1>2. ASSUME Continue
      PROVE  ReceiptInv'
  <2> USE DEF StepMatchesJournal, ApplyingStep, AppliedStep, UndoStep
  <2>1. CASE FinishPrepare \/ CheckCurrent \/ CheckDrifted
    BY <2>1 DEF FinishPrepare, CheckCurrent, CheckDrifted
  <2>2. CASE WriteJournal
    BY <2>2 DEF WriteJournal
  <2>3. CASE ReconcileAbsent \/ ReconcilePartial \/ ReconcileDone \/ ReconcileConflict
    BY <2>3 DEF ReconcileAbsent, ReconcilePartial, ReconcileDone, ReconcileConflict
  <2>4. CASE DiscardPartial \/ RestoreUnlink \/ UndoUnlink
    BY <2>4 DEF DiscardPartial, RestoreUnlink, UndoUnlink, Unlink
  <2>5. CASE OpenTarget \/ WriteFirstHalf \/ WriteSecondHalf \/ Commit
    BY <2>5 DEF OpenTarget, WriteFirstHalf, WriteSecondHalf, WriteHalf, Commit
  <2>6. CASE Verify
    BY <2>6 DEF Verify, Verdict, Observed
  <2>7. CASE OpenReceipt
    BY <2>7, ReceiptFacts DEF OpenReceipt
  <2>8. CASE WriteReceipt
    BY <2>8, ReceiptFacts DEF WriteReceipt, WellFormedCall, ExecuteStep
  <2>9. CASE ReceiptExists
    BY <2>9, ReceiptFacts DEF ReceiptExists, WellFormedCall, ExecuteStep
  <2>10. CASE Finish
    BY <2>10 DEF Finish
  <2>11. CASE ReceiptFails \/ RestoreUnproven \/ RestoreCheck
    BY <2>11 DEF ReceiptFails, RestoreUnproven, RestoreCheck
  <2>12. CASE RolledBack \/ FinishUndo
    BY <2>12 DEF RolledBack, FinishUndo
  <2>13. QED
    BY <1>2, <2>1, <2>2, <2>3, <2>4, <2>5, <2>6, <2>7, <2>8, <2>9, <2>10,
       <2>11, <2>12 DEF Continue
<1>3. ASSUME Environment
      PROVE  ReceiptInv'
  BY <1>3 DEF Environment, Crash, Fault, LoseManifest, LoseReceipt, Issue, OwnerEdits
<1>4. CASE UNCHANGED vars
  BY <1>4
<1>5. QED
  BY <1>1, <1>2, <1>3, <1>4 DEF Next, Engine

\* A finished transaction has its whole receipt, with the finishing verdict.
THEOREM Receipted == Spec => []FinishedIsReceipted
<1>1. CASE Tampering
  <2>1. TypeOK => FinishedIsReceipted
    BY <1>1 DEF FinishedIsReceipted
  <2>2. QED
    BY <2>1, TypeCorrect, PTL
<1>2. CASE ~Tampering
  <2>1. Init => ReceiptInv
    BY DEF Init, ReceiptInv, ReceiptInHand, FinishedIsReceipted
  <2>2. ReceiptInv => FinishedIsReceipted
    BY DEF ReceiptInv
  <2>3. CallInv /\ CallInv' /\ ReceiptInv /\ [Next]_vars => ReceiptInv'
    BY <1>2, ReceiptStep
  <2>4. QED
    BY <2>1, <2>2, <2>3, CallCorrect, PTL DEF Spec
<1>3. QED
  BY <1>1, <1>2

-----------------------------------------------------------------------------
(* The promise to the owner, as long as the owner's editor does not race an   *)
(* unlink.                                                                    *)

LEMMA CheckedStep ==
  Editor # "racing" /\ CallInv /\ CheckedBytes /\ [Next]_vars => CheckedBytes'
<1> SUFFICES ASSUME Editor # "racing", CallInv, CheckedBytes, [Next]_vars
             PROVE  CheckedBytes'
  OBVIOUS
<1> USE DEF CallInv, TypeInv, TypeOK, CheckedBytes
<1>1. ASSUME NEW t \in Transaction, Begin(t)
      PROVE  CheckedBytes'
  <2>1. CASE Undo(t)
    BY <2>1 DEF Undo
  <2>2. CASE \E s \in Stamp : ExecuteResume(t, s)
    BY <2>2 DEF ExecuteResume, InFlight
  <2>3. CASE \/ PrepareRefused(t) \/ Prepare(t) \/ ExecuteReplay(t) \/ ExecuteBroken(t)
             \/ ExecuteRefused(t) \/ UndoRefused(t) \/ UndoAgain(t)
             \/ \E s \in Stamp : \E k \in Token : ExecuteFresh(t, k, s)
    BY <2>3 DEF PrepareRefused, Prepare, ExecuteReplay, ExecuteBroken, ExecuteRefused,
       ExecuteFresh, UndoRefused, UndoAgain
  <2>4. QED
    BY <1>1, <2>1, <2>2, <2>3 DEF Begin
<1>2. CASE ReconcilePartial \/ RestoreCheck
  BY <1>2 DEF ReconcilePartial, RestoreCheck
<1>3. ASSUME Continue, ~ReconcilePartial, ~RestoreCheck
      PROVE  pc' \notin {"discard", "restoreUnlink", "undoUnlink"}
  BY <1>3 DEF Continue, FinishPrepare, WriteJournal, CheckCurrent, CheckDrifted,
     ReconcileAbsent, ReconcileDone, ReconcileConflict, DiscardPartial, OpenTarget,
     WriteFirstHalf, WriteSecondHalf, WriteHalf, Commit, Verify, OpenReceipt,
     WriteReceipt, ReceiptExists, Finish, ReceiptFails, RestoreUnproven,
     RestoreUnlink, RolledBack, UndoUnlink, FinishUndo, Unlink
<1>4. ASSUME Environment
      PROVE  CheckedBytes'
  BY <1>4 DEF Environment, Crash, Fault, LoseManifest, LoseReceipt, Issue, OwnerEdits
<1>5. CASE UNCHANGED vars
  BY <1>5
<1>6. QED
  BY <1>1, <1>2, <1>3, <1>4, <1>5 DEF Next, Engine

\* The owner sees a journal write as a change of phase, or not at all.
LEMMA PhaseChanges ==
  ASSUME TypeOK, NEW t \in Transaction, NEW state \in JournalState,
         journal' = [journal EXCEPT ![t] = state]
  PROVE  [u \in Transaction |-> PhaseOf(journal[u])]'
           = [[u \in Transaction |-> PhaseOf(journal[u])] EXCEPT ![t] = PhaseOf(state)]
BY DEF TypeOK

\* The promise speaks of contents in the same words.
LEMMA PromiseVocabulary ==
  /\ Promise!Absent = Absent /\ Promise!Empty = Empty /\ Promise!Foreign = Foreign
  /\ Promise!OwnerContent = OwnerContent
  /\ \A b \in Body : Promise!Half(b) = Half(b) /\ Promise!Full(b) = Full(b)
BY DEF Promise!Absent, Absent, Promise!Empty, Empty, Promise!Foreign, Foreign,
       Promise!OwnerContent, OwnerContent, Promise!Half, Half, Promise!Full, Full

\* Each step of the engine is a step of the promise, or invisible to the owner.
LEMMA PromiseStep ==
  CallInv /\ GivingBack /\ CheckedBytes /\ [Next]_vars
    => [Promise!PromiseNext]_(Promise!promiseVars)
<1> SUFFICES ASSUME CallInv, GivingBack, CheckedBytes, [Next]_vars
             PROVE  [Promise!PromiseNext]_(Promise!promiseVars)
  OBVIOUS
<1> USE PreviewAssumption, ContentFacts, PromiseVocabulary DEF CallInv, TypeInv, TypeOK
<1> DEFINE phase == [u \in Transaction |-> PhaseOf(journal[u])]
<1>1. ASSUME UNCHANGED <<file, journal>>
      PROVE  UNCHANGED Promise!promiseVars
  BY <1>1 DEF Promise!promiseVars
<1>2. ASSUME NEW t \in Transaction, Begin(t)
      PROVE  UNCHANGED <<file, journal>>
  BY <1>2 DEF Begin, PrepareRefused, Prepare, ExecuteReplay, ExecuteBroken,
     ExecuteRefused, ExecuteResume, ExecuteFresh, UndoRefused, UndoAgain, Undo
<1>3. ASSUME Continue
      PROVE  [Promise!PromiseNext]_(Promise!promiseVars)
  <2> USE DEF StepMatchesJournal, ApplyingStep, AppliedStep, UndoStep
  <2>1. CASE FinishPrepare \/ CheckDrifted \/ ReconcileAbsent \/ ReconcilePartial
             \/ ReconcileConflict \/ Verify \/ OpenReceipt \/ WriteReceipt
             \/ ReceiptExists \/ ReceiptFails \/ RestoreUnproven \/ RestoreCheck
    BY <2>1, <1>1 DEF FinishPrepare, CheckDrifted, ReconcileAbsent, ReconcilePartial,
       ReconcileConflict, Verify, OpenReceipt, WriteReceipt, ReceiptExists,
       ReceiptFails, RestoreUnproven, RestoreCheck
  <2>2. CASE WriteJournal
    <3>1. /\ phase' = [phase EXCEPT ![tx] = PhaseOf("recoveryReady")]
          /\ journal[tx] = "none" /\ UNCHANGED file
      BY <2>2, PhaseChanges DEF WriteJournal, JournalState
    <3>2. phase[tx] = "unapproved" /\ PhaseOf("recoveryReady") = "live"
      BY <3>1 DEF PhaseOf, InFlight
    <3>3. Promise!Approve(tx)
      BY <3>1, <3>2 DEF Promise!Approve
    <3>4. QED
      BY <3>3 DEF Promise!PromiseNext
  <2>3. CASE CheckCurrent \/ ReconcileDone \/ Commit
    <3>1. PICK state \in {"applying", "applied"} :
            journal' = [journal EXCEPT ![tx] = state] /\ journal[tx] \in InFlight
      BY <2>3 DEF CheckCurrent, ReconcileDone, Commit, InFlight
    <3>2. UNCHANGED file
      BY <2>3 DEF CheckCurrent, ReconcileDone, Commit
    <3>3. ASSUME NEW u \in Transaction
          PROVE  PhaseOf(journal'[u]) = PhaseOf(journal[u])
      <4>1. CASE u = tx
        <5>1. journal'[u] = state /\ journal[u] \in InFlight
          BY <3>1, <4>1
        <5>2. QED
          BY <5>1 DEF PhaseOf, InFlight
      <4>2. CASE u # tx
        BY <3>1, <4>2
      <4>3. QED
        BY <4>1, <4>2
    <3>4. UNCHANGED phase
      BY <3>3
    <3>5. QED
      BY <3>2, <3>4 DEF Promise!promiseVars
  <2>4. CASE DiscardPartial
    <3>1. /\ Target(tx) = Half(BodyOf[tx]) /\ phase[tx] = "live" /\ UNCHANGED phase
          /\ SetTarget(tx, Absent)
      BY <2>4 DEF DiscardPartial, Unlink, CheckedBytes, PhaseOf, InFlight
    <3>2. Promise!Remove(tx)
      BY <3>1 DEF Promise!Remove, Promise!TargetHolds
    <3>3. QED
      BY <3>2 DEF Promise!PromiseNext
  <2>5. CASE RestoreUnlink \/ UndoUnlink
    <3>1. /\ Target(tx) = Full(BodyOf[tx]) /\ journal[tx] \in JournalState
          /\ UNCHANGED phase /\ SetTarget(tx, Absent)
      BY <2>5 DEF RestoreUnlink, UndoUnlink, Unlink, CheckedBytes
    <3>2. phase[tx] # "unapproved"
      BY <3>1 DEF PhaseOf, JournalState, InFlight
    <3>3. Promise!Remove(tx)
      BY <3>1, <3>2 DEF Promise!Remove, Promise!TargetHolds
    <3>4. QED
      BY <3>3 DEF Promise!PromiseNext
  <2>6. CASE OpenTarget \/ WriteFirstHalf \/ WriteSecondHalf
    <3>1. journal[tx] = "applying" /\ UNCHANGED journal
      BY <2>6 DEF OpenTarget, WriteFirstHalf, WriteSecondHalf, WriteHalf
    <3>2. phase[tx] = "live" /\ UNCHANGED phase
      BY <3>1 DEF PhaseOf, InFlight
    <3>3. CASE UNCHANGED file
      BY <3>1, <3>3, <1>1
    <3>4. CASE ~UNCHANGED file
      <4>1. PICK growth \in {<<Absent, Empty>>, <<Empty, Half(BodyOf[tx])>>,
                             <<Half(BodyOf[tx]), Full(BodyOf[tx])>>} :
              Target(tx) = growth[1] /\ SetTarget(tx, growth[2])
        BY <2>6, <3>4 DEF OpenTarget, WriteFirstHalf, WriteSecondHalf, WriteHalf
      <4>2. Promise!Write(tx)
        BY <3>2, <4>1 DEF Promise!Write, Promise!TargetHolds
      <4>3. QED
        BY <4>2 DEF Promise!PromiseNext
    <3>5. QED
      BY <3>3, <3>4
  <2>7. CASE Finish
    <3>1. PICK state \in {"verified", "hardStopped"} :
            journal' = [journal EXCEPT ![tx] = state] /\ UNCHANGED file
      BY <2>7 DEF Finish
    <3>2. phase' = [phase EXCEPT ![tx] = "kept"] /\ phase[tx] = "live"
      BY <2>7, <3>1, PhaseChanges DEF Finish, PhaseOf, InFlight, JournalState
    <3>3. Promise!Keep(tx)
      BY <3>1, <3>2 DEF Promise!Keep
    <3>4. QED
      BY <3>3 DEF Promise!PromiseNext
  <2>8. CASE RolledBack \/ FinishUndo
    <3>1. PICK state \in {"rolledBack", "undone"} :
            /\ journal' = [journal EXCEPT ![tx] = state] /\ UNCHANGED file
            /\ journal[tx] \in JournalState /\ Target(tx) \in OwnerContent
      BY <2>8 DEF RolledBack, FinishUndo, GivingBack
    <3>2. /\ phase' = [phase EXCEPT ![tx] = "reversed"]
          /\ phase[tx] \in {"live", "kept", "reversed"}
      BY <3>1, PhaseChanges DEF PhaseOf, InFlight, JournalState
    <3>3. CASE phase[tx] = "reversed"
      BY <3>1, <3>2, <3>3 DEF Promise!promiseVars
    <3>4. CASE phase[tx] # "reversed"
      <4>1. Promise!Reverse(tx)
        BY <3>1, <3>2, <3>4 DEF Promise!Reverse, Promise!TargetHolds
      <4>2. QED
        BY <4>1 DEF Promise!PromiseNext
    <3>5. QED
      BY <3>3, <3>4
  <2>9. QED
    BY <1>3, <2>1, <2>2, <2>3, <2>4, <2>5, <2>6, <2>7, <2>8 DEF Continue
<1>4. ASSUME Environment
      PROVE  [Promise!PromiseNext]_(Promise!promiseVars)
  <2>1. CASE \E p \in Path : OwnerEdits(p)
    <3>1. PICK p \in Path, c \in OwnerContent :
            file' = [file EXCEPT ![p] = c] /\ UNCHANGED journal
      BY <2>1 DEF OwnerEdits
    <3>2. Promise!OwnerEdits(p)
      BY <3>1 DEF Promise!OwnerEdits
    <3>3. QED
      BY <3>2 DEF Promise!PromiseNext
  <2>2. CASE ~ \E p \in Path : OwnerEdits(p)
    <3>1. UNCHANGED <<file, journal>>
      <4>1. CASE Crash
        BY <4>1 DEF Crash, disk
      <4>2. CASE Fault
        BY <4>2 DEF Fault, disk
      <4>3. CASE \E t \in Transaction :
                   LoseManifest(t) \/ LoseReceipt(t) \/ \E k \in Token : Issue(t, k)
        BY <4>3 DEF LoseManifest, LoseReceipt, Issue, disk
      <4>4. QED
        BY <1>4, <2>2, <4>1, <4>2, <4>3 DEF Environment
    <3>2. QED
      BY <3>1, <1>1
  <2>3. QED
    BY <2>1, <2>2
<1>5. CASE UNCHANGED vars
  BY <1>5, <1>1
<1>6. QED
  BY <1>1, <1>2, <1>3, <1>4, <1>5 DEF Next, Engine

\* The engine with its journal, receipts and crashes implements the promise.
THEOREM Refinement == Editor # "racing" => (Spec => KeepsPromise)
<1> SUFFICES ASSUME Editor # "racing"
             PROVE  Spec => KeepsPromise
  OBVIOUS
<1>1. Init => CheckedBytes /\ ReversalInv /\ Promise!PromiseInit
  <2>1. Init => CheckedBytes /\ ReversalInv
    BY DEF Init, CheckedBytes, ReversalInv, GivingBack, ReversedLeavesNothing
  <2>2. PhaseOf("none") = "unapproved"
    BY DEF PhaseOf, InFlight
  <2>3. Init => Promise!PromiseInit
    BY <2>2, PromiseVocabulary DEF Init, Promise!PromiseInit
  <2>4. QED
    BY <2>1, <2>3
<1>2. CallInv /\ CheckedBytes /\ [Next]_vars => CheckedBytes'
  BY CheckedStep
<1>3. CallInv /\ ReversalInv /\ CheckedBytes /\ [Next]_vars
        => [Promise!PromiseNext]_(Promise!promiseVars)
  BY PromiseStep DEF ReversalInv
<1>4. QED
  BY <1>1, <1>2, <1>3, ReversalStep, CallCorrect, PTL
     DEF Spec, KeepsPromise, Promise!PromiseSpec

\* A step that begins an unlink has just seen the change's own bytes in place.
LEMMA UnlinkBegins ==
  ASSUME CallInv, [Next]_vars, pc \notin Unlinking, pc' \in Unlinking
  PROVE  file' = file /\ file[TargetOf[tx']] \in OwnBytes(tx')
<1> USE DEF CallInv, TypeInv, TypeOK, Unlinking, OwnBytes
<1>1. ASSUME NEW t \in Transaction, Begin(t)
      PROVE  file' = file /\ file[TargetOf[tx']] \in OwnBytes(tx')
  <2>1. CASE Undo(t)
    BY <2>1 DEF Undo
  <2>2. CASE \/ PrepareRefused(t) \/ Prepare(t) \/ ExecuteReplay(t) \/ ExecuteBroken(t)
             \/ ExecuteRefused(t) \/ UndoRefused(t) \/ UndoAgain(t)
             \/ \E s \in Stamp : \E k \in Token : ExecuteFresh(t, k, s)
    BY <2>2 DEF PrepareRefused, Prepare, ExecuteReplay, ExecuteBroken, ExecuteRefused,
       ExecuteFresh, UndoRefused, UndoAgain
  <2>3. CASE \E s \in Stamp : ExecuteResume(t, s)
    BY <2>3 DEF ExecuteResume, InFlight
  <2>4. QED
    BY <1>1, <2>1, <2>2, <2>3 DEF Begin
<1>2. CASE ReconcilePartial \/ RestoreCheck
  BY <1>2 DEF ReconcilePartial, RestoreCheck
<1>3. ASSUME Continue, ~ReconcilePartial, ~RestoreCheck
      PROVE  pc' \notin Unlinking
  BY <1>3 DEF Continue, FinishPrepare, WriteJournal, CheckCurrent, CheckDrifted,
     ReconcileAbsent, ReconcileDone, ReconcileConflict, DiscardPartial, OpenTarget,
     WriteFirstHalf, WriteSecondHalf, WriteHalf, Commit, Verify, OpenReceipt,
     WriteReceipt, ReceiptExists, Finish, ReceiptFails, RestoreUnproven,
     RestoreUnlink, RolledBack, UndoUnlink, FinishUndo, Unlink
<1>4. ASSUME Environment
      PROVE  pc' = pc \/ pc' = "idle"
  BY <1>4 DEF Environment, Crash, Fault, LoseManifest, LoseReceipt, Issue, OwnerEdits
<1>5. QED
  BY <1>1, <1>2, <1>3, <1>4 DEF Next, Engine, vars, call

\* The owner's bytes are taken by no step of the engine but an unlink, at its own
\* target, and an unlink is begun only on the change's own bytes.
THEOREM LaterWorkSafe == Spec => LaterWorkLostOnlyInTheWindow
<1>1. ASSUME CallInv, Engine, NEW p \in Path, file[p] = Foreign, file'[p] # Foreign
      PROVE  pc \in Unlinking /\ pc' \notin Unlinking /\ p = TargetOf[tx]
  <2> USE <1>1, PreviewAssumption, ContentFacts DEF CallInv, TypeInv, TypeOK
  <2>1. CASE DiscardPartial \/ RestoreUnlink \/ UndoUnlink
    BY <2>1 DEF DiscardPartial, RestoreUnlink, UndoUnlink, Unlink, Unlinking
  <2>2. CASE OpenTarget \/ WriteFirstHalf \/ WriteSecondHalf
    BY <2>2 DEF OpenTarget, WriteFirstHalf, WriteSecondHalf, WriteHalf
  <2>3. CASE \E t \in Transaction : Begin(t)
    BY <2>3 DEF Begin, PrepareRefused, Prepare, ExecuteReplay, ExecuteBroken,
       ExecuteRefused, ExecuteResume, ExecuteFresh, UndoRefused, UndoAgain, Undo
  <2>4. CASE \/ FinishPrepare \/ WriteJournal \/ CheckCurrent \/ CheckDrifted
             \/ ReconcileAbsent \/ ReconcilePartial \/ ReconcileDone \/ ReconcileConflict
             \/ Commit \/ Verify \/ OpenReceipt \/ WriteReceipt \/ ReceiptExists \/ Finish
             \/ ReceiptFails \/ RestoreUnproven \/ RestoreCheck \/ RolledBack \/ FinishUndo
    BY <2>4 DEF FinishPrepare, WriteJournal, CheckCurrent, CheckDrifted,
       ReconcileAbsent, ReconcilePartial, ReconcileDone, ReconcileConflict, Commit,
       Verify, OpenReceipt, WriteReceipt, ReceiptExists, Finish, ReceiptFails,
       RestoreUnproven, RestoreCheck, RolledBack, FinishUndo
  <2>5. QED
    BY <2>1, <2>2, <2>3, <2>4 DEF Engine, Continue
<1> DEFINE Promised ==
      /\ pc \notin Unlinking /\ pc' \in Unlinking =>
           file' = file /\ file[TargetOf[tx']] \in OwnBytes(tx')
      /\ Engine => \A p \in Path : file[p] = Foreign /\ file'[p] # Foreign =>
           pc \in Unlinking /\ pc' \notin Unlinking /\ p = TargetOf[tx]
<1>2. CallInv /\ [Next]_vars => [Promised]_vars
  BY <1>1, UnlinkBegins
<1>3. QED
  BY <1>2, CallCorrect, PTL DEF Spec, LaterWorkLostOnlyInTheWindow

-----------------------------------------------------------------------------
(* The hard stop. *)

\* A stopped session is at rest or undoing.
StoppedIsIdle == hardStop => pc \in {"idle"} \cup UndoStep

LEMMA StoppedStep == TypeInv /\ StoppedIsIdle /\ [Next]_vars => StoppedIsIdle'
<1> SUFFICES ASSUME TypeInv, StoppedIsIdle, [Next]_vars
             PROVE  StoppedIsIdle'
  OBVIOUS
<1> USE DEF TypeInv, TypeOK, StoppedIsIdle, UndoStep
<1>1. ASSUME NEW t \in Transaction, Begin(t)
      PROVE  StoppedIsIdle'
  BY <1>1 DEF Begin, PrepareRefused, Prepare, ExecuteReplay, ExecuteBroken,
     ExecuteRefused, ExecuteResume, ExecuteFresh, UndoRefused, UndoAgain, Undo
<1>2. ASSUME Continue
      PROVE  StoppedIsIdle'
  BY <1>2 DEF Continue, FinishPrepare, WriteJournal, CheckCurrent, CheckDrifted,
     ReconcileAbsent, ReconcilePartial, ReconcileDone, ReconcileConflict,
     DiscardPartial, OpenTarget, WriteFirstHalf, WriteSecondHalf, WriteHalf, Commit,
     Verify, OpenReceipt, WriteReceipt, ReceiptExists, Finish, ReceiptFails,
     RestoreUnproven, RestoreCheck, RestoreUnlink, RolledBack, UndoUnlink,
     FinishUndo, Unlink
<1>3. ASSUME Environment
      PROVE  StoppedIsIdle'
  BY <1>3 DEF Environment, Crash, Fault, LoseManifest, LoseReceipt, Issue, OwnerEdits
<1>4. CASE UNCHANGED vars
  BY <1>4
<1>5. QED
  BY <1>1, <1>2, <1>3, <1>4 DEF Next, Engine

\* A stopped session writes nothing and advances nothing, except to undo.
THEOREM HardStopped == Spec => HardStopHolds
<1> DEFINE Held == /\ hardStop'
                   /\ \A t \in Transaction : journal'[t] \in {journal[t], "undone"}
                   /\ \A p \in Path : file'[p] \in {file[p]} \cup OwnerContent
<1>1. TypeInv /\ StoppedIsIdle /\ [Next]_vars => [hardStop /\ result' # "crashed" => Held]_vars
  <2> SUFFICES ASSUME TypeInv, StoppedIsIdle, Next, hardStop, result' # "crashed"
               PROVE  Held
    OBVIOUS
  <2> USE PreviewAssumption, ContentFacts DEF TypeInv, TypeOK, StoppedIsIdle, UndoStep
  <2>1. ASSUME NEW t \in Transaction, Begin(t)
        PROVE  Held
    BY <2>1 DEF Begin, PrepareRefused, Prepare, ExecuteReplay, ExecuteBroken,
       ExecuteRefused, ExecuteResume, ExecuteFresh, UndoRefused, UndoAgain, Undo
  <2>2. ASSUME Continue
        PROVE  Held
    <3>1. UndoUnlink \/ FinishUndo
      BY <2>2 DEF Continue, FinishPrepare, WriteJournal, CheckCurrent, CheckDrifted,
         ReconcileAbsent, ReconcilePartial, ReconcileDone, ReconcileConflict,
         DiscardPartial, OpenTarget, WriteFirstHalf, WriteSecondHalf, WriteHalf,
         Commit, Verify, OpenReceipt, WriteReceipt, ReceiptExists, Finish,
         ReceiptFails, RestoreUnproven, RestoreCheck, RestoreUnlink, RolledBack
    <3>2. CASE UndoUnlink
      <4>1. hardStop' /\ journal' = journal
        BY <3>2 DEF UndoUnlink, Unlink, session
      <4>2. \A p \in Path : file'[p] \in {file[p], Absent}
        BY <3>2 DEF UndoUnlink, Unlink, SetTarget
      <4>3. QED
        BY <4>1, <4>2 DEF OwnerContent
    <3>3. CASE FinishUndo
      <4>1. hardStop' /\ file' = file
        BY <3>3 DEF FinishUndo, session
      <4>2. \A t \in Transaction : journal'[t] \in {journal[t], "undone"}
        BY <3>3 DEF FinishUndo, Advance
      <4>3. QED
        BY <4>1, <4>2
    <3>4. QED
      BY <3>1, <3>2, <3>3
  <2>3. ASSUME Environment
        PROVE  Held
    <3>1. CASE Crash
      BY <3>1 DEF Crash
    <3>2. CASE Fault
      BY <3>2 DEF Fault
    <3>3. CASE \E p \in Path : OwnerEdits(p)
      BY <3>3 DEF OwnerEdits
    <3>4. CASE \E t \in Transaction :
                 LoseManifest(t) \/ LoseReceipt(t) \/ \E k \in Token : Issue(t, k)
      BY <3>4 DEF LoseManifest, LoseReceipt, Issue
    <3>5. QED
      BY <2>3, <3>1, <3>2, <3>3, <3>4 DEF Environment
  <2>4. QED
    BY <2>1, <2>2, <2>3 DEF Next, Engine
<1>2. Init => StoppedIsIdle
  BY DEF Init, StoppedIsIdle
<1>3. CallInv => TypeInv
  BY DEF CallInv
<1>4. QED
  BY <1>1, <1>2, <1>3, StoppedStep, CallCorrect, PTL DEF Spec, HardStopHolds

-----------------------------------------------------------------------------
(* What a call reports.                                                       *)

\* A call reports when it ends: while one runs, nothing is reported.
ReportInv == (pc # "idle" => result = "none") /\ ReportsAreProven

\* The steps that report nothing of the kind, and end or begin a call.
LEMMA QuietReport ==
  result' \notin {"applied", "replayed", "undone", "alreadyUndone"} => ReportsAreProven'
BY DEF ReportsAreProven

\* An execute reports from the receipt it finished or read, an undo from the
\* target it found given back; between calls only the owner touches a target.
LEMMA ReportStep ==
  CallInv /\ (~Tampering => ReceiptInv) /\ ReversalInv /\ ReportInv /\ [Next]_vars
    => ReportInv'
<1> SUFFICES ASSUME CallInv, ~Tampering => ReceiptInv, ReversalInv, ReportInv, [Next]_vars
             PROVE  ReportInv'
  OBVIOUS
<1> USE DEF CallInv, TypeInv, TypeOK, ReportInv
<1>1. ASSUME NEW t \in Transaction, Begin(t)
      PROVE  ReportInv'
  <2>1. CASE ExecuteReplay(t) \/ UndoAgain(t)
    <3>1. UNCHANGED <<pc, file, journal, receipt>> /\ tx' = t /\ pc = "idle"
      BY <2>1 DEF ExecuteReplay, UndoAgain
    <3>2. CASE ExecuteReplay(t)
      BY <3>1, <3>2 DEF ExecuteReplay, ReportsAreProven
    <3>3. CASE UndoAgain(t)
      BY <3>1, <3>3 DEF UndoAgain, ReportsAreProven, OwnerContent
    <3>4. QED
      BY <2>1, <3>2, <3>3
  <2>2. CASE PrepareRefused(t) \/ ExecuteBroken(t) \/ ExecuteRefused(t) \/ UndoRefused(t)
    BY <2>2, QuietReport DEF PrepareRefused, ExecuteBroken, ExecuteRefused, UndoRefused
  <2>3. CASE \/ Prepare(t) \/ Undo(t)
             \/ \E s \in Stamp : ExecuteResume(t, s) \/ \E k \in Token : ExecuteFresh(t, k, s)
    BY <2>3, QuietReport DEF Prepare, Undo, ExecuteResume, ExecuteFresh
  <2>4. QED
    BY <1>1, <2>1, <2>2, <2>3 DEF Begin
<1>2. ASSUME Continue
      PROVE  ReportInv'
  <2>1. pc # "idle" /\ result = "none"
    BY <1>2 DEF Continue, FinishPrepare, WriteJournal, CheckCurrent, CheckDrifted,
       ReconcileAbsent, ReconcilePartial, ReconcileDone, ReconcileConflict,
       DiscardPartial, OpenTarget, WriteFirstHalf, WriteSecondHalf, WriteHalf, Commit,
       Verify, OpenReceipt, WriteReceipt, ReceiptExists, Finish, ReceiptFails,
       RestoreUnproven, RestoreCheck, RestoreUnlink, RolledBack, UndoUnlink, FinishUndo
  <2>2. CASE Finish
    <3>1. journal'[tx] \in Completed /\ tx' = tx /\ receipt' = receipt
          /\ result' = "applied" /\ pc' = "idle"
      BY <2>2 DEF Finish, Completed
    <3>2. ~Tampering => receipt[tx].status = "whole"
      BY <2>2 DEF Finish, ReceiptInv, ReceiptInHand
    <3>3. QED
      BY <3>1, <3>2 DEF ReportsAreProven
  <2>3. CASE FinishUndo
    <3>1. journal'[tx] = "undone" /\ tx' = tx /\ file' = file
          /\ result' = "undone" /\ pc' = "idle"
      BY <2>3 DEF FinishUndo
    <3>2. Target(tx) \in OwnerContent
      BY <2>3 DEF FinishUndo, ReversalInv, GivingBack
    <3>3. QED
      BY <3>1, <3>2 DEF ReportsAreProven
  <2>4. CASE \/ WriteJournal \/ CheckCurrent \/ ReconcileAbsent \/ ReconcilePartial
             \/ ReconcileDone \/ WriteFirstHalf \/ WriteSecondHalf \/ Commit \/ Verify
             \/ OpenReceipt \/ WriteReceipt \/ ReceiptFails \/ RestoreCheck
    <3>1. result' = result
      BY <2>4 DEF WriteJournal, CheckCurrent, ReconcileAbsent, ReconcilePartial,
         ReconcileDone, WriteFirstHalf, WriteSecondHalf, WriteHalf, Commit, Verify,
         OpenReceipt, WriteReceipt, ReceiptFails, RestoreCheck
    <3>2. QED
      BY <2>1, <3>1, QuietReport
  <2>5. CASE \/ FinishPrepare \/ CheckDrifted \/ ReconcileConflict \/ DiscardPartial
             \/ OpenTarget \/ ReceiptExists \/ RestoreUnproven \/ RestoreUnlink
             \/ RolledBack \/ UndoUnlink
    <3>1. \/ result' = result
          \/ pc' = "idle" /\ result' \in {"prepared", "refused", "drift", "conflict",
                                          "error", "recoveryFailed", "rolledBack"}
      BY <2>5 DEF FinishPrepare, CheckDrifted, ReconcileConflict, DiscardPartial,
         OpenTarget, ReceiptExists, RestoreUnproven, RestoreUnlink, RolledBack,
         UndoUnlink, Unlink
    <3>2. QED
      BY <2>1, <3>1, QuietReport
  <2>6. QED
    BY <1>2, <2>2, <2>3, <2>4, <2>5 DEF Continue
<1>3. CASE Crash \/ Fault
  BY <1>3, QuietReport DEF Crash, Fault
<1>4. ASSUME NEW t \in Transaction,
             LoseManifest(t) \/ LoseReceipt(t) \/ \E k \in Token : Issue(t, k)
      PROVE  ReportInv'
  BY <1>4 DEF LoseManifest, LoseReceipt, Issue, ReportsAreProven
<1>5. ASSUME NEW p \in Path, OwnerEdits(p)
      PROVE  ReportInv'
  BY <1>5, PreviewAssumption DEF OwnerEdits, ReportsAreProven
<1>6. CASE UNCHANGED vars
  BY <1>6 DEF ReportsAreProven
<1>7. QED
  BY <1>1, <1>2, <1>3, <1>4, <1>5, <1>6 DEF Next, Engine, Environment

\* The engine reports a change applied, replayed or undone only with the proof of
\* it on disk: the finished journal and the whole receipt, or the target given
\* back to its owner.
THEOREM ReportsProven == Spec => []ReportsAreProven
<1>1. Init => ReportInv /\ ReversalInv
  BY DEF Init, ReportInv, ReportsAreProven, ReversalInv, GivingBack, ReversedLeavesNothing
<1>2. ReportInv => ReportsAreProven
  BY DEF ReportInv
<1>3. CASE Tampering
  <2>1. CallInv /\ ReversalInv /\ ReportInv /\ [Next]_vars => ReportInv'
    BY <1>3, ReportStep
  <2>2. QED
    BY <1>1, <1>2, <2>1, ReversalStep, CallCorrect, PTL DEF Spec
<1>4. CASE ~Tampering
  <2>1. Init => ReceiptInv
    BY DEF Init, ReceiptInv, ReceiptInHand, FinishedIsReceipted
  <2>2. CallInv /\ CallInv' /\ ReceiptInv /\ [Next]_vars => ReceiptInv'
    BY <1>4, ReceiptStep
  <2>3. CallInv /\ ReceiptInv /\ ReversalInv /\ ReportInv /\ [Next]_vars => ReportInv'
    BY <1>4, ReportStep
  <2>4. QED
    BY <1>1, <1>2, <2>1, <2>2, <2>3, ReversalStep, CallCorrect, PTL DEF Spec
<1>5. QED
  BY <1>3, <1>4
=============================================================================
