--------------------------- MODULE JourneyWalkProofs ---------------------------
(* Proofs about JourneyWalk and the assessment it rests on, for any jobs,      *)
(* catalogue versions, inspections, fallbacks, claims and failing operations;  *)
(* and about the inspection a walk starts from (ContainedInspection), for any  *)
(* files, folders, limits and edits.                                           *)
EXTENDS JourneyWalk, ContainedInspection, FiniteSetTheorems, SequenceTheorems, WellFoundedInduction, TLAPS

--------------------------------------------------------------------------------
(* Evidence: what the levels do for every set of states. *)

(* The strongest item of some evidence is the level no item exceeds and one     *)
(* reaches.                                                                     *)
LEMMA StrongestReached ==
    ASSUME NEW states, states # {}
    PROVE  /\ Strongest(states) \in Level
           /\ \A s \in states : Ceiling(s) <= Strongest(states)
           /\ \E s \in states : Ceiling(s) = Strongest(states)
<1> DEFINE Top(level) == /\ \A s \in states : Ceiling(s) <= level
                         /\ \E s \in states : Ceiling(s) = level
<1>1. \A s \in states : Ceiling(s) \in {0, 1, 2, 3}
  BY DEF Ceiling, Unknown, Reported, Supported, Verified
<1>2. Level = {0, 1, 2, 3}
  BY DEF Level, Unknown, Verified
<1>3. \E level \in Level : Top(level)
  <2>1. CASE \E s \in states : Ceiling(s) = 3
    BY <1>1, <1>2, <2>1
  <2>2. CASE (\E s \in states : Ceiling(s) = 2) /\ ~ \E s \in states : Ceiling(s) = 3
    BY <1>1, <1>2, <2>2
  <2>3. CASE (\E s \in states : Ceiling(s) = 1) /\ ~ \E s \in states : Ceiling(s) \in {2, 3}
    BY <1>1, <1>2, <2>3
  <2>4. CASE \A s \in states : Ceiling(s) = 0
    BY <1>1, <1>2, <2>4
  <2>. QED
    BY <1>1, <2>1, <2>2, <2>3, <2>4
<1>. QED
  BY <1>3 DEF Strongest

(* Without an observation nothing is Verified. *)
LEMMA UnobservedNotVerified ==
    ASSUME NEW states, "observed" \notin states
    PROVE  EvidenceLevel(states) # Verified
<1>1. CASE states = {} \/ "conflicting" \in states
  BY <1>1 DEF EvidenceLevel, Unknown, Verified
<1>2. CASE states # {} /\ "conflicting" \notin states
  <2>1. \A s \in states : Ceiling(s) \in {0, 1, 2}
    BY DEF Ceiling, Unknown, Reported, Supported
  <2>2. Strongest(states) \in {0, 1, 2}
    BY <1>2, <2>1, StrongestReached
  <2>. QED
    BY <1>2, <2>2 DEF EvidenceLevel, Smaller, Supported, Verified
<1>. QED
  BY <1>1, <1>2

(* The person's account never lifts a level above itself or Reported.           *)
LEMMA AccountLiftsToReported ==
    ASSUME NEW states
    PROVE  EvidenceLevel(states \cup {"user-reported"}) <=
               (IF EvidenceLevel(states) >= Reported THEN EvidenceLevel(states) ELSE Reported)
<1> DEFINE more == states \cup {"user-reported"}
<1>. USE DEF Unknown, Reported, Supported, Verified
<1>1. Ceiling("user-reported") = 1
  BY DEF Ceiling
<1>2. Level = {0, 1, 2, 3}
  BY DEF Level
<1>3. Strongest(more) \in Level
  BY StrongestReached
<1>4. PICK s \in more : Ceiling(s) = Strongest(more)
  BY StrongestReached
<1>5. CASE "conflicting" \in states
  BY <1>5 DEF EvidenceLevel
<1>6. CASE states = {}
  <2>1. s = "user-reported"
    BY <1>4, <1>6
  <2>. QED
    BY <1>1, <1>4, <1>6, <2>1 DEF EvidenceLevel, Smaller, NeverVerified
<1>7. CASE states # {} /\ "conflicting" \notin states
  <2>1. /\ Strongest(states) \in Level
        /\ \A t \in states : Ceiling(t) <= Strongest(states)
    BY <1>7, StrongestReached
  <2>2. Strongest(more) <= Strongest(states) \/ Strongest(more) = 1
    BY <1>1, <1>4, <2>1
  <2>3. more \cap NeverVerified = states \cap NeverVerified
    BY DEF NeverVerified
  <2>. QED
    BY <1>2, <1>3, <1>7, <2>1, <2>2, <2>3 DEF EvidenceLevel, Smaller
<1>. QED
  BY <1>5, <1>6, <1>7

(* What an assessment claims, its evidence supports. *)
LEMMA AssessmentIsHonest ==
    ASSUME NEW found
    PROVE  Honest(AssessOne(found)) /\ Honest(Corrected(AssessOne(found)))
<1> DEFINE finding == AssessOne(found)
<1>1. finding.level = EvidenceLevel(finding.evidence)
  BY DEF AssessOne
<1>2. ASSUME finding.state \in {"working", "partial"} PROVE Supports(finding.evidence)
  <2>1. Supports(Items(found, "outcome"))
    BY <1>2 DEF AssessOne, CapabilityState
  <2>. QED
    BY <2>1 DEF AssessOne, Supports, Linked, Assessed
<1>3. ASSUME finding.boundary = "safe" PROVE Supports(finding.evidence)
  <2>1. Supports(Items(found, "boundary"))
    BY <1>3 DEF AssessOne, SafetyBoundary
  <2>. QED
    BY <2>1 DEF AssessOne, Supports, Linked
<1>4. Supports(finding.evidence) => Supports(finding.evidence \cup {"user-reported"})
  BY DEF Supports
<1>. QED
  BY <1>1, <1>2, <1>3, <1>4 DEF Honest, Corrected, AssessOne

(* A fallback is told, never seen. *)
Hearsay(found) ==
    \A s \in found : /\ s.state \in {"inferred", "user-reported", "not-assessed"}
                     /\ s.health \in {"healthy", "could-not-check"}

LEMMA HearsayIsUnobserved ==
    ASSUME NEW found, Hearsay(found)
    PROVE  "observed" \notin Linked(found)
<1>1. ASSUME NEW role PROVE "observed" \notin Items(found, role)
  BY DEF Items, EffectiveState, Hearsay, ClaimSupporting
<1>2. "observed" \notin Configuration(found)
  BY <1>1 DEF Configuration
<1>3. "observed" \notin Failures(found)
  BY DEF Failures
<1>. QED
  BY <1>1, <1>2, <1>3 DEF Linked, Assessed

LEMMA FallbackIsHearsay ==
    ASSUME NEW some PROVE Hearsay(FallbackEnvelope(some))
BY DEF FallbackEnvelope, Hearsay, ClaimSignal, ClaimState

(* What is told is never Verified, and may always be corrected. *)
LEMMA HearsayNeverVerified ==
    ASSUME NEW found, Hearsay(found)
    PROVE  LET finding == AssessOne(found)
           IN  /\ \A shown \in {finding, Corrected(finding)} : Honest(shown) /\ shown.level # Verified
               /\ ~ CorrectionRefused(finding)
<1> DEFINE finding == AssessOne(found)
<1>1. finding.level = EvidenceLevel(Linked(found)) /\ finding.evidence = Linked(found)
  BY DEF AssessOne
<1>2. Corrected(finding).level = EvidenceLevel(Linked(found) \cup {"user-reported"})
  BY <1>1 DEF Corrected, AssessOne
<1>3. finding.level # Verified /\ Corrected(finding).level # Verified
  BY <1>1, <1>2, HearsayIsUnobserved, UnobservedNotVerified
<1>4. ~ CorrectionRefused(finding)
  <2>1. EvidenceLevel(Linked(found)) \in Nat /\ EvidenceLevel(Linked(found) \cup {"user-reported"}) \in Nat
    <3>1. ASSUME NEW states PROVE EvidenceLevel(states) \in Nat
      BY StrongestReached DEF EvidenceLevel, Smaller, Level, Unknown, Supported, Verified
    <3>. QED  BY <3>1
  <2>. QED
    BY <1>1, <1>2, <2>1, AccountLiftsToReported DEF CorrectionRefused, Reported
<1>. QED
  BY <1>3, <1>4, AssessmentIsHonest

--------------------------------------------------------------------------------
(* The journey. *)

(* Nothing is confirmed or inspected before the job map, and no fallback        *)
(* follows a collection that succeeded.                                         *)
Beginning == {"permission", "collecting", "fallback"}
NothingYet ==
    /\ stage \in Beginning => confirmed = {} /\ envelope = {}
    /\ stage \in {"permission", "collecting"} => ~ guided

(* A guided session assesses hearsay only. *)
GuidedByHearsay == guided => Hearsay(envelope)

(* No way leads from a receipt or a change that stands back to an approval. *)
AfterReceipt ==
    receipt # "none" \/ standing => stage \in {"receipt", "verify", "undo", "hard_stop", "contribution", "closed"}

WalkInv == NothingYet /\ ConfirmedLeavesNoDraft /\ GuidedByHearsay /\ AfterReceipt

IInv == TypeOK /\ WalkInv

LEMMA InitInv == Init => IInv
<1>. SUFFICES ASSUME Init PROVE IInv
  OBVIOUS
<1>1. TypeOK
  BY DEF Init, TypeOK, Stage, NoBrief
<1>2. WalkInv
  BY DEF Init, WalkInv, NothingYet, ConfirmedLeavesNoDraft, GuidedByHearsay, Hearsay, AfterReceipt
<1>. QED
  BY <1>1, <1>2 DEF IInv

(* What may be claimed and what is made of it have their types. *)
LEMMA ClaimsTyped ==
    /\ \A s \in Signal : ClaimOf(s) \in Claim
    /\ \A c \in Claim : Held(c) \in Claim /\ ClaimSignal(c) \in Signal
    /\ \A some \in SUBSET Claim : FallbackEnvelope(some) \subseteq Signal
<1>1. \A s \in Signal : ClaimOf(s) \in Claim
  BY DEF ClaimOf, ClaimLevel, Claim, Signal
<1>2. \A c \in Claim : Held(c) \in Claim
  BY DEF Held, Claim
<1>3. \A c \in Claim : ClaimSignal(c) \in Signal
  BY DEF ClaimSignal, ClaimState, Claim, Signal, Role, Health, State, Age
<1>4. [role |-> "none", health |-> "could-not-check", state |-> "not-assessed", age |-> "fresh"] \in Signal
  BY DEF Signal, Role, Health, State, Age
<1>. QED
  BY <1>1, <1>2, <1>3, <1>4 DEF FallbackEnvelope

(* Every step keeps the types and what the stages promise of each other. *)
LEMMA Inductive == IInv /\ [Next]_vars => IInv'
<1>. SUFFICES ASSUME IInv, [Next]_vars PROVE IInv'
  OBVIOUS
<1>. USE DEF IInv, TypeOK, WalkInv, NothingYet, ConfirmedLeavesNoDraft, GuidedByHearsay, AfterReceipt,
     Beginning, jobState, source, catalogue, change, rest
<1>1. CASE BeginCollection
  BY <1>1 DEF BeginCollection, Stage
<1>2. CASE CompleteCollection
  <2>1. envelope' \subseteq Signal /\ ~ guided /\ confirmed = {}
    BY <1>2, WalkAssumption DEF CompleteCollection, WalkAssumption
  <2>2. Proposed(envelope') \subseteq Job
    BY <2>1, WalkAssumption DEF Proposed, WalkAssumption, Signal
  <2>3. drafts' \in [Job -> {"none", "draft", "unreadable"}] /\ selected' \subseteq Job
    BY <1>2, <2>2 DEF CompleteCollection, Stored
  <2>. QED
    BY <1>2, <2>1, <2>3 DEF CompleteCollection, Stage
<1>3. CASE CompleteFallback
  <2>1. claims' \subseteq Claim
    BY <1>3, ClaimsTyped, WalkAssumption DEF CompleteFallback, WalkAssumption
  <2>2. envelope' = {}
    BY <1>3 DEF CompleteFallback
  <2>. QED
    BY <1>3, <2>1, <2>2 DEF CompleteFallback, Stage, Hearsay
<1>4. CASE AddFallbackEvidence
  <2>1. claims' \subseteq Claim
    BY <1>4, ClaimsTyped, WalkAssumption DEF AddFallbackEvidence, WalkAssumption
  <2>. QED
    BY <1>4, <2>1 DEF AddFallbackEvidence
<1>5. CASE ContinueFallback
  BY <1>5, ClaimsTyped, FallbackIsHearsay DEF ContinueFallback, Stage
<1>6. ASSUME NEW j \in Job, AddJob(j) \/ EditJob(j) \/ DiscardJob(j) \/ ConfirmJob(j) \/ DeletionFails(j)
      PROVE  IInv'
  BY <1>6 DEF AddJob, EditJob, DiscardJob, ConfirmJob, DeletionFails, Stored
<1>7. ASSUME NEW j \in Job, SelectCatalogueBrief(j) \/ SelectAdaptation(j)
      PROVE  IInv'
  BY <1>7 DEF SelectCatalogueBrief, SelectAdaptation, Displayable, Stage
<1>8. ASSUME NEW jobs \in SUBSET Job, SelectJobs(jobs)
      PROVE  IInv'
  BY <1>8 DEF SelectJobs
<1>9. CASE Diagnose
  <2>1. /\ stage' \in {"shelf", "map"} /\ told' \in {"nothing", "map", "error"} /\ ports' \in BOOLEAN
        /\ fetched' \in Version \cup {NoVersion, "unusable"} /\ shelf' \in Version \cup {NoVersion}
        /\ mapped' \subseteq Job
    BY <1>9 DEF Diagnose, Displayable
  <2>2. UNCHANGED <<jobState, source, brief, change, startup, session, standing>>
    BY <1>9 DEF Diagnose
  <2>3. receipt = "none" /\ ~ standing
    BY <1>9 DEF Diagnose
  <2>. QED
    BY <2>1, <2>2, <2>3 DEF Stage
<1>10. CASE RecordCatalogueFetch \/ OpenCatalogueShelf \/ ReturnToCatalogueShelf
  BY <1>10 DEF RecordCatalogueFetch, OpenCatalogueShelf, ReturnToCatalogueShelf, Displayable, Stage, NoBrief
<1>11. CASE RefuseAdaptation \/ PreviewAdaptation \/ ApproveAdaptation
  BY <1>11 DEF RefuseAdaptation, PreviewAdaptation, ApproveAdaptation, Stage
<1>12. CASE ApplyAdaptation \/ ApplyFails \/ VerifyAdaptation \/ UndoAdaptation
  <2>1. CASE ApplyAdaptation
    BY <2>1 DEF ApplyAdaptation, Stage
  <2>2. CASE VerifyAdaptation
    BY <2>2 DEF VerifyAdaptation, Stage
  <2>3. CASE ApplyFails
    <3>1. stage' \in {"refused", "hard_stop"} /\ receipt = "none" /\ receipt' = receipt
      BY <2>3 DEF ApplyFails
    <3>2. standing' \in BOOLEAN /\ (standing' => stage' = "hard_stop")
      <4>1. ~ standing
        BY <2>3 DEF ApplyFails
      <4>2. CASE standing' = standing
        BY <4>1, <4>2
      <4>3. CASE standing' = TRUE /\ stage' = "hard_stop"
        BY <4>3
      <4>. QED
        BY <2>3, <4>2, <4>3 DEF ApplyFails
    <3>3. consent' \in {"none", "shown", "issued", "spent"} /\ target' \in {"absent", "ours", "owner's"}
      BY <2>3 DEF ApplyFails
    <3>4. UNCHANGED <<jobState, source, mapped, catalogue, chosen, startup, told, session>>
      BY <2>3 DEF ApplyFails
    <3>. QED
      BY <3>1, <3>2, <3>3, <3>4 DEF Stage
  <2>4. CASE UndoAdaptation
    <3>1. stage' \in {"undo", "hard_stop"} /\ target' \in {"absent", "ours", "owner's"}
      BY <2>4 DEF UndoAdaptation
    <3>2. standing' \in BOOLEAN
      BY <2>4 DEF UndoAdaptation
    <3>3. UNCHANGED <<jobState, source, mapped, catalogue, chosen, consent, receipt, startup, told, session>>
      BY <2>4 DEF UndoAdaptation
    <3>. QED
      BY <3>1, <3>2, <3>3 DEF Stage
  <2>. QED
    BY <1>12, <2>1, <2>2, <2>3, <2>4
<1>13. CASE ReadReceipt \/ ReceiptDamaged \/ OwnerEdits \/ ChooseContribution
  <2>1. CASE ReadReceipt \/ ReceiptDamaged
    BY <2>1 DEF ReadReceipt, ReceiptDamaged, Stage
  <2>2. CASE OwnerEdits
    BY <2>2 DEF OwnerEdits, Stage
  <2>3. CASE ChooseContribution
    BY <2>3 DEF ChooseContribution, Stage
  <2>. QED
    BY <1>13, <2>1, <2>2, <2>3
<1>14. CASE Close \/ CloseFails
  <2>1. drafts' \in [Job -> {"none", "draft", "unreadable"}] /\ receipt' \in {"none", "readable", "unreadable"}
    BY <1>14 DEF Close, CloseFails, Stored
  <2>2. session' \in {"open", "erased", "aborted"} /\ Forget
    BY <1>14 DEF Close, CloseFails
  <2>3. stage' = "closed" /\ standing' \in BOOLEAN
    BY <2>2 DEF Forget
  <2>4. /\ selected' = {} /\ confirmed' = {} /\ mapped' = {} /\ claims' = {} /\ envelope' = {}
        /\ chosen' = NoJob /\ consent' = "none" /\ ports' = FALSE
        /\ UNCHANGED <<guided, fetched, shelf, brief, target, startup, told>>
    BY <2>2 DEF Forget
  <2>. QED
    BY <2>1, <2>2, <2>3, <2>4 DEF Stage, Hearsay
<1>15. CASE UNCHANGED vars
  BY <1>15 DEF vars
<1>. QED
  BY <1>1, <1>2, <1>3, <1>4, <1>5, <1>6, <1>7, <1>8, <1>9, <1>10, <1>11, <1>12, <1>13, <1>14, <1>15
  DEF Next

LEMMA Always == Spec => []IInv
BY InitInv, Inductive, PTL DEF Spec

(* The model stays within its types. *)
THEOREM TypeCorrect == Spec => []TypeOK
BY Always, PTL DEF IInv

(* No record of a confirmed job is ever on disk beside its contract             *)
(* (journey.add_job, confirm_job, edit_job).                                    *)
THEOREM DraftsAreGone == Spec => []ConfirmedLeavesNoDraft
<1>1. IInv => ConfirmedLeavesNoDraft
  BY DEF IInv, WalkInv
<1>. QED
  BY Always, <1>1, PTL

(* No claim of a guided session is ever shown as Verified, whatever is claimed, *)
(* imported or corrected (journey._fallback_state, evidence_level,              *)
(* capmap.correct).                                                             *)
THEOREM NeverVerifiedByHearsay == Spec => []FallbackNeverVerified
<1>1. IInv => FallbackNeverVerified
  BY HearsayNeverVerified DEF IInv, WalkInv, GuidedByHearsay, FallbackNeverVerified
<1>. QED
  BY Always, <1>1, PTL

(* No change is selected or written while another stands, whatever fails, is    *)
(* undone or read back (journey's stages 7-8).                                  *)
THEOREM OneChange == Spec => OneChangeAtATime
<1> DEFINE Another == (chosen' # chosen /\ chosen' # NoJob) \/ (target # "ours" /\ target' = "ours")
<1>1. IInv /\ [Next]_vars => [Another => ~ standing]_vars
  <2>. SUFFICES ASSUME IInv, Next, Another PROVE ~ standing
    OBVIOUS
  <2>1. CASE \E j \in Job : SelectAdaptation(j)
    BY <2>1 DEF SelectAdaptation, IInv, WalkInv, AfterReceipt
  <2>2. CASE ApplyAdaptation \/ ApplyFails
    BY <2>2 DEF ApplyAdaptation, ApplyFails, IInv, WalkInv, AfterReceipt
  <2>3. CASE ~ (ApplyAdaptation \/ ApplyFails \/ \E j \in Job : SelectAdaptation(j))
    BY <2>3 DEF Next, BeginCollection, CompleteCollection, CompleteFallback, AddFallbackEvidence,
       ContinueFallback, AddJob, EditJob, DiscardJob, ConfirmJob, DeletionFails, SelectCatalogueBrief,
       SelectJobs, Diagnose, RecordCatalogueFetch, OpenCatalogueShelf,
       ReturnToCatalogueShelf, RefuseAdaptation, PreviewAdaptation, ApproveAdaptation, VerifyAdaptation,
       UndoAdaptation, ReadReceipt, ReceiptDamaged, OwnerEdits, ChooseContribution, Close, CloseFails,
       Forget, change
  <2>. QED
    BY <2>1, <2>2, <2>3
<1>. QED
  BY Always, <1>1, PTL DEF Spec, OneChangeAtATime

--------------------------------------------------------------------------------
(* The inspection: the two queues of files that are still to be opened. *)

(* The files some queue still holds. *)
Waiting == {f \in Files : \E k \in {"first", "rest"} : \E i \in 1 .. Len(queue[k]) : queue[k][i] = f}

Before == {ss \in Nat \X Nat : ss[1] < ss[2]}

(* Every set of files has a first one in the order of the walk. *)
LEMMA BeforeIsWellFounded == IsWellFoundedOn(Before, Nat)
BY NatLessThanWellFounded, Zenon DEF OpToRel, Before

LEMMA LeastIsOne ==
  ASSUME NEW S \in SUBSET Files, S # {}
  PROVE  Least(S) \in S /\ \A n \in S : Least(S) <= n
<1> Files \subseteq Nat
  BY FoldersAreShaped
<1>1. PICK least \in S : \A n \in S : <<n, least>> \notin Before
  BY BeforeIsWellFounded, WFMin
<1>2. ASSUME NEW n \in S
      PROVE  least <= n
  <2>1. n \in Nat /\ least \in Nat
    OBVIOUS
  <2>2. <<n, least>> \in Nat \X Nat /\ <<n, least>>[1] = n /\ <<n, least>>[2] = least
    BY <2>1
  <2>3. ~(n < least)
    BY <1>1, <2>2 DEF Before
  <2>4. QED
    BY <2>1, <2>3
<1>3. QED
  BY <1>2 DEF Least

(* Taking the head of a queue, or adding to its end, loses nothing else. *)
LEMMA TailKeeps ==
  ASSUME NEW S, NEW q \in Seq(S), q # <<>>
  PROVE  /\ Head(q) \in S /\ Tail(q) \in Seq(S)
         /\ \A i \in 1 .. Len(q) : q[i] = Head(q) \/ \E j \in 1 .. Len(Tail(q)) : Tail(q)[j] = q[i]
<1>1. Head(q) \in S /\ Tail(q) \in Seq(S) /\ Len(Tail(q)) = Len(q) - 1 /\ Head(q) = q[1]
      /\ \A j \in 1 .. Len(Tail(q)) : Tail(q)[j] = q[j + 1]
  BY HeadTailProperties, EmptySeq
<1>2. ASSUME NEW i \in 1 .. Len(q), i # 1
      PROVE  \E j \in 1 .. Len(Tail(q)) : Tail(q)[j] = q[i]
  <2>1. i - 1 \in 1 .. Len(Tail(q)) /\ Tail(q)[i - 1] = q[i]
    BY <1>1, <1>2, LenProperties
  <2>2. QED
    BY <2>1
<1>3. QED
  BY <1>1, <1>2

LEMMA AppendKeeps ==
  ASSUME NEW S, NEW q \in Seq(S), NEW f \in S
  PROVE  /\ Append(q, f) \in Seq(S)
         /\ \A i \in 1 .. Len(q) : \E j \in 1 .. Len(Append(q, f)) : Append(q, f)[j] = q[i]
         /\ \E j \in 1 .. Len(Append(q, f)) : Append(q, f)[j] = f
<1>1. Append(q, f) \in Seq(S) /\ Len(q) \in Nat /\ Len(Append(q, f)) = Len(q) + 1
      /\ Append(q, f)[Len(q) + 1] = f /\ \A i \in 1 .. Len(q) : Append(q, f)[i] = q[i]
  BY AppendProperties, LenProperties
<1>2. Len(q) + 1 \in 1 .. Len(Append(q, f)) /\ \A i \in 1 .. Len(q) : i \in 1 .. Len(Append(q, f))
  BY <1>1
<1>3. QED
  BY <1>1, <1>2

(* A file that waits is the next one, or waits for longer. *)
LEMMA DequeueKeeps ==
  ASSUME InspectionTypeOK, ~AllRead, Dequeue
  PROVE  /\ NextUp \in Files /\ queue' \in [{"first", "rest"} -> Seq(Files)]
         /\ Waiting \subseteq Waiting' \cup {NextUp}
<1> DEFINE k == DiagnosticFirst
<1>1. k \in {"first", "rest"} /\ queue \in [{"first", "rest"} -> Seq(Files)] /\ queue[k] \in Seq(Files) /\ queue[k] # <<>>
  BY DEF DiagnosticFirst, InspectionTypeOK, AllRead
<1>2. /\ NextUp = Head(queue[k]) /\ NextUp \in Files /\ Tail(queue[k]) \in Seq(Files)
      /\ \A i \in 1 .. Len(queue[k]) : queue[k][i] = NextUp \/ \E j \in 1 .. Len(Tail(queue[k])) : Tail(queue[k])[j] = queue[k][i]
  BY <1>1, TailKeeps DEF NextUp
<1>3. queue' = [queue EXCEPT ![k] = Tail(queue[k])]
  BY DEF Dequeue
<1> HIDE DEF k
<1>4. queue' \in [{"first", "rest"} -> Seq(Files)] /\ queue'[k] = Tail(queue[k])
      /\ \A l \in {"first", "rest"} \ {k} : queue'[l] = queue[l]
  BY <1>1, <1>2, <1>3
<1>5. ASSUME NEW l \in {"first", "rest"}, NEW i \in 1 .. Len(queue[l]), queue[l][i] # NextUp
      PROVE  \E j \in 1 .. Len(queue'[l]) : queue'[l][j] = queue[l][i]
  BY <1>2, <1>4, <1>5
<1>6. Waiting \subseteq Waiting' \cup {NextUp}
  <2> SUFFICES ASSUME NEW f \in Waiting, f # NextUp
               PROVE  f \in Waiting'
    OBVIOUS
  <2>1. PICK l \in {"first", "rest"} : \E i \in 1 .. Len(queue[l]) : queue[l][i] = f
    BY DEF Waiting
  <2>2. \E j \in 1 .. Len(queue'[l]) : queue'[l][j] = f
    BY <1>5, <2>1
  <2>3. QED
    BY <2>2 DEF Waiting
<1>7. QED
  BY <1>2, <1>4, <1>6

--------------------------------------------------------------------------------
(* What an inspection holds is typed, and no stamp is ahead of the edits. *)

Stamped == \A f \in Files : disk[f].stamp <= edits

(* An inspection starts well-typed. *)
LEMMA InspectionTypesInit == InspectionInit => InspectionTypeOK /\ Stamped
<1> SUFFICES ASSUME InspectionInit PROVE InspectionTypeOK /\ Stamped
  OBVIOUS
<1>1. disk \in [Files -> Nodes] /\ \A f \in Files : disk[f].stamp = 0
  BY FoldersAreShaped DEF InspectionInit
<1>2. queue \in [{"first", "rest"} -> Seq(Files)]
  BY EmptySeq DEF InspectionInit
<1>3. edits = 0 /\ 0 \in 0 .. MaxEdits
  BY FoldersAreShaped DEF InspectionInit
<1>4. entries \in [Files -> {None} \cup Entry] /\ total \in Nat /\ proofs \in BOOLEAN /\ complete \in BOOLEAN
  BY DEF InspectionInit
<1>5. QED
  BY <1>1, <1>2, <1>3, <1>4 DEF InspectionTypeOK, Stamped, InspectionInit

(* What the survey admits is a file, the target of a link included. *)
LEMMA AdmittedIs ==
  ASSUME NEW f \in Files, Admitted(f) # None
  PROVE  Admitted(f) \in Files
BY FoldersAreShaped DEF Admitted

(* A change to a file never takes its stamp back, and a write moves it. *)
Moved(f) ==
  /\ edits < MaxEdits /\ edits' = edits + 1 /\ f \in Files
  /\ edited' = edited \cup {f} /\ touched' \subseteq touched \cup {f}
  /\ disk' \in [Files -> Nodes] /\ disk'[f].stamp \in {disk[f].stamp, disk[f].stamp + 1}
  /\ touched' = touched \/ disk'[f].stamp = disk[f].stamp + 1
  /\ \A g \in Files \ {f} : disk'[g] = disk[g]

(* What the three ways a file changes do to its stamp. *)
LEMMA RaceMoves ==
  ASSUME InspectionTypeOK, Stamped, EvaluateRaced
  PROVE  Moved(Least(listed))
<1> DEFINE f == Least(listed)
<1>1. f \in Files
  BY LeastIsOne DEF EvaluateRaced, InspectionTypeOK
<1>2. disk[f] \in Nodes
  BY <1>1 DEF InspectionTypeOK
<1>3. disk' = [disk EXCEPT ![f] = [disk[f] EXCEPT !.shape = "gone"]]
  BY DEF EvaluateRaced
<1>4. [disk[f] EXCEPT !.shape = "gone"] \in Nodes
  BY <1>2 DEF Nodes, Shapes
<1> HIDE DEF f
<1>5. disk' \in [Files -> Nodes] /\ disk'[f] = [disk[f] EXCEPT !.shape = "gone"]
      /\ \A g \in Files \ {f} : disk'[g] = disk[g]
  BY <1>1, <1>3, <1>4 DEF InspectionTypeOK
<1>6. disk'[f].stamp = disk[f].stamp
  BY <1>2, <1>5 DEF Nodes
<1>7. QED
  BY <1>1, <1>5, <1>6 DEF Moved, EvaluateRaced, f

LEMMA WriteMoves ==
  ASSUME InspectionTypeOK, Stamped, NEW f \in Files, Write(f)
  PROVE  Moved(f)
<1>1. PICK b \in Bodies, s \in Sizes :
        disk' = [disk EXCEPT ![f].body = b, ![f].size = s, ![f].stamp = @ + 1]
  BY DEF Write
<1>2. disk[f] \in Nodes /\ disk[f].stamp + 1 \in 0 .. MaxEdits /\ s \in Nat
  <2>1. disk[f] \in Nodes /\ disk[f].stamp <= edits /\ edits \in Nat /\ edits < MaxEdits /\ MaxEdits \in Nat
    BY FoldersAreShaped DEF InspectionTypeOK, Stamped, Write, Changes
  <2>2. disk[f].stamp \in Nat
    BY <2>1 DEF Nodes
  <2>3. s \in Nat
    BY FoldersAreShaped
  <2>4. QED
    BY <2>1, <2>2, <2>3
<1>3. [disk[f] EXCEPT !.body = b, !.size = s, !.stamp = disk[f].stamp + 1] \in Nodes
      /\ [disk[f] EXCEPT !.body = b, !.size = s, !.stamp = disk[f].stamp + 1].stamp = disk[f].stamp + 1
  BY <1>2 DEF Nodes
<1>4. disk' = [disk EXCEPT ![f] = [disk[f] EXCEPT !.body = b, !.size = s, !.stamp = disk[f].stamp + 1]]
  BY <1>1 DEF InspectionTypeOK
<1>5. QED
  BY <1>3, <1>4 DEF Moved, Write, Changes, InspectionTypeOK

LEMMA ReplaceMoves ==
  ASSUME InspectionTypeOK, Stamped, NEW f \in Files, NEW s \in Replacements, Replace(f, s)
  PROVE  Moved(f)
<1>1. PICK later \in {0, 1} : disk' = [disk EXCEPT ![f] = [disk[f] EXCEPT !.shape = s, !.stamp = disk[f].stamp + later]]
  BY DEF Replace
<1>2. disk[f] \in Nodes /\ disk[f].stamp + later \in 0 .. MaxEdits /\ s \in Shapes
  BY FoldersAreShaped DEF InspectionTypeOK, Stamped, Replace, Changes, Nodes
<1>3. [disk[f] EXCEPT !.shape = s, !.stamp = disk[f].stamp + later] \in Nodes
      /\ [disk[f] EXCEPT !.shape = s, !.stamp = disk[f].stamp + later].stamp = disk[f].stamp + later
  BY <1>2 DEF Nodes
<1>4. disk[f].stamp + later \in {disk[f].stamp, disk[f].stamp + 1}
  BY <1>2 DEF Nodes
<1>5. QED
  BY <1>1, <1>3, <1>4 DEF Moved, Replace, Changes, InspectionTypeOK

(* A moved file leaves the disk well-typed and no stamp ahead of the edits. *)
LEMMA MovedKeeps ==
  ASSUME InspectionTypeOK, Stamped, NEW f, Moved(f)
  PROVE  /\ Stamped' /\ edits' \in 0 .. MaxEdits /\ disk' \in [Files -> Nodes]
         /\ edited' \subseteq Files /\ touched' \subseteq Files
         /\ \A g \in Files : disk[g].stamp <= disk'[g].stamp /\ disk[g].stamp \in Nat
<1>1. \A g \in Files : disk[g].stamp \in Nat
  BY DEF InspectionTypeOK, Nodes
<1>2. ASSUME NEW g \in Files
      PROVE  disk[g].stamp <= disk'[g].stamp /\ disk'[g].stamp <= edits'
  <2>1. CASE g = f
    BY <1>1, <2>1, FoldersAreShaped DEF InspectionTypeOK, Stamped, Moved
  <2>2. CASE g # f
    BY <1>1, <2>2, FoldersAreShaped DEF InspectionTypeOK, Stamped, Moved
  <2>3. QED
    BY <2>1, <2>2
<1>3. QED
  BY <1>1, <1>2, FoldersAreShaped DEF InspectionTypeOK, Stamped, Moved

(* What the owner does to a file that is open. *)
LEMMA HeldIs ==
  ASSUME InspectionTypeOK, NEW f \in Files, Write(f) \/ \E s \in Replacements : Replace(f, s)
  PROVE  /\ held' = held \/ (held # None /\ held'.file = held.file /\ held'.stamp = held.stamp)
         /\ held' \in {None} \cup [file : Files, stamp : 0 .. MaxEdits, body : Bodies, size : Nat,
                                linked : BOOLEAN, mixed : BOOLEAN]
<1>1. CASE Write(f)
  <2>1. PICK b \in Bodies, s \in Sizes :
          held' = held \/ (held # None /\ held' = [held EXCEPT !.body = b, !.size = s, !.mixed = TRUE])
    BY <1>1 DEF Write
  <2>2. QED
    BY <2>1, FoldersAreShaped DEF InspectionTypeOK
<1>2. CASE \E s \in Replacements : Replace(f, s)
  <2>1. held' = held \/ (held # None /\ held' = [held EXCEPT !.linked = FALSE])
    BY <1>2 DEF Replace
  <2>2. QED
    BY <2>1 DEF InspectionTypeOK
<1>3. QED
  BY <1>1, <1>2

(* The file that is open is the next one of the queue. *)
HeldIsNext == held # None => pc \in {"capturing", "gone"} /\ ~AllRead /\ held.file = NextUp

(* Every step keeps the types. *)
LEMMA InspectionTypesNext == InspectionTypeOK /\ Stamped /\ HeldIsNext /\ [InspectionNext]_inspectionVars => InspectionTypeOK' /\ Stamped'
<1> SUFFICES ASSUME InspectionTypeOK, Stamped, HeldIsNext, [InspectionNext]_inspectionVars
             PROVE  InspectionTypeOK' /\ Stamped'
  OBVIOUS
<1>0. CASE UNCHANGED inspectionVars
  BY <1>0 DEF InspectionTypeOK, Stamped, inspectionVars, owner, survey, capture, given
<1>1. CASE Launch \/ NoContainment \/ Confine \/ Prove \/ CollectForDiagnosis
  BY <1>1 DEF InspectionTypeOK, Stamped, owner, survey, capture, given, Launch, NoContainment, Confine, Prove, CollectForDiagnosis
<1>2. CASE ListDirectory
  BY <1>2 DEF InspectionTypeOK, Stamped, owner, survey, capture, given, ListDirectory
<1>3. CASE Evaluate
  <2> DEFINE f == Least(listed)
  <2>1. f \in Files /\ listed' = listed \ {f}
        /\ UNCHANGED <<owner, walk, capture, result, given, proofs, pc, checked, changed>>
    BY <1>3, LeastIsOne DEF Evaluate, InspectionTypeOK
  <2>2. queue' \in [{"first", "rest"} -> Seq(Files)]
    <3>1. CASE Admitted(f) = None
      BY <1>3, <3>1 DEF Evaluate, InspectionTypeOK
    <3>2. CASE Admitted(f) # None
      <4> DEFINE g == Admitted(f)  k == Priority(g)
      <4>1. g \in Files /\ k \in {"first", "rest"}
        BY <2>1, <3>2, AdmittedIs DEF Priority
      <4>2. queue' = [queue EXCEPT ![k] = Append(queue[k], g)]
        BY <1>3, <3>2 DEF Evaluate
      <4> HIDE DEF g, k
      <4>3. queue[k] \in Seq(Files) /\ Append(queue[k], g) \in Seq(Files)
        BY <4>1, AppendKeeps DEF InspectionTypeOK
      <4>4. QED
        BY <4>1, <4>2, <4>3 DEF InspectionTypeOK
    <3>3. QED
      BY <3>1, <3>2
  <2>3. QED
    BY <2>1, <2>2 DEF InspectionTypeOK, Stamped, owner, capture, given
<1>4. CASE EvaluateRaced
  <2>1. Moved(Least(listed))
    BY <1>4, RaceMoves
  <2>2. pc' \in {"aborted", "gone"} /\ UNCHANGED <<survey, capture, given, proofs, checked, changed>>
    BY <1>4 DEF EvaluateRaced, Abort
  <2>3. QED
    BY <2>1, <2>2, MovedKeeps DEF InspectionTypeOK, survey, capture, given
<1>5. CASE SurveyDone \/ CaptureDone \/ Report \/ Kill \/ Collect
  BY <1>5 DEF InspectionTypeOK, Stamped, owner, survey, capture, given, SurveyDone, CaptureDone, Report, Kill, Collect
<1>6. CASE SkipCaptured \/ LeaveUnread
  <2>1. Dequeue /\ ~AllRead /\ (held' = held \/ held' = None) /\ complete' \in BOOLEAN
        /\ UNCHANGED <<owner, walk, listed, entries, total, opened, proofs, pc, checked, changed>>
    BY <1>6 DEF SkipCaptured, LeaveUnread, NotRead, NextFile, capture, InspectionTypeOK
  <2>2. QED
    BY <2>1, DequeueKeeps DEF InspectionTypeOK, Stamped, owner
<1>7. CASE Open
  <2> DEFINE f == NextUp
  <2>1. f \in Files /\ disk[f] \in Nodes
    <3>1. queue[DiagnosticFirst] \in Seq(Files) /\ queue[DiagnosticFirst] # <<>>
      BY <1>7 DEF DiagnosticFirst, InspectionTypeOK, AllRead, Open, NextFile
    <3>2. QED
      BY <3>1, TailKeeps DEF NextUp, InspectionTypeOK
  <2>2. held' = [file |-> f, stamp |-> disk[f].stamp, body |-> disk[f].body, size |-> disk[f].size, linked |-> TRUE, mixed |-> FALSE]
        /\ opened' = opened \cup {f} /\ touched' = touched \ {f}
        /\ UNCHANGED <<disk, edits, edited, survey, entries, unread, complete, total, result, given, proofs, pc, checked, changed>>
    BY <1>7 DEF Open
  <2> HIDE DEF f
  <2>3. QED
    BY <2>1, <2>2 DEF InspectionTypeOK, Stamped, Nodes, survey
<1>8. CASE Read
  <2>1. held \in [file : Files, stamp : 0 .. MaxEdits, body : Bodies, size : Nat, linked : BOOLEAN, mixed : BOOLEAN]
    BY <1>8 DEF Read, InspectionTypeOK
  <2>2. Dequeue /\ held' = None
        /\ UNCHANGED <<owner, walk, listed, opened, proofs, pc, checked, changed>>
    BY <1>8 DEF Read, NotRead
  <2>3. complete' \in BOOLEAN
    BY <1>8 DEF Read, NotRead, InspectionTypeOK
  <2>4. total' \in Nat
    BY <1>8, <2>1 DEF Read, InspectionTypeOK
  <2>5. entries' \in [Files -> {None} \cup Entry]
    BY <1>8, <2>1 DEF Read, InspectionTypeOK, Entry
  <2>6. queue' \in [{"first", "rest"} -> Seq(Files)]
    BY <1>8, <2>2, DequeueKeeps DEF HeldIsNext, Read
  <2>7. QED
    BY <2>2, <2>3, <2>4, <2>5, <2>6 DEF InspectionTypeOK, Stamped, owner
<1>9. CASE Recheck
  <2> DEFINE f == Least(Captured \ checked)
  <2>1. f \in Files
    BY <1>9, LeastIsOne DEF Recheck, Captured
  <2>2. checked' = checked \cup {f} /\ changed' \subseteq changed \cup {f} /\ pc' \in {pc, "aborted", "gone"}
    BY <1>9 DEF Recheck, Abort
  <2>3. UNCHANGED <<owner, survey, capture, result, given, proofs>>
    BY <1>9 DEF Recheck
  <2> HIDE DEF f
  <2>4. QED
    BY <2>1, <2>2, <2>3 DEF InspectionTypeOK, Stamped, owner, survey, capture
<1>10. CASE \E f \in Files : Write(f) \/ \E s \in Replacements : Replace(f, s)
  <2>1. PICK f \in Files : Write(f) \/ \E s \in Replacements : Replace(f, s)
    BY <1>10
  <2>2. Moved(f) /\ UNCHANGED <<survey, entries, unread, complete, total, opened, result, given, proofs, pc, checked, changed>>
    BY <2>1, WriteMoves, ReplaceMoves DEF Write, Replace, Changes
  <2>3. QED
    BY <2>1, <2>2, MovedKeeps, HeldIs DEF InspectionTypeOK, survey
<1>11. QED
  BY <1>0, <1>1, <1>2, <1>3, <1>4, <1>5, <1>6, <1>7, <1>8, <1>9, <1>10 DEF InspectionNext

--------------------------------------------------------------------------------
(* A step is the owner's, or leaves the files alone; nobody gives a new      *)
(* directory or consent.                                                     *)
LEMMA WhoMoves ==
  ASSUME InspectionTypeOK, Stamped, [InspectionNext]_inspectionVars
  PROVE  UNCHANGED given /\ (UNCHANGED <<disk, edits, edited>> \/ \E f \in Files : Moved(f))
<1>1. CASE EvaluateRaced
  BY <1>1, RaceMoves DEF EvaluateRaced, Moved
<1>2. CASE \E f \in Files : Write(f) \/ \E s \in Replacements : Replace(f, s)
  BY <1>2, WriteMoves, ReplaceMoves DEF Write, Replace, Changes
<1>3. CASE Launch \/ NoContainment \/ Confine \/ Prove \/ CollectForDiagnosis \/ ListDirectory \/ Evaluate \/ SurveyDone
  BY <1>3 DEF owner, Launch, NoContainment, Confine, Prove, CollectForDiagnosis, ListDirectory, Evaluate, SurveyDone
<1>4. CASE SkipCaptured \/ LeaveUnread \/ Open \/ Read \/ CaptureDone \/ Recheck \/ Report \/ Kill \/ Collect
  BY <1>4 DEF owner, SkipCaptured, LeaveUnread, Open, Read, CaptureDone, Recheck, Report, Kill, Collect
<1>5. CASE UNCHANGED inspectionVars
  BY <1>5 DEF inspectionVars, owner
<1>6. QED
  BY <1>1, <1>2, <1>3, <1>4, <1>5 DEF InspectionNext

(* A file that is plain after a step was plain before it, and is the same. *)
LEMMA PlainStands ==
  ASSUME InspectionTypeOK, Stamped, [InspectionNext]_inspectionVars, NEW f \in Files, PlainAllAlong(f)'
  PROVE  PlainAllAlong(f) /\ disk'[f] = disk[f]
<1>1. CASE UNCHANGED <<disk, edits, edited>>
  BY <1>1, WhoMoves DEF PlainAllAlong, given
<1>2. CASE \E g \in Files : Moved(g)
  BY <1>2, WhoMoves DEF PlainAllAlong, given, Moved
<1>3. QED
  BY <1>1, <1>2, WhoMoves

--------------------------------------------------------------------------------
(* Where the inspection stands.                                              *)

(* Confinement, the second look and a printed result are the browser's. *)
BrowserOnly ==
  pc \in {"started", "confined", "refused", "rechecking", "aborted", "printed"} => caller = "browser"

FingerprintOf(live) ==
  [of |-> "fingerprint", live |-> live, print |->
     Fingerprint({[file |-> f, body |-> entries[f].body] : f \in Captured}, complete, live, consented)]

(* An answer is the last thing that happens, and tells what was captured.     *)
Answers ==
  result # None =>
    /\ pc = "gone"
    /\ Published => result = Envelope \/ \E live \in Live : result = FingerprintOf(live)

(* Nothing happens once there is an answer. *)
LEMMA AnsweredIsLast == Answers /\ result # None => ~InspectionNext
BY DEF Answers, InspectionNext, Launch, NoContainment, Confine, Prove, CollectForDiagnosis, ListDirectory, Evaluate,
   EvaluateRaced, SurveyDone, SkipCaptured, LeaveUnread, Open, Read, CaptureDone, Recheck, Report, Kill, Collect,
   Write, Replace, Changes, NextFile, Exited, Running

(* Every step keeps each of these. *)
LEMMA BrowserStep ==
  ASSUME InspectionTypeOK, BrowserOnly, [InspectionNext]_inspectionVars
  PROVE  BrowserOnly'
<1>1. CASE UNCHANGED inspectionVars
  BY <1>1 DEF BrowserOnly, inspectionVars, given
<1>2. CASE Launch \/ NoContainment \/ Confine \/ Prove \/ CollectForDiagnosis \/ ListDirectory \/ Evaluate \/ EvaluateRaced \/ SurveyDone
  BY <1>2 DEF BrowserOnly, given, Launch, NoContainment, Confine, Prove, CollectForDiagnosis, ListDirectory, Evaluate, EvaluateRaced, SurveyDone, Abort
<1>3. CASE SkipCaptured \/ LeaveUnread \/ Open \/ Read \/ CaptureDone \/ Recheck \/ Report \/ Kill \/ Collect
  BY <1>3 DEF BrowserOnly, given, SkipCaptured, LeaveUnread, Open, Read, CaptureDone, Recheck, Report, Kill, Collect, Abort
<1>4. CASE \E f \in Files : Write(f) \/ \E s \in Replacements : Replace(f, s)
  BY <1>4 DEF BrowserOnly, given, Write, Replace, Changes
<1>5. QED
  BY <1>1, <1>2, <1>3, <1>4 DEF InspectionNext

LEMMA AnswerStep ==
  ASSUME InspectionTypeOK, Answers, [InspectionNext]_inspectionVars
  PROVE  Answers'
<1>1. CASE UNCHANGED inspectionVars
  <2>1. UNCHANGED <<entries, complete, changed, consented, pc, result>>
    BY <1>1 DEF inspectionVars, capture, given
  <2>2. Captured' = Captured
    BY <2>1 DEF Captured
  <2>3. Envelope' = Envelope /\ \A live \in Live : FingerprintOf(live)' = FingerprintOf(live)
    BY <2>1, <2>2 DEF Envelope, FoundAs, FingerprintOf
  <2>4. QED
    BY <2>1, <2>3 DEF Answers, Published
<1>2. CASE InspectionNext /\ result' = result
  BY <1>2, AnsweredIsLast DEF Answers
<1>3. CASE CaptureDone /\ result' # result
  <2>1. PICK live \in Live : result' = FingerprintOf(live)
    BY <1>3 DEF CaptureDone, FingerprintOf
  <2>2. UNCHANGED <<entries, complete, consented>> /\ pc' = "gone"
    BY <1>3 DEF CaptureDone, capture, given
  <2>3. Captured' = Captured
    BY <2>2 DEF Captured
  <2>4. FingerprintOf(live)' = FingerprintOf(live)
    BY <2>2, <2>3 DEF FingerprintOf
  <2>5. QED
    BY <2>1, <2>2, <2>4 DEF Answers
<1>4. CASE Collect
  <2>1. UNCHANGED <<entries, complete, changed>> /\ pc' = "gone" /\ result' \in {Unavailable, Failed, Envelope}
    BY <1>4 DEF Collect, capture, Exited
  <2>2. Captured' = Captured
    BY <2>1 DEF Captured
  <2>3. Envelope' = Envelope
    BY <2>1, <2>2 DEF Envelope, FoundAs
  <2>4. QED
    BY <2>1, <2>3 DEF Answers, Published
<1>5. CASE NoContainment \/ CollectForDiagnosis \/ EvaluateRaced \/ Kill
  <2>1. result' \in {result, Unavailable, Failed}
    BY <1>5 DEF NoContainment, CollectForDiagnosis, EvaluateRaced, Kill
  <2>2. result' # result => pc' = "gone"
    BY <1>5 DEF NoContainment, CollectForDiagnosis, EvaluateRaced, Kill, Abort
  <2>3. QED
    BY <1>2, <1>5, <2>1, <2>2 DEF Answers, Published, InspectionNext
<1>6. CASE Launch \/ Confine \/ Prove \/ ListDirectory \/ Evaluate \/ SurveyDone \/ SkipCaptured \/ LeaveUnread \/ Open \/ Read
           \/ Recheck \/ Report \/ \E f \in Files : Write(f) \/ \E s \in Replacements : Replace(f, s)
  <2>1. result' = result
    BY <1>6 DEF Launch, Confine, Prove, ListDirectory, Evaluate, SurveyDone, SkipCaptured, LeaveUnread, Open, Read,
       Recheck, Report, Write, Replace, Changes
  <2>2. QED
    BY <1>2, <1>6, <2>1 DEF InspectionNext
<1>7. QED
  BY <1>1, <1>2, <1>3, <1>4, <1>5, <1>6 DEF InspectionNext

LEMMA HeldStep ==
  ASSUME InspectionTypeOK, HeldIsNext, [InspectionNext]_inspectionVars
  PROVE  HeldIsNext'
<1>1. CASE held' = None
  BY <1>1 DEF HeldIsNext
<1>2. CASE UNCHANGED <<held, queue>> /\ (held = None \/ pc' \in {"capturing", "gone"})
  BY <1>2 DEF HeldIsNext, AllRead, NextUp, DiagnosticFirst
<1>3. CASE UNCHANGED inspectionVars
  BY <1>2, <1>3 DEF inspectionVars, survey, capture, HeldIsNext
<1>4. CASE Launch \/ NoContainment \/ Confine \/ Prove \/ CollectForDiagnosis \/ ListDirectory \/ Evaluate \/ SurveyDone \/ EvaluateRaced
  BY <1>1, <1>4 DEF HeldIsNext, capture, Launch, NoContainment, Confine, Prove, CollectForDiagnosis, ListDirectory, Evaluate, SurveyDone, EvaluateRaced
<1>5. CASE SkipCaptured \/ LeaveUnread \/ Read
  BY <1>1, <1>5 DEF capture, SkipCaptured, LeaveUnread, Read, NextFile, NotRead
<1>6. CASE Open
  <2>1. UNCHANGED <<queue, pc>> /\ pc = "capturing" /\ ~AllRead /\ held'.file = NextUp
    BY <1>6 DEF Open, survey, NextFile
  <2>2. QED
    BY <2>1 DEF HeldIsNext, AllRead, NextUp, DiagnosticFirst
<1>7. CASE CaptureDone \/ Recheck \/ Report \/ Kill \/ Collect
  BY <1>1, <1>2, <1>7 DEF HeldIsNext, survey, capture, CaptureDone, Recheck, Report, Kill, Collect
<1>8. CASE \E f \in Files : Write(f) \/ \E s \in Replacements : Replace(f, s)
  <2>1. UNCHANGED <<queue, pc>>
    BY <1>8 DEF Write, Replace, Changes, survey
  <2>2. held' = held \/ (held # None /\ held'.file = held.file)
    BY <1>8, HeldIs
  <2>3. QED
    BY <2>1, <2>2 DEF HeldIsNext, AllRead, NextUp, DiagnosticFirst
<1>9. QED
  BY <1>3, <1>4, <1>5, <1>6, <1>7, <1>8 DEF InspectionNext

--------------------------------------------------------------------------------
(* Stamps.  What was captured, or lies open, is as old as its file; it is     *)
(* older as soon as the file was touched after it was opened.                 *)
Tells(stamp, f) == stamp <= disk[f].stamp /\ (f \in touched => stamp < disk[f].stamp)

StampsTell ==
  /\ \A f \in Captured : Tells(entries[f].stamp, f)
  /\ held # None => Tells(held.stamp, held.file)

(* Stamps can be compared. *)
LEMMA StampsAreNumbers ==
  ASSUME InspectionTypeOK
  PROVE  /\ \A f \in Files : disk[f].stamp \in Nat
         /\ \A f \in Captured : f \in Files /\ entries[f].stamp \in Nat
         /\ held # None => held.file \in Files /\ held.stamp \in Nat
<1>1. \A f \in Files : disk[f].stamp \in Nat
  BY DEF InspectionTypeOK, Nodes
<1>2. \A f \in Captured : f \in Files /\ entries[f].stamp \in Nat
  BY DEF InspectionTypeOK, Entry, Captured
<1>3. held # None => held.file \in Files /\ held.stamp \in Nat
  BY DEF InspectionTypeOK
<1>4. QED
  BY <1>1, <1>2, <1>3

(* A stamp tells as much after a change. *)
LEMMA StillTells ==
  ASSUME InspectionTypeOK, Stamped, NEW g \in Files, Moved(g),
         NEW stamp \in Nat, NEW f \in Files, Tells(stamp, f)
  PROVE  Tells(stamp, f)'
<1>1. disk[f].stamp \in Nat /\ disk[g].stamp \in Nat
  BY StampsAreNumbers
<1>2. CASE f = g
  BY <1>1, <1>2 DEF Tells, Moved
<1>3. CASE f # g
  BY <1>1, <1>3 DEF Tells, Moved
<1>4. QED
  BY <1>2, <1>3

(* Every step keeps what stamps tell. *)
LEMMA StampStep ==
  ASSUME InspectionTypeOK, Stamped, HeldIsNext, StampsTell, [InspectionNext]_inspectionVars
  PROVE  StampsTell'
<1>1. CASE UNCHANGED <<disk, touched, entries>> /\ (held' = held \/ held' = None)
  BY <1>1 DEF StampsTell, Tells, Captured
<1>2. CASE UNCHANGED inspectionVars
  BY <1>1, <1>2 DEF inspectionVars, owner, capture
<1>3. CASE Launch \/ NoContainment \/ Confine \/ Prove \/ CollectForDiagnosis \/ ListDirectory \/ Evaluate \/ SurveyDone
  BY <1>1, <1>3 DEF owner, capture, Launch, NoContainment, Confine, Prove, CollectForDiagnosis, ListDirectory, Evaluate, SurveyDone
<1>4. CASE SkipCaptured \/ LeaveUnread \/ CaptureDone \/ Recheck \/ Report \/ Kill \/ Collect
  BY <1>1, <1>4 DEF owner, capture, SkipCaptured, LeaveUnread, NotRead, CaptureDone, Recheck, Report, Kill, Collect
<1>5. ASSUME NEW g \in Files, Moved(g), entries' = entries,
             held' = held \/ (held # None /\ held'.file = held.file /\ held'.stamp = held.stamp)
      PROVE  StampsTell'
  <2>1. Captured' = Captured
    BY <1>5 DEF Captured
  <2>2. \A f \in Captured : Tells(entries[f].stamp, f)'
    BY <1>5, StillTells, StampsAreNumbers DEF StampsTell
  <2>3. held # None => Tells(held.stamp, held.file)'
    BY <1>5, StillTells, StampsAreNumbers DEF StampsTell
  <2>4. QED
    BY <1>5, <2>1, <2>2, <2>3 DEF StampsTell, Tells
<1>6. CASE EvaluateRaced
  <2>1. Moved(Least(listed)) /\ UNCHANGED <<entries, held>>
    BY <1>6, RaceMoves DEF EvaluateRaced, capture
  <2>2. QED
    BY <1>5, <2>1 DEF Moved
<1>7. CASE \E f \in Files : Write(f) \/ \E s \in Replacements : Replace(f, s)
  <2>1. PICK f \in Files : Write(f) \/ \E s \in Replacements : Replace(f, s)
    BY <1>7
  <2>2. Moved(f) /\ entries' = entries
    BY <2>1, WriteMoves, ReplaceMoves DEF Write, Replace, Changes
  <2>3. QED
    BY <1>5, <2>1, <2>2, HeldIs
<1>8. CASE Open
  <2> DEFINE f == NextUp
  <2>1. /\ held'.file = f /\ held'.stamp = disk[f].stamp
        /\ touched' = touched \ {f} /\ UNCHANGED <<disk, entries>>
    BY <1>8 DEF Open
  <2>2. queue[DiagnosticFirst] \in Seq(Files) /\ queue[DiagnosticFirst] # <<>>
    BY <1>8 DEF DiagnosticFirst, InspectionTypeOK, AllRead, Open, NextFile
  <2>3. f \in Files
    BY <2>2, TailKeeps DEF NextUp
  <2> HIDE DEF f
  <2>4. disk[f].stamp \in Nat
    BY <2>3, StampsAreNumbers
  <2>5. \A g \in Captured' : Tells(entries[g].stamp, g)'
    BY <2>1 DEF StampsTell, Tells, Captured
  <2>6. Tells(held.stamp, held.file)'
    BY <2>1, <2>4 DEF Tells
  <2>7. QED
    BY <2>5, <2>6, <2>1 DEF StampsTell, Tells
<1>9. CASE Read
  <2> DEFINE f == held.file
  <2>1. held # None /\ held' = None /\ UNCHANGED <<disk, touched>> /\ f \in Files
    BY <1>9, StampsAreNumbers DEF Read, NotRead, owner
  <2>2. CASE entries' = entries
    BY <1>1, <2>1, <2>2
  <2>3. CASE \E b \in Bodies \cup {Torn} : entries' = [entries EXCEPT ![f] = [body |-> b, stamp |-> held.stamp, size |-> held.size]]
    <3>1. entries'[f].stamp = held.stamp /\ \A g \in Files \ {f} : entries'[g] = entries[g]
      BY <2>1, <2>3 DEF InspectionTypeOK
    <3>2. \A g \in Captured' : Tells(entries'[g].stamp, g)
      BY <2>1, <3>1 DEF StampsTell, Captured
    <3>3. QED
      BY <2>1, <3>2 DEF StampsTell, Tells
  <2>4. QED
    <3>1. held.body \in Bodies
      BY <2>1 DEF InspectionTypeOK
    <3>2. QED
      BY <1>9, <2>2, <2>3, <3>1 DEF Read
<1>10. QED
  BY <1>2, <1>3, <1>4, <1>6, <1>7, <1>8, <1>9 DEF InspectionNext

--------------------------------------------------------------------------------
(* What the inspection owes a file that lay open all along: it is still to    *)
(* come, or it was read, or the capture confesses that it is not complete.    *)
ReadOrConfessed(f) == f \in Captured \/ ~complete

OwedTo(f) ==
  /\ pc = "surveying" => DirOf[f] \in walk \/ f \in listed \/ f \in Waiting
  /\ pc = "capturing" => f \in Waiting \/ ReadOrConfessed(f)
  /\ pc \in {"rechecking", "printed"} \/ Published => ReadOrConfessed(f)

Owed == \A f \in Files : PlainAllAlong(f) => OwedTo(f)

(* When all is read no file waits. *)
LEMMA NoneWaits == ASSUME AllRead PROVE Waiting = {}
<1>1. queue["first"] = <<>> /\ queue["rest"] = <<>>
  BY DEF AllRead, DiagnosticFirst
<1>2. Len(queue["first"]) = 0 /\ Len(queue["rest"]) = 0
  BY <1>1, EmptySeq
<1>3. QED
  BY <1>2 DEF Waiting

(* A plain file that is decided waits to be read. *)
LEMMA DecidedWaits ==
  ASSUME InspectionTypeOK, Evaluate
  PROVE  /\ Waiting \subseteq Waiting'
         /\ PlainAllAlong(Least(listed)) => Least(listed) \in Waiting'
<1> DEFINE f == Least(listed)  g == Admitted(f)  k == Priority(g)
<1>1. f \in Files
  BY LeastIsOne DEF Evaluate, InspectionTypeOK
<1>2. PlainAllAlong(f) => g = f /\ g # None
  BY <1>1, FoldersAreShaped DEF PlainAllAlong, Admitted, AdmitsNode
<1>3. CASE g = None
  <2>1. queue' = queue
    BY <1>3 DEF Evaluate
  <2>2. QED
    BY <1>2, <1>3, <2>1 DEF Waiting
<1>4. CASE g # None
  <2>1. g \in Files /\ k \in {"first", "rest"}
    BY <1>1, <1>4, AdmittedIs DEF Priority
  <2>2. queue' = [queue EXCEPT ![k] = Append(queue[k], g)]
    BY <1>4 DEF Evaluate
  <2> HIDE DEF k, g, f
  <2>3. queue[k] \in Seq(Files) /\ queue'[k] = Append(queue[k], g) /\ \A l \in {"first", "rest"} \ {k} : queue'[l] = queue[l]
    BY <2>1, <2>2 DEF InspectionTypeOK
  <2>4. g \in Waiting'
    <3>1. \E j \in 1 .. Len(Append(queue[k], g)) : Append(queue[k], g)[j] = g
      BY <2>1, <2>3, AppendKeeps
    <3>2. \E j \in 1 .. Len(queue'[k]) : queue'[k][j] = g
      BY <2>3, <3>1
    <3>3. QED
      BY <2>1, <3>2 DEF Waiting
  <2>5. ASSUME NEW h \in Waiting
        PROVE  h \in Waiting'
    <3>1. PICK l \in {"first", "rest"} : \E i \in 1 .. Len(queue[l]) : queue[l][i] = h
      BY DEF Waiting
    <3>2. CASE l = k
      <4>1. PICK i \in 1 .. Len(queue[k]) : queue[k][i] = h
        BY <3>1, <3>2
      <4>2. \E j \in 1 .. Len(Append(queue[k], g)) : Append(queue[k], g)[j] = queue[k][i]
        BY <2>1, <2>3, AppendKeeps
      <4>3. \E j \in 1 .. Len(queue'[k]) : queue'[k][j] = h
        BY <2>3, <4>1, <4>2
      <4>4. QED
        BY <2>1, <4>3 DEF Waiting
    <3>3. CASE l # k
      <4>1. queue'[l] = queue[l]
        BY <2>3, <3>3
      <4>2. QED
        BY <3>1, <4>1 DEF Waiting
    <3>4. QED
      BY <3>2, <3>3
  <2>6. QED
    BY <1>2, <2>4, <2>5 DEF f
<1>5. QED
  BY <1>3, <1>4

(* Every step keeps the debt. *)
LEMMA OwedStep ==
  ASSUME InspectionTypeOK, Stamped, HeldIsNext, Answers, Owed, [InspectionNext]_inspectionVars
  PROVE  Owed'
<1> SUFFICES ASSUME NEW f \in Files, PlainAllAlong(f)'
             PROVE  OwedTo(f)'
  BY DEF Owed
<1>1. PlainAllAlong(f) /\ OwedTo(f)
  BY PlainStands DEF Owed
<1>2. disk[f].shape = "file" /\ DirOf[f] \notin Pruned /\ dirs[DirOf[f]] = "listable" /\ DirOf[f] \in Dirs
  BY <1>1, FoldersAreShaped DEF PlainAllAlong
<1>3. CASE UNCHANGED <<walk, listed, queue, entries, complete, result, pc>>
  BY <1>1, <1>3 DEF OwedTo, ReadOrConfessed, Captured, Waiting, Published
<1>4. CASE UNCHANGED inspectionVars
  BY <1>3, <1>4 DEF inspectionVars, survey, capture
<1>5. CASE Launch \/ NoContainment \/ Confine \/ Prove \/ CollectForDiagnosis
  BY <1>1, <1>2, <1>5 DEF OwedTo, Published, Answers, Launch, NoContainment, Confine, Prove, CollectForDiagnosis
<1>6. CASE ListDirectory
  BY <1>1, <1>2, <1>6 DEF OwedTo, Published, Waiting, ReadOrConfessed, Captured, ListDirectory, capture
<1>7. CASE Evaluate
  <2>1. UNCHANGED <<walk, pc, result>> /\ listed' = listed \ {Least(listed)} /\ pc = "surveying" /\ UNCHANGED <<entries, complete>>
    BY <1>7 DEF Evaluate, capture
  <2>2. QED
    BY <1>1, <1>7, <2>1, DecidedWaits DEF OwedTo, Published, ReadOrConfessed, Captured
<1>8. CASE EvaluateRaced
  BY <1>1, <1>8 DEF OwedTo, Published, EvaluateRaced, Abort, Answers
<1>9. CASE SurveyDone
  BY <1>1, <1>9 DEF OwedTo, Published, Waiting, SurveyDone, survey, Answers
<1>10. CASE SkipCaptured \/ LeaveUnread
  <2>1. pc = "capturing" /\ pc' = pc /\ UNCHANGED <<entries, result>> /\ ~AllRead /\ Dequeue
    BY <1>10 DEF SkipCaptured, LeaveUnread, NotRead, NextFile, capture
  <2>2. NextUp \in Captured \/ ~complete'
    BY <1>10 DEF SkipCaptured, LeaveUnread, NotRead
  <2>3. complete' => complete
    BY <1>10 DEF SkipCaptured, LeaveUnread, NotRead, capture, InspectionTypeOK
  <2>4. QED
    BY <1>1, <2>1, <2>2, <2>3, DequeueKeeps DEF OwedTo, Published, ReadOrConfessed, Captured, Answers
<1>11. CASE Open
  BY <1>3, <1>11 DEF Open, survey
<1>12. CASE Read
  <2>1. pc = "capturing" /\ pc' = pc /\ result' = result /\ ~AllRead /\ Dequeue /\ held # None /\ held.file = NextUp
    BY <1>12 DEF Read, NotRead, HeldIsNext
  <2>2. Waiting \subseteq Waiting' \cup {held.file} /\ held.file \in Files
    BY <2>1, DequeueKeeps
  <2>3. CASE complete' = FALSE
    BY <2>1, <2>3 DEF OwedTo, Published, ReadOrConfessed, Answers
  <2>4. CASE complete' # FALSE
    <3>1. complete' = complete
          /\ \E b \in {held.body} \cup (IF held.mixed THEN {Torn} ELSE {}) :
               entries' = [entries EXCEPT ![held.file] = [body |-> b, stamp |-> held.stamp, size |-> held.size]]
      BY <1>12, <2>4 DEF Read, NotRead
    <3>2. PICK b \in Bodies \cup {Torn} : entries' = [entries EXCEPT ![held.file] = [body |-> b, stamp |-> held.stamp, size |-> held.size]]
      BY <2>1, <3>1 DEF InspectionTypeOK
    <3>3. [body |-> b, stamp |-> held.stamp, size |-> held.size] \in Entry
      BY <2>1 DEF InspectionTypeOK, Entry
    <3>4. Captured \cup {held.file} \subseteq Captured'
      BY <2>2, <3>2, <3>3, FoldersAreShaped DEF Captured, InspectionTypeOK
    <3>5. QED
      BY <1>1, <2>1, <2>2, <3>1, <3>4 DEF OwedTo, Published, ReadOrConfessed, Answers
  <2>5. QED
    BY <2>3, <2>4
<1>13. CASE CaptureDone
  <2>1. f \notin Waiting /\ pc = "capturing" /\ UNCHANGED <<entries, complete>>
    BY <1>13, NoneWaits DEF CaptureDone, capture
  <2>2. pc' \in {"rechecking", "gone"}
    BY <1>13 DEF CaptureDone
  <2>3. QED
    BY <1>1, <2>1, <2>2 DEF OwedTo, ReadOrConfessed, Captured
<1>14. CASE Recheck \/ Report \/ Collect
  <2>1. UNCHANGED <<entries, complete>> /\ pc' \in {"rechecking", "aborted", "gone", "printed"}
    BY <1>14 DEF Recheck, Report, Collect, capture, Abort
  <2>2. (pc' \in {"rechecking", "printed"} \/ Published') => pc \in {"rechecking", "printed"}
    BY <1>14 DEF Recheck, Report, Collect, Exited, Published, Answers
  <2>3. QED
    BY <1>1, <2>1, <2>2 DEF OwedTo, ReadOrConfessed, Captured
<1>15. CASE Kill
  BY <1>15 DEF OwedTo, Published, Kill
<1>16. CASE \E g \in Files : Write(g) \/ \E s \in Replacements : Replace(g, s)
  BY <1>3, <1>16 DEF Write, Replace, Changes, survey
<1>17. QED
  BY <1>4, <1>5, <1>6, <1>7, <1>8, <1>9, <1>10, <1>11, <1>12, <1>13, <1>14, <1>15, <1>16 DEF InspectionNext

--------------------------------------------------------------------------------
(* The inductive invariant of an inspection. *)
InspectionInv ==
  InspectionTypeOK /\ Stamped /\ HeldIsNext /\ BrowserOnly /\ Answers /\ StampsTell /\ Owed

(* It holds from the start and is kept by every step. *)
LEMMA InspectionHolds == InspectionSpec => []InspectionInv
<1>1. InspectionInit => InspectionInv
  <2> SUFFICES ASSUME InspectionInit PROVE InspectionInv
    OBVIOUS
  <2>1. InspectionTypeOK /\ Stamped
    BY InspectionTypesInit
  <2>2. Captured = {} /\ held = None /\ pc = "idle" /\ result = None
    BY DEF InspectionInit, Captured
  <2>3. QED
    BY <2>1, <2>2 DEF InspectionInv, HeldIsNext, BrowserOnly, Answers, StampsTell, Owed, OwedTo, Published
<1>2. InspectionInv /\ [InspectionNext]_inspectionVars => InspectionInv'
  BY InspectionTypesNext, HeldStep, BrowserStep, AnswerStep, StampStep, OwedStep DEF InspectionInv
<1>3. QED
  BY <1>1, <1>2, PTL DEF InspectionSpec

(* Every reachable state of an inspection is well-typed. *)
THEOREM InspectionTypes == InspectionSpec => []InspectionTypeOK
<1>1. InspectionInv => InspectionTypeOK
  BY DEF InspectionInv
<1>2. QED
  BY <1>1, InspectionHolds, PTL

(* A file that lay open all along is never published as absent, whatever kept *)
(* it from being read (snapshot.py, take_snapshot; collector.py).             *)
THEOREM AbsentIsLookedFor == InspectionSpec => []AbsentWasLookedFor
<1>1. InspectionInv => AbsentWasLookedFor
  <2> SUFFICES ASSUME InspectionInv, Probes, NEW f \in Files, RoleOf[f] \in Roles, PlainAllAlong(f)
               PROVE  result.probes[RoleOf[f]].state # "absent"
    BY DEF AbsentWasLookedFor
  <2>1. result = Envelope
    <3>1. result = Envelope \/ \E live \in Live : result = FingerprintOf(live)
      BY DEF InspectionInv, Answers, Probes, Published
    <3>2. \A live \in Live : FingerprintOf(live).of = "fingerprint"
      BY DEF FingerprintOf
    <3>3. QED
      BY <3>1, <3>2 DEF Probes
  <2>2. f \in Captured \/ ~complete
    BY DEF InspectionInv, Owed, OwedTo, Probes, ReadOrConfessed
  <2>3. result.probes[RoleOf[f]] = Presence(FoundAs(RoleOf[f]), complete, changed)
    BY <2>1 DEF Envelope
  <2>4. QED
    BY <2>2, <2>3 DEF Presence, FoundAs
<1>2. QED
  BY <1>1, InspectionHolds, PTL

(* What was written between its opening and its second look is not published *)
(* as observed (snapshot.py, changed_paths_since_capture).                    *)
THEOREM ObservedStaysStable == InspectionSpec => ObservedIsStable
<1>1. InspectionInv /\ [InspectionNext]_inspectionVars =>
        [\A f \in Files : (pc = "rechecking" /\ f \in checked' \ checked /\ f \in touched) => f \in changed' \/ pc' = "aborted"]_inspectionVars
  <2> SUFFICES ASSUME InspectionInv, InspectionNext, NEW f \in Files, pc = "rechecking", f \in checked' \ checked, f \in touched
               PROVE  f \in changed' \/ pc' = "aborted"
    OBVIOUS
  <2>1. Recheck
    BY DEF InspectionNext, Launch, NoContainment, Confine, Prove, CollectForDiagnosis, ListDirectory, Evaluate, EvaluateRaced,
       SurveyDone, SkipCaptured, LeaveUnread, Open, Read, CaptureDone, Report, Kill, Collect, Write, Replace, Changes
  <2>2. f = Least(Captured \ checked)
    BY <2>1 DEF Recheck
  <2>3. f \in Captured
    BY <2>1, <2>2, LeastIsOne DEF Recheck, Captured
  <2>4. disk[f].stamp # entries[f].stamp
    BY <2>3, StampsAreNumbers DEF InspectionInv, StampsTell, Tells
  <2>5. ~Same(entries[f], disk[f])
    BY <2>4 DEF Same
  <2>6. caller = "browser"
    BY DEF InspectionInv, BrowserOnly
  <2>7. QED
    BY <2>1, <2>2, <2>5, <2>6 DEF Recheck, Abort
<1>2. QED
  BY <1>1, InspectionHolds, PTL DEF InspectionSpec, ObservedIsStable

--------------------------------------------------------------------------------
(* Fingerprints. *)

(* What the readers are given. *)
CapturedFiles == {[file |-> f, body |-> entries[f].body] : f \in Captured}

(* Folding drops duplicates and nothing else: of every kind, identity and      *)
(* source that was observed one observation stands, and no file that names it *)
(* comes earlier in the walk (discovery.py, _fold_exact_duplicates).          *)
THEOREM FoldLosesNothing ==
  ASSUME NEW obs, \A p \in obs : p.file \in Files, NEW o \in obs
  PROVE  \E p \in Fold(obs) : p.kind = o.kind /\ p.id = o.id /\ p.source = o.source /\ p.file <= o.file
<1> DEFINE alike == {p \in obs : p.kind = o.kind /\ p.id = o.id /\ p.source = o.source}
           files == {p.file : p \in alike}
<1>1. files \in SUBSET Files /\ o \in alike /\ o.file \in files
  OBVIOUS
<1>2. Least(files) \in files /\ \A n \in files : Least(files) <= n
  BY <1>1, LeastIsOne
<1>3. PICK p \in alike : p.file = Least(files)
  BY <1>2
<1>4. \A q \in obs : (q.kind = p.kind /\ q.id = p.id /\ q.source = p.source) => p.file <= q.file
  BY <1>2, <1>3
<1>5. p \in Fold(obs)
  BY <1>3, <1>4 DEF Fold
<1>6. QED
  BY <1>1, <1>2, <1>3, <1>5

(* Only the operating system says of a job that it is loaded. *)
LEMMA LoadedIsAJob ==
  ASSUME NEW captured, NEW live, NEW kept, NEW agreed,
         NEW o \in Fingerprint(captured, kept, live, agreed).observations, o.runtime = "loaded"
  PROVE  o \in AutomationObservations(captured, IF agreed THEN {Slug[n] : n \in live} ELSE {})
<1> DEFINE used == IF agreed THEN {Slug[n] : n \in live} ELSE {}
<1>1. \A e, kind, name, config : Observe(e, kind, name, config).runtime = "not-assessed"
  BY DEF Observe
<1>2. o \in Observations(captured, used)
  BY DEF Fingerprint, Fold
<1>3. \/ o \in ReleaseObservations(captured) \/ o \in SkillObservations(captured)
      \/ o \in PlainObservations(captured)
      \/ o \in IntegrationObservations(captured) \/ o \in AdapterObservations(captured)
      \/ o \in AutomationObservations(captured, used)
  BY <1>2 DEF Observations
<1>4. o \notin ReleaseObservations(captured)
  BY <1>1 DEF ReleaseObservations
<1>5. o \notin SkillObservations(captured)
  BY <1>1 DEF SkillObservations
<1>6. o \notin PlainObservations(captured)
  BY <1>1 DEF PlainObservations, Declared
<1>7. o \notin IntegrationObservations(captured)
  <2> SUFFICES ASSUME o \in IntegrationObservations(captured) PROVE FALSE
    OBVIOUS
  <2>1. \/ \E e, n : o = Observe(e, "provider", n, "declared")
        \/ \E e : o = Observe(e, "registry", "local-integrations", "implemented")
    BY DEF IntegrationObservations
  <2>2. QED
    BY <1>1, <2>1
<1>8. o \notin AdapterObservations(captured)
  BY <1>1 DEF AdapterObservations
<1>9. QED
  BY <1>3, <1>4, <1>5, <1>6, <1>7, <1>8

(* A job is an observation of some captured declaration. *)
LEMMA JobsAreDeclared ==
  ASSUME NEW captured, NEW o
  PROVE  o \in Declared(captured, "automation") <=>
           \E e \in captured : \E x \in Facts(e, "automation") : o = Observe(e, "automation", x.name, x.config)
BY DEF Declared

(* A job that is called loaded has no rival, and is no working copy's. *)
LEMMA LoadedIs ==
  ASSUME NEW jobs, NEW live, NEW p \in jobs,
         "runtime" \in DOMAIN p, p.runtime = "not-assessed", Upgrade(p, jobs, live).runtime = "loaded"
  PROVE  /\ p.id \in live /\ SourceClass[p.source] # "working-copy"
         /\ ~(Cardinality(Rivals(p, jobs)) > 1)
         /\ Upgrade(p, jobs, live) = [p EXCEPT !.runtime = "loaded"]
<1>1. Upgrade(p, jobs, live) # p
  OBVIOUS
<1>2. [p EXCEPT !.ambiguous = TRUE].runtime = p.runtime
  OBVIOUS
<1>3. QED
  BY <1>1, <1>2 DEF Upgrade

(* A finite set of at most one member has one. *)
LEMMA FewAreOne ==
  ASSUME NEW S, IsFiniteSet(S), ~(Cardinality(S) > 1), NEW x \in S, NEW y \in S
  PROVE  x = y
<1> SUFFICES ASSUME x # y PROVE FALSE
  OBVIOUS
<1>1. IsFiniteSet({x, y}) /\ Cardinality({x, y}) = 2
  <2>1. IsFiniteSet({x}) /\ Cardinality({x}) = 1
    BY FS_Singleton
  <2>2. {x, y} = {x} \cup {y} /\ y \notin {x}
    OBVIOUS
  <2>3. IsFiniteSet({x} \cup {y}) /\ Cardinality({x} \cup {y}) = Cardinality({x}) + 1
    BY <2>1, <2>2, FS_AddElement
  <2>4. QED
    BY <2>1, <2>2, <2>3
<1>2. Cardinality({x, y}) <= Cardinality(S) /\ Cardinality(S) \in Nat
  BY <1>1, FS_Subset, FS_CardinalityType
<1>3. QED
  BY <1>1, <1>2

(* A job is called loaded only with consent, and only where one approved      *)
(* source declares it, which is no working copy (discovery.py,                *)
(* _automation_observations).                                                 *)
THEOREM LoadedIsAttributed == InspectionSpec => []LoadedIsAttributable
<1>1. InspectionInv => LoadedIsAttributable
  <2> SUFFICES ASSUME InspectionInv, Published, result.of = "fingerprint",
                      NEW o \in result.print.observations, o.runtime = "loaded"
               PROVE  /\ consented /\ SourceClass[o.source] # "working-copy"
                      /\ \A f \in Captured : \A x \in Facts([file |-> f, body |-> entries[f].body], "automation") :
                           Slug[x.name] = o.id => Source[f] = o.source
    BY DEF LoadedIsAttributable
  <2>1. PICK live \in Live : result = FingerprintOf(live)
    <3>1. result = Envelope \/ \E live \in Live : result = FingerprintOf(live)
      BY DEF InspectionInv, Answers, Published
    <3>2. Envelope.of = "probes"
      BY DEF Envelope
    <3>3. QED
      BY <3>1, <3>2
  <2> DEFINE used == IF consented THEN {Slug[n] : n \in live} ELSE {}
             jobs == Declared(CapturedFiles, "automation")
  <2>2. result.print = Fingerprint(CapturedFiles, complete, live, consented)
    BY <2>1 DEF FingerprintOf, CapturedFiles
  <2>3. o \in AutomationObservations(CapturedFiles, used)
    BY <2>2, LoadedIsAJob
  <2>4. PICK p \in jobs : o = Upgrade(p, jobs, used)
    BY <2>3 DEF AutomationObservations
  <2>5. \A q \in jobs : \E f \in Captured : q.source = Source[f] /\ q.runtime = "not-assessed" /\ "runtime" \in DOMAIN q
    <3> SUFFICES ASSUME NEW q \in jobs
                 PROVE  \E f \in Captured : q.source = Source[f] /\ q.runtime = "not-assessed" /\ "runtime" \in DOMAIN q
      OBVIOUS
    <3>1. PICK e \in CapturedFiles : \E x \in Facts(e, "automation") : q = Observe(e, "automation", x.name, x.config)
      BY JobsAreDeclared
    <3>2. PICK f \in Captured : e = [file |-> f, body |-> entries[f].body]
      BY DEF CapturedFiles
    <3>3. QED
      BY <3>1, <3>2 DEF Observe
  <2> HIDE DEF jobs, used
  <2>6. /\ p.id \in used /\ SourceClass[p.source] # "working-copy"
        /\ ~(Cardinality(Rivals(p, jobs)) > 1)
        /\ o = [p EXCEPT !.runtime = "loaded"]
    BY <2>4, <2>5, LoadedIs
  <2>7. o.id = p.id /\ o.source = p.source
    BY <2>6
  <2>8. consented
    BY <2>6 DEF used
  <2>9. IsFiniteSet(Rivals(p, jobs))
    <3>1. IsFiniteSet(Captured)
      BY FoldersAreShaped, FS_Subset DEF Captured
    <3>2. IsFiniteSet({Source[f] : f \in Captured})
      <4> DEFINE T == {Source[f] : f \in Captured}
                 onto == [f \in Captured |-> Source[f]]
      <4>1. onto \in Surjection(Captured, T)
        BY DEF Surjection
      <4>2. QED
        BY <3>1, <4>1, FS_Surjection
    <3>3. Rivals(p, jobs) \subseteq {Source[f] : f \in Captured}
      BY <2>5 DEF Rivals
    <3>4. QED
      BY <3>2, <3>3, FS_Subset
  <2>10. ASSUME NEW f \in Captured, NEW x \in Facts([file |-> f, body |-> entries[f].body], "automation"), Slug[x.name] = o.id
         PROVE  Source[f] = o.source
    <3> DEFINE e == [file |-> f, body |-> entries[f].body]
               q == Observe(e, "automation", x.name, x.config)
    <3>1. e \in CapturedFiles
      BY DEF CapturedFiles
    <3>2. q \in jobs
      BY <3>1, JobsAreDeclared DEF jobs
    <3>3. q.id = p.id /\ q.source = Source[f]
      BY <2>7, <2>10 DEF Observe
    <3>4. q.source \in Rivals(p, jobs) /\ p.source \in Rivals(p, jobs)
      BY <2>4, <3>2, <3>3 DEF Rivals
    <3>5. QED
      BY <2>6, <2>7, <2>9, <3>3, <3>4, FewAreOne
  <2>11. QED
    BY <2>6, <2>7, <2>8, <2>10
<1>2. QED
  BY <1>1, InspectionHolds, PTL
================================================================================
