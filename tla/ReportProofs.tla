------------------------------ MODULE ReportProofs ------------------------------
(* Proofs about the two ends of a diagnosis: CollectionSession, for any       *)
(* number of requests; Comparison and Report, for any lawful catalogue, any   *)
(* folders, roles, answers and selections, any rewriting assistant, and any   *)
(* number of copies, pairs taken back and kills.                              *)
EXTENDS CollectionSession, Report, FiniteSetTheorems, WellFoundedInduction, TLAPS

---------------------------------------------------------------------------
(* The collection session.                                                *)

(* Where the collection thread runs with a controller. *)
Running == {"collect", "start", "watch", "grace", "collected", "publish", "recheck", "finish"}
Before == {"none", "begin", "collect", "start"}
Read == {"collected", "publish", "recheck", "finish"}

(* One approval begins the one collection. *)
OneCollection ==
    /\ journey = "permission" => pc[Collection] = "none" /\ \A r \in Request : pc[r] # "spawn"
    /\ \A r \in Request : pc[r] = "spawn" => pc[Collection] = "none"
    /\ \A q, r \in Request : pc[q] = "spawn" /\ pc[r] = "spawn" => q = r

(* The controller is there as long as the thread or a worker runs, and only a *)
(* thread on its way out can see the event without the flag.                  *)
Controlled ==
    /\ pc[Collection] \in Running => controller
    /\ pc[Collection] \in {"none", "begin"} => ~ controller
    /\ readers > 0 => controller
    /\ ~ controller => ~ cancelled /\ ~ cancelEvent /\ ~ result
    /\ cancelled => cancelEvent
    /\ pc[Collection] \in Running \ {"grace"} => (cancelEvent => cancelled)

(* The worker has ended before the thread goes on with what it read. *)
ReadInOrder ==
    /\ pc[Collection] \in Before => readers = 0
    /\ pc[Collection] \in Read => readers = 0 /\ outcome \in {"value", "blocked"}
    /\ journey = "published" => pc[Collection] = "done"

Shape == TypeOK /\ OneCollection /\ Controlled /\ ReadInOrder
Promises == ClosedLeavesNothing /\ ReadersAreTold /\ PublishedIsWhole /\ NoOrphanedCollection
IInv == Shape /\ Promises

LEMMA ThreadsDiffer ==
    /\ Collection \in Thread /\ Timer \in Thread /\ Request \subseteq Thread
    /\ Terminator \subseteq Thread
    /\ Collection \notin Terminator /\ Collection \notin Request
BY SessionAssumption DEF Thread, Terminator

(* What an erasure leaves behind. *)
Erased ==
    /\ closed' /\ closed' \in BOOLEAN /\ journey' = "closed"
    /\ ~ result' /\ result' \in BOOLEAN
    /\ cancelled' \in BOOLEAN /\ cancelEvent' \in BOOLEAN
    /\ cancelled' <=> controller
    /\ cancelEvent' <=> controller

LEMMA ErasedAll == IInv /\ Erase => Erased
<1> SUFFICES ASSUME IInv, Erase PROVE Erased
  OBVIOUS
<1>1. CASE controller
  BY <1>1, Zenon DEF Erase, Erased
<1>2. CASE ~ controller
  BY <1>2, Zenon DEF Erase, Erased, IInv, Shape, Controlled, TypeOK, control
<1> QED
  BY <1>1, <1>2

LEMMA InitInv == Init => IInv
<1> SUFFICES ASSUME Init PROVE IInv
  OBVIOUS
<1>1. /\ ~ closed /\ ~ controller /\ ~ cancelled /\ ~ cancelEvent /\ ~ result
      /\ {closed, expired, controller, cancelled, cancelEvent, result, incident}
           \subseteq BOOLEAN
  BY Zenon DEF Init
<1> QED
  BY <1>1, ThreadsDiffer, SMT DEF Init, IInv, Shape, Promises, TypeOK, OneCollection, Controlled,
    ReadInOrder, ClosedLeavesNothing, ReadersAreTold, PublishedIsWhole, NoOrphanedCollection,
    At, Running, Before, Read, RequestStep, CollectionStep

(* Steps of one request, the timer or the collection thread that touch only   *)
(* pc, the lock, or what the worker is not concerned with.                    *)
LEMMA RequestStepInv ==
    ASSUME IInv, NEW r \in Request, Admit(r) \/ RefuseRequest(r) \/ Handling(r)
    PROVE  IInv'
<1> USE ThreadsDiffer DEF IInv, Shape, Promises, TypeOK, OneCollection, Controlled,
    ReadInOrder, ClosedLeavesNothing, ReadersAreTold, PublishedIsWhole, NoOrphanedCollection,
    At, Go, LockFree, Running, Before, Read, RequestStep, CollectionStep,
    control, reading, session
<1>1. CASE Admit(r)
  BY <1>1, SMT DEF Admit
<1>2. CASE RefuseRequest(r)
  BY <1>2, SMT DEF RefuseRequest
<1>3. CASE BeginCollection(r)
  BY <1>3, SMT DEF BeginCollection
<1>4. CASE BeginRefused(r)
  BY <1>4, SMT DEF BeginRefused
<1>5. CASE BeginOutOfScope(r)
  <2>1. secured' \in BOOLEAN /\ ~ secured'
    BY <1>5, Zenon DEF BeginOutOfScope
  <2>2. CASE secured
    <3>1. Erased
      BY <1>5, <2>2, ErasedAll DEF BeginOutOfScope
    <3> QED
      BY <1>5, <2>1, <2>2, <3>1, SMT DEF BeginOutOfScope, Erased
  <2>3. CASE ~ secured
    BY <1>5, <2>1, <2>3, SMT DEF BeginOutOfScope
  <2> QED
    BY <2>2, <2>3
<1>6. CASE SpawnCollection(r)
  BY <1>6, SMT DEF SpawnCollection
<1>7. CASE HoldLock(r)
  BY <1>7, SMT DEF HoldLock
<1>8. CASE ReleaseLock(r)
  BY <1>8, SMT DEF ReleaseLock
<1> QED
  BY <1>1, <1>2, <1>3, <1>4, <1>5, <1>6, <1>7, <1>8, Zenon DEF Handling

LEMMA ClosingInv ==
    ASSUME IInv
    PROVE  /\ \A t \in Thread : Closing(t) => IInv'
           /\ \A t \in Terminator : Waiting(t) => IInv'
           /\ TimerFires => IInv'
<1> USE ThreadsDiffer DEF IInv, Shape, Promises, TypeOK, OneCollection, Controlled,
    ReadInOrder, ClosedLeavesNothing, ReadersAreTold, PublishedIsWhole, NoOrphanedCollection,
    At, Go, LockFree, Running, Before, Read, RequestStep, CollectionStep,
    control, reading, session
<1>1. ASSUME NEW t \in Thread, Terminate(t) PROVE IInv'
  <2>1. secured' \in BOOLEAN /\ ~ secured'
    BY <1>1, Zenon DEF Terminate
  <2> QED
    BY <1>1, <2>1, SMT DEF Terminate
<1>2. ASSUME NEW t \in Thread, Discard(t) PROVE IInv'
  <2>1. Erased
    BY <1>2, ErasedAll DEF Discard
  <2> QED
    BY <1>2, <2>1, SMT DEF Discard, Erased
<1>3. ASSUME NEW t \in Terminator, WaitProven(t) PROVE IInv'
  BY <1>3, SMT DEF WaitProven
<1>4. ASSUME NEW t \in Terminator, WaitUnproven(t) PROVE IInv'
  BY <1>4, SMT DEF WaitUnproven
<1>5. ASSUME TimerFires PROVE IInv'
  BY <1>5, SMT DEF TimerFires, Terminator
<1> QED
  BY <1>1, <1>2, <1>3, <1>4, <1>5, Zenon DEF Closing, Waiting

LEMMA CollectingInv == ASSUME IInv, Collecting PROVE IInv'
<1> USE ThreadsDiffer DEF IInv, Shape, Promises, TypeOK, OneCollection, Controlled,
    ReadInOrder, ClosedLeavesNothing, ReadersAreTold, PublishedIsWhole, NoOrphanedCollection,
    At, Go, LockFree, Stopped, Running, Before, Read, RequestStep, CollectionStep,
    control, reading, session
<1>1. CASE CreateController
  BY <1>1, SMT DEF CreateController
<1>2. CASE EnterCollect
  BY <1>2, SMT DEF EnterCollect
<1>3. CASE StartWorker
  BY <1>3, SMT DEF StartWorker
<1>4. CASE StopWorker
  BY <1>4, SMT DEF StopWorker
<1>5. CASE GraceEnds
  BY <1>5, SMT DEF GraceEnds
<1>6. CASE WorkerReturned
  BY <1>6, SMT DEF WorkerReturned
<1>7. CASE CheckCollected
  BY <1>7, SMT DEF CheckCollected
<1>8. CASE PublishResult
  BY <1>8, SMT DEF PublishResult
<1>9. CASE RecheckScope
  BY <1>9, SMT DEF RecheckScope
<1>10. CASE CompleteCollection
  BY <1>10, SMT DEF CompleteCollection
<1>11. CASE CompleteFails
  BY <1>11, SMT DEF CompleteFails
<1>12. CASE Abort
  BY <1>12, SMT DEF Abort
<1> QED
  BY <1>1, <1>2, <1>3, <1>4, <1>5, <1>6, <1>7, <1>8, <1>9, <1>10, <1>11, <1>12, Zenon
    DEF Collecting

LEMMA SurroundingsInv ==
    ASSUME IInv, WorkerEnds \/ ScopeChanges \/ TimePasses
    PROVE  IInv'
<1> USE DEF IInv, Shape, Promises, TypeOK, OneCollection, Controlled,
    ReadInOrder, ClosedLeavesNothing, ReadersAreTold, PublishedIsWhole, NoOrphanedCollection,
    At, Running, Before, Read, control, reading, session
<1>1. CASE WorkerEnds
  BY <1>1, SMT DEF WorkerEnds
<1>2. CASE ScopeChanges
  <2>1. intact' \in BOOLEAN
    BY <1>2, Zenon DEF ScopeChanges
  <2> QED
    BY <1>2, <2>1, SMT DEF ScopeChanges
<1>3. CASE TimePasses
  BY <1>3, SMT DEF TimePasses
<1> QED
  BY <1>1, <1>2, <1>3

LEMMA StepInv == IInv /\ [Next]_vars => IInv'
<1> SUFFICES ASSUME IInv, [Next]_vars PROVE IInv'
  OBVIOUS
<1>1. CASE Next
  BY <1>1, RequestStepInv, ClosingInv, CollectingInv, SurroundingsInv, Zenon DEF Next
<1>2. CASE UNCHANGED vars
  BY <1>2 DEF vars, IInv, Shape, Promises, TypeOK, OneCollection, Controlled,
    ReadInOrder, ClosedLeavesNothing, ReadersAreTold, PublishedIsWhole,
    NoOrphanedCollection, At, control, reading, session
<1> QED
  BY <1>1, <1>2

LEMMA Invariant == Spec => []IInv
  BY InitInv, StepInv, PTL DEF Spec

(* Every reachable state is well-typed; in particular at most one worker      *)
(* reads the owner's files at any time.                                       *)
THEOREM TypeCorrect == Spec => []TypeOK
<1>1. IInv => TypeOK
  BY DEF IInv, Shape
<1> QED
  BY <1>1, Invariant, PTL

(* However its threads interleave, a discarded session holds nothing of the   *)
(* collection and accepts nothing of it.                                      *)
THEOREM NothingLeft == Spec => []ClosedLeavesNothing
<1>1. IInv => ClosedLeavesNothing
  BY DEF IInv, Promises
<1> QED
  BY <1>1, Invariant, PTL

(* Every reader in a discarded session has been told to stop. *)
THEOREM ToldToStop == Spec => []ReadersAreTold
<1>1. IInv => ReadersAreTold
  BY DEF IInv, Promises
<1> QED
  BY <1>1, Invariant, PTL

(* Nothing cancelled, timed out, failed or unfinished is ever published. *)
THEOREM WholeOrNothing == Spec => []PublishedIsWhole
<1>1. IInv => PublishedIsWhole
  BY DEF IInv, Promises
<1> QED
  BY <1>1, Invariant, PTL

(* A collection that ends has published or has ended its session. *)
THEOREM EndsAccountedFor == Spec => []NoOrphanedCollection
<1>1. IInv => NoOrphanedCollection
  BY DEF IInv, Promises
<1> QED
  BY <1>1, Invariant, PTL

---------------------------------------------------------------------------
(* The early map. *)

(* A release is only read off records that are there. *)
LEMMA ReleaseIsRecorded ==
  ASSUME NEW fp, ObservedRelease(fp) # None
  PROVE  ReleaseRecords(fp) # {} /\ ObservedRelease(fp) \in ReleaseIds(fp)
<1>1. Cardinality(ReleaseIds(fp)) = 1 /\ ObservedRelease(fp) = CHOOSE r \in ReleaseIds(fp) : TRUE
  BY DEF ObservedRelease
<1>2. ReleaseIds(fp) # {}
  BY <1>1, FS_EmptySet
<1>3. QED
  BY <1>1, <1>2 DEF ReleaseIds

(* What was given to a family since was introduced or changed, not both. *)
LEMMA DeltaIsLawful ==
  ASSUME NEW f, NEW inspected, Delta(f, inspected) # None
  PROVE  /\ Delta(f, inspected) = [newer |-> Introduced(f, inspected), changed |-> Changed(f, inspected), from |-> inspected]
         /\ Introduced(f, inspected) \cup Changed(f, inspected) # {}
         /\ Introduced(f, inspected) \cap Changed(f, inspected) = {}
         /\ inspected # CoreRelease
<1>1. ~(inspected = None \/ CoreRelease \in {None, inspected} \/ f \notin Deltas(inspected))
  BY DEF Delta
<1>2. Introduced(f, inspected) \cup Changed(f, inspected) # {}
  BY <1>1 DEF Deltas
<1>3. Introduced(f, inspected) \cap Changed(f, inspected) = {}
  BY DEF Changed
<1>4. QED
  BY <1>1, <1>2, <1>3 DEF Delta

(* No rule a map demands of itself can keep an early map from being made:     *)
(* whatever was observed, a run has a map to pick from (run.py, the map and   *)
(* its rows).                                                                *)
THEOREM EarlyMapsAreLawful ==
  ASSUME NEW fp, NEW active
  PROVE  LawfulMap(EarlyMap(fp, active))
<1> DEFINE map == EarlyMap(fp, active)
           inspected == ObservedRelease(fp)
<1>1. /\ map.inspected = inspected /\ map.proof = LineageProof(fp) /\ map.nonLineage = IsNonLineage(fp)
      /\ map.rows = [f \in Families |-> [state |-> MapState(f, fp, active), since |-> Delta(f, inspected)]]
      /\ map.jobs = [j \in IF IsNonLineage(fp) THEN Jobs ELSE {} |-> JobMapRow(j, fp)]
  BY DEF EarlyMap
<1> HIDE DEF map
<1>2. map.inspected = None <=> map.proof = {}
  <2>1. CASE inspected = None
    BY <1>1, <2>1 DEF LineageProof
  <2>2. CASE inspected # None
    <3>1. PICK o \in ReleaseRecords(fp) : TRUE
      BY <2>2, ReleaseIsRecorded
    <3>2. o.token \in LineageProof(fp)
      BY <2>2, <3>1 DEF LineageProof
    <3>3. QED
      BY <1>1, <2>2, <3>2
  <2>3. QED
    BY <2>1, <2>2
<1>3. ASSUME NEW f \in DOMAIN map.rows, map.rows[f].since # None
      PROVE  LawfulDelta(map.rows[f].since, map)
  <2>1. map.rows[f].since = Delta(f, inspected)
    BY <1>1
  <2>2. Delta(f, inspected) # None
    BY <1>3, <2>1
  <2> HIDE DEF inspected
  <2>3. QED
    BY <1>1, <2>1, <2>2, DeltaIsLawful DEF LawfulDelta
<1>4. ASSUME NEW j \in DOMAIN map.jobs
      PROVE  LawfulJobRow(map.jobs[j])
  <2>1. map.jobs[j] = JobMapRow(j, fp)
    BY <1>1
  <2>2. QED
    BY <2>1 DEF JobMapRow, LawfulJobRow
<1>5. map.nonLineage <=> DOMAIN map.jobs # {}
  BY <1>1, CatalogueIsLawful
<1>6. map.nonLineage => map.inspected = None
  BY <1>1, ReleaseIsRecorded DEF IsNonLineage
<1>7. \A f \in DOMAIN map.rows : map.rows[f].since # None => LawfulDelta(map.rows[f].since, map)
  BY <1>3
<1>8. LawfulMap(map)
  BY <1>2, <1>4, <1>5, <1>6, <1>7 DEF LawfulMap
<1>9. QED
  BY <1>8 DEF map

(* A family is shown as absent only where the release on record proves it:    *)
(* each of its components is a skill that was first given after that release, *)
(* and none of them was found (significant_families.py, _postdates_install).  *)
THEOREM AbsentIsProven ==
  ASSUME NEW f \in Families, NEW fp, NEW active, MapState(f, fp, active) = "absent"
  PROVE  /\ ObservedRelease(fp) # None /\ ObservedRelease(fp) \in ReleaseIds(fp)
         /\ Matched(f, fp) = {} /\ Profile[f] # "manual-only"
         /\ Members[f] \cap active # {}
         /\ \A c \in Components[f] : /\ c.type = "capability" /\ Class[c.ref] = "skill"
                                     /\ Since[c.ref] > ObservedRelease(fp)
<1>1. /\ Matched(f, fp) = {} /\ Assessment(f, fp, active) = "postdates-install"
      /\ Availability(f, active) # "unavailable"
  BY DEF MapState
<1>2. /\ Profile[f] # "manual-only"
      /\ Components[f] \ Matched(f, fp) # {}
      /\ Postdating(f, fp) = Components[f] \ Matched(f, fp)
  BY <1>1 DEF Assessment
<1>3. \A c \in Components[f] : c.type = "capability" /\ PostdatesInstall(c.ref, ObservedRelease(fp))
  BY <1>1, <1>2 DEF Postdating
<1>4. Members[f] \cap active # {}
  BY <1>1, CatalogueIsLawful DEF Availability, FamiliesAreShaped
<1>5. PICK c \in Components[f] : TRUE
  BY <1>2
<1>6. ObservedRelease(fp) # None
  BY <1>3, <1>5 DEF PostdatesInstall
<1>7. QED
  BY <1>1, <1>2, <1>3, <1>4, <1>6, ReleaseIsRecorded DEF PostdatesInstall

(* A family is shown as present only where an observation that supports it    *)
(* stands for each of its components.                                         *)
THEOREM PresentIsSeen ==
  ASSUME NEW f \in Families, NEW fp, NEW active, MapState(f, fp, active) = "present"
  PROVE  \A c \in Components[f] : \E o \in fp :
           /\ o.supports /\ o.present /\ o.token \in FamilyEvidence(f, fp)
           /\ c.type = "capability" => /\ o.kind = ExpectedKind(c.ref) /\ o.identity \in Names[c.ref]
                                       /\ ~PostdatesInstall(c.ref, ObservedRelease(fp))
<1> SUFFICES ASSUME NEW c \in Components[f]
             PROVE  \E o \in fp :
                      /\ o.supports /\ o.present /\ o.token \in FamilyEvidence(f, fp)
                      /\ c.type = "capability" => /\ o.kind = ExpectedKind(c.ref) /\ o.identity \in Names[c.ref]
                                                  /\ ~PostdatesInstall(c.ref, ObservedRelease(fp))
  OBVIOUS
<1>1. Admits(Profile[f]).types \subseteq {"capability", "mcp-tool", "provider", "source"} \/ Profile[f] = "manual-only"
  BY CatalogueIsLawful DEF ProfilesAreKnown, Profiles, Admits
<1>2. c \in Matched(f, fp) /\ Profile[f] # "manual-only"
  BY DEF MapState, Matched
<1>3. PICK o \in MatchesOf(c, Profile[f], fp) : TRUE
  BY <1>2 DEF Matched
<1>4. o.token \in FamilyEvidence(f, fp)
  BY <1>2, <1>3 DEF FamilyEvidence
<1>5. o \in Supporting(fp) /\ c.type \in Admits(Profile[f]).types
  BY <1>1, <1>2, <1>3 DEF MatchesOf
<1>6. QED
  BY <1>3, <1>4, <1>5 DEF MatchesOf, Supporting

---------------------------------------------------------------------------
(* The comparison.                                                         *)

(* A function that is one over S.                                             *)
IsOver(f, S) == f = [x \in S |-> f[x]]

---------------------------------------------------------------------------
(* The answers.  An answer that stands is one that was accepted for its       *)
(* packet; the sceptic's are about claims that no longer change.              *)

GivenInv ==
  /\ fingerprint \in Fingerprints
  /\ selection = None \/ Selectable(selection)

Accepting(role) ==
  /\ answers[role] \subseteq Offers[role]
  /\ \A p \in answers[role] : Admissible(p)
  /\ status[role] = "completed" => Covers(answers[role], Required(role))

Viewing ==
  /\ answers[Sceptic] \subseteq Views
  /\ \A v \in answers[Sceptic] : Admissible(v) /\ \E b \in Baselines : KeepsOrLowers(v, b)
  /\ status[Sceptic] = "pending" => answers[Sceptic] = {}

AnswerInv ==
  /\ IsOver(status, Packets) /\ IsOver(answers, Packets)
  /\ \A r \in Roles : Accepting(r)
  /\ Viewing /\ LawfulQueue
  /\ Cardinality({Candidate(p) : p \in {q \in Normal : IsRecommendation(q)}}) <= MaxRecommendations

ReconciledInv ==
  reconciled # None => reconciled = Overlaid /\ \A r \in Packets : status[r] \in Final

LedgerInv ==
  ledger # None =>
    /\ reconciled # None
    /\ selection # None => Covers(reconciled, AllSelected)
    /\ \E first \in SUBSET Positions :
         /\ Firsts(first, Positions)
         /\ ledger = IF Keeps(Positions, Built(Positions, first)) THEN Built(Positions, first)
                     ELSE Refused

CompareInv == GivenInv /\ AnswerInv /\ ReconciledInv /\ LedgerInv

LEMMA ComparisonStarts == CompareInit => CompareInv
<1> SUFFICES ASSUME CompareInit PROVE CompareInv
  OBVIOUS
<1>1. GivenInv
  BY DEF CompareInit, GivenInv
<1>2. \A r \in Packets : answers[r] = {} /\ status[r] = "pending"
  BY DEF CompareInit
<1>3. Normal = {} /\ Roles \subseteq Packets /\ Sceptic \in Packets
  BY <1>2 DEF Normal, Packets
<1>4. Cardinality({Candidate(p) : p \in {q \in Normal : IsRecommendation(q)}}) = 0
  <2>1. {Candidate(p) : p \in {q \in Normal : IsRecommendation(q)}} = {}
    BY <1>3
  <2>2. QED
    BY <2>1, FS_EmptySet
<1>5. AnswerInv
  <2>1. \A r \in Roles : Accepting(r)
    BY <1>2, <1>3 DEF Accepting
  <2>2. Viewing /\ LawfulQueue
    BY <1>2, <1>3 DEF Viewing, LawfulQueue
  <2>3. IsOver(status, Packets) /\ IsOver(answers, Packets)
    BY DEF CompareInit, IsOver
  <2>4. QED
    BY <1>4, <2>1, <2>2, <2>3, ProposalsAreShaped DEF AnswerInv
<1>6. ReconciledInv /\ LedgerInv
  BY DEF CompareInit, ReconciledInv, LedgerInv
<1>7. QED
  BY <1>1, <1>5, <1>6 DEF CompareInv

(* What was given says what may be answered. *)
LEMMA GivenStands ==
  ASSUME UNCHANGED given
  PROVE  /\ GivenInv => GivenInv'
         /\ \A p : Admissible(p)' <=> Admissible(p)
         /\ \A r : Required(r)' = Required(r)
         /\ \A ps, required : Covers(ps, required)' <=> Covers(ps, required)
         /\ AllSelected' = AllSelected
<1> fingerprint' = fingerprint /\ selection' = selection
  BY DEF given
<1>1. IsNonLineage(fingerprint)' <=> IsNonLineage(fingerprint)
  BY DEF IsNonLineage, ReleaseRecords
<1>2. Slice' = Slice
  BY <1>1 DEF Slice
<1>3. HeldBack' = HeldBack /\ JobsInScope' = JobsInScope
  BY <1>1, <1>2 DEF HeldBack, JobsInScope
<1>4. Context' = Context
  BY <1>2, <1>3 DEF Context, Tokens, AuthoredTokens
<1>5. \A p : Admissible(p)' <=> Admissible(p)
  BY <1>4 DEF Admissible, WellFormed, JobShaped, IsRecommendation
<1>6. \A r : Required(r)' = Required(r)
  BY <1>1 DEF Required
<1>7. \A ps, required : Covers(ps, required)' <=> Covers(ps, required)
  BY <1>1 DEF Covers
<1>8. AllSelected' = AllSelected
  BY <1>1, <1>2 DEF AllSelected
<1>9. GivenInv => GivenInv'
  <2>1. Map' = Map
    BY DEF Map
  <2>2. \A s : Selectable(s)' <=> Selectable(s)
    BY <2>1 DEF Selectable
  <2>3. QED
    BY <2>2 DEF GivenInv
<1>10. QED
  BY <1>5, <1>6, <1>7, <1>8, <1>9

(* What is claimed, and what it comes to, stands once it is no longer answered. *)
LEMMA ClaimsStand ==
  ASSUME \A r \in Roles : answers'[r] = answers[r]
  PROVE  /\ Normal' = Normal /\ NormalReconciled' = NormalReconciled
         /\ Baselines' = Baselines
         /\ \A v, b : KeepsOrLowers(v, b)' <=> KeepsOrLowers(v, b)
<1>1. Normal' = Normal
  BY DEF Normal
<1>2. NormalReconciled' = NormalReconciled
  BY <1>1 DEF NormalReconciled
<1>3. Baselines' = Baselines
  BY <1>2 DEF Baselines
<1>4. QED
  BY <1>1, <1>2, <1>3 DEF KeepsOrLowers

LEMMA Answered ==
  ASSUME CompareInv, NEW role \in Roles, NEW ps \in SUBSET Offers[role], Submit(role, ps)
  PROVE  AnswerInv'
<1> UNCHANGED given /\ Sceptic \notin Roles /\ Roles \subseteq Packets /\ Sceptic \in Packets
  BY RolesAreTold DEF Submit, Receive, given, Packets
<1> IsOver(status, Packets) /\ IsOver(answers, Packets)
  BY DEF CompareInv, AnswerInv
<1>1. /\ status[role] \in {"pending", "retry"}
      /\ status[Sceptic] = "pending" /\ answers[Sceptic] = {}
  BY DEF Submit, Receive, CompareInv, AnswerInv, LawfulQueue, Final, Viewing
<1>2. /\ IsOver(status', Packets) /\ IsOver(answers', Packets)
      /\ status'[Sceptic] = "pending" /\ answers'[Sceptic] = {}
      /\ \A r \in Roles \ {role} : status'[r] = status[r] /\ answers'[r] = answers[r]
  BY <1>1 DEF Submit, Receive, IsOver
<1>3. CASE Accepted(role, ps)
  <2>1. answers'[role] = ps
    BY <1>3 DEF Submit, Receive, IsOver
  <2>2. Accepting(role)'
    BY <1>3, <2>1, GivenStands DEF Accepting, Accepted
  <2>3. Normal' = Earlier(role) \cup ps
    BY <1>2, <2>1 DEF Normal, Earlier
  <2>4. Cardinality({Candidate(p) : p \in {q \in Normal' : IsRecommendation(q)}}) <= MaxRecommendations
    BY <1>3, <2>3 DEF Accepted
  <2>5. \A r \in Roles : Accepting(r)'
    BY <1>2, <2>2, GivenStands DEF CompareInv, AnswerInv, Accepting
  <2>6. QED
    BY <1>2, <2>4, <2>5 DEF AnswerInv, Viewing, LawfulQueue, Candidate, IsRecommendation
<1>4. CASE ~Accepted(role, ps)
  <2>1. answers' = answers /\ status'[role] # "completed"
    BY <1>4 DEF Submit, Receive, IsOver
  <2>2. Normal' = Normal
    BY <2>1 DEF Normal
  <2>3. \A r \in Roles : Accepting(r)'
    BY <1>2, <2>1, GivenStands DEF CompareInv, AnswerInv, Accepting
  <2>4. QED
    BY <1>2, <2>2, <2>3 DEF CompareInv, AnswerInv, Viewing, LawfulQueue, Candidate, IsRecommendation
<1>5. QED
  BY <1>3, <1>4

LEMMA AnsweredLast ==
  ASSUME CompareInv, NEW vs \in SUBSET Views, SubmitSceptical(vs)
  PROVE  AnswerInv'
<1> UNCHANGED given /\ Sceptic \notin Roles /\ Roles \subseteq Packets /\ Sceptic \in Packets
  BY RolesAreTold DEF SubmitSceptical, Receive, given, Packets
<1> IsOver(status, Packets) /\ IsOver(answers, Packets)
  BY DEF CompareInv, AnswerInv
<1>1. /\ IsOver(status', Packets) /\ IsOver(answers', Packets) /\ status'[Sceptic] # "pending"
      /\ \A r \in Roles : status'[r] = status[r] /\ answers'[r] = answers[r] /\ status[r] \in Final
      /\ answers'[Sceptic] = answers[Sceptic] \/ (AcceptedView(vs) /\ answers'[Sceptic] = vs)
  <2>1. \A r \in Roles : r \in Packets /\ r # Sceptic
    OBVIOUS
  <2>2. CASE AcceptedView(vs)
    BY <2>1, <2>2 DEF SubmitSceptical, Receive, IsOver
  <2>3. CASE ~AcceptedView(vs)
    BY <2>1, <2>3 DEF SubmitSceptical, Receive, IsOver
  <2>4. QED
    BY <2>2, <2>3
<1>2. /\ Normal' = Normal /\ Baselines' = Baselines
      /\ \A v, b : KeepsOrLowers(v, b)' <=> KeepsOrLowers(v, b)
  BY <1>1, ClaimsStand
<1>3. \A r \in Roles : Accepting(r)'
  BY <1>1, GivenStands DEF CompareInv, AnswerInv, Accepting
<1>4. Viewing'
  BY <1>1, <1>2, GivenStands DEF CompareInv, AnswerInv, Viewing, AcceptedView
<1>5. LawfulQueue'
  BY <1>1 DEF LawfulQueue
<1>6. QED
  BY <1>1, <1>2, <1>3, <1>4, <1>5 DEF CompareInv, AnswerInv, Candidate, IsRecommendation

(* What the answers come to and what a ledger is asked stand with the answers. *)
LEMMA LedgerStands ==
  ASSUME UNCHANGED <<given, reconciled>>
  PROVE  /\ Claims' = Claims /\ Positions' = Positions
         /\ \A ps, first : Built(ps, first)' = Built(ps, first)
         /\ \A ps, l : Keeps(ps, l)' <=> Keeps(ps, l)
<1>1. fingerprint' = fingerprint /\ reconciled' = reconciled
  BY DEF given
<1>2. Claims' = Claims
  BY <1>1 DEF Claims
<1>3. Positions' = Positions
  <2>1. \A ps : WithSkillCopies(ps)' = WithSkillCopies(ps) /\ WithAutomatic(ps)' = WithAutomatic(ps)
    BY <1>1 DEF WithSkillCopies, WithAutomatic, AutomaticFires, DifferingCopies
  <2>2. QED
    BY <1>2, <2>1 DEF Positions
<1>4. \A ps : LocalRows(ps)' = LocalRows(ps)
  BY <1>1 DEF LocalRows, LocalRow
<1>5. IsNonLineage(fingerprint)' <=> IsNonLineage(fingerprint)
  BY <1>1 DEF IsNonLineage, ReleaseRecords
<1>6. FamilyRows' = FamilyRows
  BY <1>1 DEF FamilyRows, FamilyRow
<1>7. JobRows' = JobRows
  BY <1>1, <1>5 DEF JobRows, JobRow
<1>8. \A ps, first : Built(ps, first)' = Built(ps, first)
  BY <1>1, <1>4, <1>6, <1>7 DEF Built
<1>9. \A ps : CitesOnlyWhatWasSeen(ps)' <=> CitesOnlyWhatWasSeen(ps)
  BY <1>1 DEF CitesOnlyWhatWasSeen
<1>10. \A l : LawfulLedger(l)' <=> LawfulLedger(l)
  BY <1>1 DEF LawfulLedger, SelfConsistent
<1>11. \A l : BoundToFolders(l)' <=> BoundToFolders(l)
  BY <1>1, <1>6 DEF BoundToFolders
<1>12. QED
  BY <1>2, <1>3, <1>8, <1>9, <1>10, <1>11 DEF Keeps

LEMMA ComparisonSteps == CompareInv /\ CompareNext => CompareInv'
<1> SUFFICES ASSUME CompareInv, CompareNext PROVE CompareInv'
  OBVIOUS
<1>1. GivenInv'
  <2>1. UNCHANGED given
    BY DEF CompareNext, Submit, SubmitSceptical, Receive, FetchCatalogue, CompleteAnalysis, Compare, given
  <2>2. QED
    BY <2>1, GivenStands DEF CompareInv
<1>2. ASSUME NEW role \in Packets, NEW ps, NEW accepted \in BOOLEAN, Receive(role, ps, accepted)
      PROVE  reconciled = None /\ ledger = None /\ UNCHANGED <<reconciled, ledger>>
  BY <1>2 DEF Receive, CompareInv, ReconciledInv, LedgerInv, Final
<1>3. ASSUME NEW role \in Roles, NEW ps \in SUBSET Offers[role], Submit(role, ps)
      PROVE  CompareInv'
  <2>1. Accepted(role, ps) \in BOOLEAN /\ role \in Packets
    BY DEF Accepted, Packets
  <2>2. reconciled' = None /\ ledger' = None
    BY <1>2, <1>3, <2>1 DEF Submit
  <2>3. QED
    BY <1>1, <1>3, <2>2, Answered DEF CompareInv, ReconciledInv, LedgerInv
<1>4. ASSUME NEW vs \in SUBSET Views, SubmitSceptical(vs)
      PROVE  CompareInv'
  <2>1. AcceptedView(vs) \in BOOLEAN /\ Sceptic \in Packets
    BY DEF AcceptedView, Packets
  <2>2. reconciled' = None /\ ledger' = None
    BY <1>2, <1>4, <2>1 DEF SubmitSceptical
  <2>3. QED
    BY <1>1, <1>4, <2>2, AnsweredLast DEF CompareInv, ReconciledInv, LedgerInv
<1>5. ASSUME UNCHANGED <<given, status, answers>>
      PROVE  AnswerInv' /\ Overlaid' = Overlaid
  <2>1. UNCHANGED given /\ status' = status /\ answers' = answers
    BY <1>5
  <2>2. /\ Normal' = Normal /\ NormalReconciled' = NormalReconciled /\ Baselines' = Baselines
        /\ \A v, b : KeepsOrLowers(v, b)' <=> KeepsOrLowers(v, b)
    BY <2>1, ClaimsStand
  <2>3. Overlaid' = Overlaid
    BY <2>1, <2>2 DEF Overlaid
  <2>4. (\A r \in Roles : Accepting(r)') /\ Viewing' /\ LawfulQueue'
    BY <2>1, <2>2, GivenStands DEF CompareInv, AnswerInv, Accepting, Viewing, LawfulQueue
  <2>5. QED
    BY <2>1, <2>2, <2>3, <2>4 DEF CompareInv, AnswerInv, Candidate, IsRecommendation
<1>6. CASE FetchCatalogue
  <2>1. UNCHANGED <<given, status, answers>> /\ reconciled' = reconciled /\ ledger' = None
    BY <1>6 DEF FetchCatalogue, given
  <2>2. QED
    BY <1>1, <1>5, <2>1 DEF CompareInv, ReconciledInv, LedgerInv
<1>7. CASE CompleteAnalysis
  <2>1. /\ UNCHANGED <<given, status, answers>> /\ reconciled' = Overlaid /\ ledger' = ledger
        /\ reconciled = None /\ \A r \in Packets : status[r] \in Final
    BY <1>7 DEF CompleteAnalysis, given
  <2>2. QED
    BY <1>1, <1>5, <2>1 DEF CompareInv, ReconciledInv, LedgerInv
<1>8. CASE Compare
  <2>1. UNCHANGED <<given, status, answers>> /\ reconciled' = reconciled /\ fingerprint' = fingerprint
    BY <1>8 DEF Compare, given
  <2>2. AnswerInv' /\ ReconciledInv'
    BY <1>5, <2>1 DEF CompareInv, ReconciledInv
  <2>3. PICK first \in SUBSET Positions :
          /\ Firsts(first, Positions)
          /\ ledger' = IF Keeps(Positions, Built(Positions, first)) THEN Built(Positions, first)
                       ELSE Refused
    BY <1>8 DEF Compare
  <2>4. /\ Positions' = Positions /\ AllSelected' = AllSelected
        /\ \A ps, fs : Built(ps, fs)' = Built(ps, fs)
        /\ \A ps, l : Keeps(ps, l)' <=> Keeps(ps, l)
    BY <2>1, GivenStands, LedgerStands
  <2>5. LedgerInv'
    <3>1. Positions' = Positions /\ first \in SUBSET Positions'
      BY <2>4
    <3>2. /\ Firsts(first, Positions)'
          /\ ledger' = IF Keeps(Positions, Built(Positions, first))' THEN Built(Positions, first)'
                       ELSE Refused
      BY <2>3, <2>4
    <3>3. reconciled' # None
      BY <2>1, <1>8 DEF Compare
    <3>4. selection' # None => Covers(reconciled, AllSelected)'
      BY <2>1, <2>4, <1>8, GivenStands DEF Compare, given
    <3>5. QED
      BY <3>1, <3>2, <3>3, <3>4 DEF LedgerInv
  <2>6. QED
    BY <1>1, <2>2, <2>5 DEF CompareInv
<1>9. QED
  BY <1>3, <1>4, <1>6, <1>7, <1>8 DEF CompareNext

LEMMA ComparisonRests == CompareInv /\ UNCHANGED comparisonVars => CompareInv' /\ Positions' = Positions
<1> SUFFICES ASSUME CompareInv, UNCHANGED comparisonVars PROVE CompareInv' /\ Positions' = Positions
  OBVIOUS
<1>1. UNCHANGED <<given, status, answers, reconciled, ledger>> /\ UNCHANGED <<given, reconciled>>
  BY DEF comparisonVars, given
<1>2. UNCHANGED given /\ status' = status /\ answers' = answers
  BY <1>1
<1>3. /\ Normal' = Normal /\ NormalReconciled' = NormalReconciled /\ Baselines' = Baselines
      /\ \A v, b : KeepsOrLowers(v, b)' <=> KeepsOrLowers(v, b)
  BY <1>2, ClaimsStand
<1>4. Overlaid' = Overlaid
  BY <1>2, <1>3 DEF Overlaid
<1>5. GivenInv'
  BY <1>2, GivenStands DEF CompareInv
<1>6. AnswerInv'
  <2>1. (\A r \in Roles : Accepting(r)') /\ Viewing' /\ LawfulQueue'
    BY <1>2, <1>3, GivenStands DEF CompareInv, AnswerInv, Accepting, Viewing, LawfulQueue
  <2>2. QED
    BY <1>2, <1>3, <2>1 DEF CompareInv, AnswerInv, Candidate, IsRecommendation
<1>7. ReconciledInv'
  BY <1>1, <1>4 DEF CompareInv, ReconciledInv
<1>8. Positions' = Positions
  BY <1>1, LedgerStands
<1>9. LedgerInv'
  <2>1. SUFFICES ASSUME ledger' # None PROVE LedgerInv'
    BY DEF LedgerInv
  <2>2. /\ reconciled' # None /\ selection' = selection
        /\ selection # None => Covers(reconciled, AllSelected)
    BY <1>1, <2>1 DEF CompareInv, LedgerInv, given
  <2>3. PICK first \in SUBSET Positions :
          /\ Firsts(first, Positions)
          /\ ledger = IF Keeps(Positions, Built(Positions, first)) THEN Built(Positions, first)
                      ELSE Refused
    BY <1>1, <2>1 DEF CompareInv, LedgerInv
  <2>4. selection' # None => Covers(reconciled, AllSelected)'
    BY <1>1, <1>2, <2>2, GivenStands
  <2>5. /\ first \in SUBSET Positions' /\ Firsts(first, Positions)'
        /\ ledger' = IF Keeps(Positions, Built(Positions, first))' THEN Built(Positions, first)'
                     ELSE Refused
    BY <1>1, <1>8, <2>3, LedgerStands
  <2>6. QED
    BY <2>2, <2>4, <2>5 DEF LedgerInv
<1>10. QED
  BY <1>5, <1>6, <1>7, <1>8, <1>9 DEF CompareInv

(* A ledger ends the comparison. *)
LEMMA TheLedgerIsLast == CompareInv /\ HasLedger => ~CompareNext
<1> SUFFICES ASSUME CompareInv, HasLedger, CompareNext PROVE FALSE
  OBVIOUS
<1>1. ledger # None /\ reconciled # None /\ \A r \in Packets : status[r] \in Final
  BY DEF HasLedger, CompareInv, LedgerInv, ReconciledInv
<1>2. \A r \in Packets : status[r] \notin {"pending", "retry"}
  BY <1>1 DEF Final
<1>3. QED
  BY <1>1, <1>2 DEF CompareNext, Submit, SubmitSceptical, Receive, FetchCatalogue, CompleteAnalysis,
                    Compare, Packets
---------------------------------------------------------------------------
(* What the answers come to. *)

LEMMA CoalesceTells ==
  ASSUME NEW g, NEW c, g # {}, \A p \in g : Candidate(p) = c
  PROVE  LET one == Coalesce(g) IN
         /\ Candidate(one) = c /\ <<one.kind, one.id, one.cap>> = c
         /\ one.tokens = FirstOf(Cited(g)) /\ one.packet /\ one.named
         /\ one.disputed <=> ~Agreed(g)
         /\ one.disputed => one.disp = "not-assessed" /\ one.factors = None /\ one.verdict = None
         /\ ~one.disputed => \A p \in g : SameAnswer(one, p)
<1> DEFINE pick == CHOOSE p \in g : TRUE
<1>1. pick \in g
  OBVIOUS
<1>2. Candidate(Coalesce(g)) = Candidate(pick)
  BY DEF Candidate, Coalesce
<1>3. Candidate(pick) = c
  BY <1>1
<1>4. Coalesce(g).disputed <=> ~Agreed(g)
  BY DEF Coalesce
<1>5. ASSUME Agreed(g)
      PROVE  \A p \in g : SameAnswer(Coalesce(g), p)
  BY <1>1, <1>5 DEF Agreed, SameAnswer, Coalesce
<1>6. QED
  BY <1>2, <1>3, <1>4, <1>5 DEF Coalesce, Candidate

LEMMA SpokenOfOne == \A c : \A p \in Spoken(c) : Candidate(p) = c /\ p \in Normal \cup answers[Sceptic]
BY DEF Spoken, Group

LEMMA SpokenTells ==
  ASSUME NEW c, Spoken(c) # {}
  PROVE  LET one == Coalesce(Spoken(c)) IN
         /\ Candidate(one) = c /\ <<one.kind, one.id, one.cap>> = c
         /\ one.tokens = FirstOf(Cited(Spoken(c))) /\ one.packet /\ one.named
         /\ one.disputed <=> ~Agreed(Spoken(c))
         /\ one.disputed => one.disp = "not-assessed" /\ one.factors = None /\ one.verdict = None
         /\ ~one.disputed => \A p \in Spoken(c) : SameAnswer(one, p)
<1>1. \A p \in Spoken(c) : Candidate(p) = c
  BY SpokenOfOne
<1>2. QED
  BY <1>1, CoalesceTells

(* Every candidate that anybody spoke of is overlaid once, and nothing else.  *)
LEMMA OverlaidIsSpoken == \A p : p \in Overlaid <=> \E c : Spoken(c) # {} /\ p = Coalesce(Spoken(c))
<1> DEFINE last == Reconcile(answers[Sceptic])
<1>1. \A ps : \A p : p \in Reconcile(ps) <=> \E c : Group(ps, c) # {} /\ p = Coalesce(Group(ps, c))
  BY DEF Reconcile, Group
<1>2. \A ps, c : Group(ps, c) # {} => Candidate(Coalesce(Group(ps, c))) = c
  <2>1. SUFFICES ASSUME NEW ps, NEW c, Group(ps, c) # {} PROVE Candidate(Coalesce(Group(ps, c))) = c
    OBVIOUS
  <2>2. \A p \in Group(ps, c) : Candidate(p) = c
    BY DEF Group
  <2>3. QED
    BY <2>1, <2>2, CoalesceTells
<1>3. \A c : (\E s \in last : Candidate(s) = c) <=> Group(answers[Sceptic], c) # {}
  BY <1>1, <1>2
<1>4. \A p : p \in Overlaid <=>
        \/ p \in last
        \/ p \in Reconcile(Normal) /\ Group(answers[Sceptic], Candidate(p)) = {}
  BY <1>3 DEF Overlaid, NormalReconciled
<1>5. QED
  BY <1>1, <1>2, <1>4 DEF Spoken

(* The engine's own proposals: a skill that grades, or the restore test.      *)
Own(p) ==
  /\ p.id \in {SkillScore, BackupRestore} /\ p.id \in Entries \cap Active[1]
  /\ p.kind = "recommendation" /\ p.disp = "worth-borrowing" /\ p.factors = EngineFactors
  /\ p.cap = p.id /\ p.disputed = FALSE
  /\ \E S \in SUBSET Tokens(fingerprint) : S # {} /\ p.tokens = FirstOf(S)
  /\ AutomaticFires(WithSkillCopies(Claims)) \/ (p.named = FALSE /\ p.packet = FALSE)

(* What stands for a component was seen in the folders. *)
LEMMA MatchesAreSeen ==
  ASSUME NEW f \in Families, NEW fp, NEW c \in Matched(f, fp)
  PROVE  MatchesOf(c, Profile[f], fp) \subseteq fp /\ MatchesOf(c, Profile[f], fp) # {} /\ c \in Components[f]
<1>1. Profile[f] # "manual-only" /\ c \in Components[f] /\ MatchesOf(c, Profile[f], fp) # {}
  BY DEF Matched
<1>2. Profile[f] \in Profiles
  BY <1>1, CatalogueIsLawful DEF ProfilesAreKnown
<1>3. Admits(Profile[f]).types \subseteq {"capability", "mcp-tool", "provider", "source"}
  BY <1>2 DEF Profiles, Admits
<1>4. c.type \in {"capability", "mcp-tool", "provider", "source"}
  BY <1>1, <1>3 DEF MatchesOf
<1>5. MatchesOf(c, Profile[f], fp) \subseteq Supporting(fp)
  BY <1>4 DEF MatchesOf
<1>6. QED
  BY <1>1, <1>5 DEF Supporting

LEMMA EvidenceIsSeen == ASSUME NEW f \in Families, NEW fp PROVE FamilyEvidence(f, fp) \subseteq Tokens(fp)
BY MatchesAreSeen DEF FamilyEvidence, Tokens

LEMMA PositionsAre == Claims \subseteq Positions /\ \A p \in Positions : p \in Claims \/ Own(p)
<1>1. ASSUME NEW p \in WithSkillCopies(Claims), p \notin Claims
      PROVE  Own(p)
  <2>1. /\ SkillScore \in Entries \cap Active[1] /\ DifferingCopies # {}
        /\ p = Engine(SkillScore, EngineFactors, Tokens(DifferingCopies), FALSE)
    BY <1>1 DEF WithSkillCopies
  <2>2. Tokens(DifferingCopies) # {} /\ Tokens(DifferingCopies) \subseteq Tokens(fingerprint)
    BY <2>1 DEF Tokens, DifferingCopies
  <2>3. p.tokens = FirstOf(Tokens(DifferingCopies))
    BY <2>1 DEF Engine
  <2>4. QED
    BY <2>1, <2>2, <2>3 DEF Own, Engine
<1>2. ASSUME NEW p \in Positions, p \notin WithSkillCopies(Claims)
      PROVE  Own(p)
  <2>1. /\ AutomaticFires(WithSkillCopies(Claims))
        /\ p = Engine(BackupRestore, EngineFactors, FamilyEvidence(BackupFamily, fingerprint), TRUE)
    BY <1>2 DEF Positions, WithAutomatic
  <2>2. /\ BackupRestore \in Entries \cap Active[1] /\ FamilyEvidence(BackupFamily, fingerprint) # {}
        /\ FamilyEvidence(BackupFamily, fingerprint) \subseteq Tokens(fingerprint)
    BY <2>1, EvidenceIsSeen DEF AutomaticFires
  <2>3. p.tokens = FirstOf(FamilyEvidence(BackupFamily, fingerprint))
    BY <2>1 DEF Engine
  <2>4. QED
    BY <2>1, <2>2, <2>3 DEF Own, Engine
<1>3. QED
  BY <1>1, <1>2 DEF Positions, WithSkillCopies, WithAutomatic

LEMMA FirstIsThere ==
  ASSUME NEW ps, NEW first, Firsts(first, ps), NEW x, {p \in ps : p.id = x} # {}
  PROVE  \E p \in {q \in ps : q.id = x} : p \in first
<1>1. PICK p \in first : p.id = x
  BY DEF Firsts
<1>2. p \in Leading({q \in ps : q.id = x})
  BY <1>1 DEF Firsts
<1>3. QED
  BY <1>1, <1>2 DEF Leading

(* An entry that says anything says what all positions on it say. *)
LEMMA EntryTells ==
  ASSUME NEW x, NEW group, NEW first, \E p \in group : p \in first,
         \A p \in group : p.disputed => p.disp = "not-assessed"
  PROVE  LET e == Entry(x, group, first) IN
         /\ e.disp # "not-assessed" =>
              (\A p \in group : ~p.disputed /\ p.disp = e.disp) /\ \E p \in group : e.tokens = p.tokens
         /\ \E p \in group : e.cap = p.cap
         /\ e.tokens = FirstOf(Cited(group)) \/ \E p \in group : e.tokens = p.tokens
         /\ e.disp \in MethodBound => e.method
<1> DEFINE lead == CHOOSE p \in group : p \in first
           disputed == {p \in group : p.disputed}
           chosen == IF disputed = {} THEN lead ELSE CHOOSE p \in disputed : TRUE
           reviewed == \E p \in group : p.disp = chosen.disp /\ p.kind \in MethodReviews
<1>1. lead \in group /\ group # {}
  OBVIOUS
<1>2. chosen \in group
  BY <1>1
<1>3. disputed # {} => chosen.disp = "not-assessed"
  OBVIOUS
<1>4. Entry(x, group, first) =
        IF disputed = {} /\ \E p, q \in group : p.disp # q.disp THEN Unknown(lead, FirstOf(Cited(group)))
        ELSE IF chosen.disp \in MethodBound /\ ~reviewed THEN Unknown(chosen, chosen.tokens)
        ELSE [disp |-> chosen.disp, cap |-> chosen.cap, tokens |-> chosen.tokens, method |-> reviewed]
  BY <1>1 DEF Entry
<1> HIDE DEF lead, disputed, chosen, reviewed
<1>5. CASE disputed = {} /\ \E p, q \in group : p.disp # q.disp
  BY <1>1, <1>4, <1>5 DEF Unknown, MethodBound
<1>6. CASE ~(disputed = {} /\ \E p, q \in group : p.disp # q.disp) /\ chosen.disp \in MethodBound /\ ~reviewed
  BY <1>2, <1>4, <1>6 DEF Unknown, MethodBound
<1>7. CASE ~(disputed = {} /\ \E p, q \in group : p.disp # q.disp) /\ ~(chosen.disp \in MethodBound /\ ~reviewed)
  <2>1. Entry(x, group, first) =
          [disp |-> chosen.disp, cap |-> chosen.cap, tokens |-> chosen.tokens, method |-> reviewed]
    BY <1>4, <1>7
  <2>2. chosen.disp # "not-assessed" => disputed = {} /\ \A p \in group : p.disp = chosen.disp
    BY <1>2, <1>3, <1>7
  <2>3. disputed = {} => \A p \in group : ~p.disputed
    BY DEF disputed
  <2>4. QED
    BY <1>2, <1>7, <2>1, <2>2, <2>3
<1>8. QED
  BY <1>5, <1>6, <1>7
---------------------------------------------------------------------------
(* What a position says of the answers. *)

LEMMA WhoAnswers ==
  ASSUME CompareInv
  PROVE  /\ \A p \in Normal : Admissible(p) /\ \E r \in Roles : p \in Offers[r]
         /\ \A v \in answers[Sceptic] : Admissible(v) /\ v \in Views
                                        /\ \E b \in Baselines : KeepsOrLowers(v, b)
BY DEF CompareInv, AnswerInv, Accepting, Viewing, Normal

LEMMA Jobless ==
  ASSUME CompareInv
  PROVE  /\ \A v \in answers[Sceptic] : v.kind # "job-coverage"
         /\ \A c : c[1] = "job-coverage" => Spoken(c) = Group(Normal, c)
<1>1. ASSUME NEW b \in NormalReconciled, b.kind = "job-coverage"
      PROVE  b \notin Baselines
  <2>1. PICK p \in Normal : b = Coalesce(Group(Normal, Candidate(p)))
    BY DEF NormalReconciled, Reconcile
  <2>2. /\ Group(Normal, Candidate(p)) # {}
        /\ \A q \in Group(Normal, Candidate(p)) : Candidate(q) = Candidate(p)
    BY DEF Group
  <2>3. Candidate(b) = Candidate(p)
    BY <2>1, <2>2, CoalesceTells
  <2>4. p.kind = "job-coverage"
    BY <1>1, <2>3 DEF Candidate
  <2>5. p.disp = "not-assessed"
    BY <2>4, WhoAnswers DEF Admissible, JobShaped
  <2>6. p \in Group(Normal, Candidate(p))
    BY DEF Group
  <2>7. b.disp = "not-assessed"
    BY <2>1, <2>2, <2>5, <2>6, CoalesceTells DEF SameAnswer
  <2>8. QED
    BY <1>1, <2>7 DEF Baselines
<1>2. ASSUME NEW v \in answers[Sceptic], v.kind = "job-coverage"
      PROVE  FALSE
  <2>1. PICK b \in Baselines : KeepsOrLowers(v, b)
    BY WhoAnswers
  <2>2. Candidate(v) = Candidate(b)
    BY <2>1 DEF KeepsOrLowers
  <2>3. b.kind = "job-coverage"
    BY <1>2, <2>2 DEF Candidate
  <2>4. QED
    BY <1>1, <2>3 DEF Baselines
<1>3. QED
  BY <1>2 DEF Spoken, Group, Candidate

(* A position that disposes of anything is what its candidate stands at.      *)
LEMMA ClaimsAre ==
  ASSUME CompareInv, reconciled # None, NEW p \in reconciled
  PROVE  LET c == Candidate(p) IN
         /\ Spoken(c) # {} /\ p = Coalesce(Spoken(c))
         /\ \A q \in Spoken(c) : Candidate(q) = c /\ q \in Normal \cup answers[Sceptic]
         /\ p.disputed => p.disp = "not-assessed" /\ p.factors = None
         /\ ~p.disputed => (\A q \in Spoken(c) : SameAnswer(p, q)) /\ Stands(c) = p.disp
<1>1. PICK c : Spoken(c) # {} /\ p = Coalesce(Spoken(c))
  BY OverlaidIsSpoken DEF CompareInv, ReconciledInv
<1>2. Candidate(p) = c
  BY <1>1, SpokenTells
<1>3. ~p.disputed => Agreed(Spoken(c)) /\ \A q \in Spoken(c) : SameAnswer(p, q)
  BY <1>1, SpokenTells
<1>4. (CHOOSE q \in Spoken(c) : TRUE) \in Spoken(c)
  BY <1>1
<1>5. ~p.disputed => Stands(c) = p.disp
  BY <1>3, <1>4 DEF Stands, SameAnswer
<1>6. p.disputed => p.disp = "not-assessed" /\ p.factors = None
  BY <1>1, SpokenTells
<1>7. QED
  BY <1>1, <1>2, <1>3, <1>5, <1>6, SpokenOfOne

LEMMA EveryoneIsHeard ==
  ASSUME CompareInv, reconciled # None, NEW q \in Normal \cup answers[Sceptic]
  PROVE  LET p == Coalesce(Spoken(Candidate(q))) IN p \in reconciled /\ Candidate(p) = Candidate(q)
<1>1. Spoken(Candidate(q)) # {}
  BY DEF Spoken, Group
<1>2. QED
  BY <1>1, OverlaidIsSpoken, SpokenTells DEF CompareInv, ReconciledInv

(* The ledger, entry by entry. *)
LEMMA LedgerIs ==
  ASSUME CompareInv, HasLedger
  PROVE  /\ reconciled # None
         /\ selection # None => Covers(reconciled, AllSelected)
         /\ \E first \in SUBSET Positions :
              /\ Firsts(first, Positions)
              /\ ledger = Built(Positions, first) /\ Keeps(Positions, ledger)
BY DEF CompareInv, LedgerInv, HasLedger

On(x) == {p \in Positions : p.id = x}

LEMMA EntryStands ==
  ASSUME CompareInv, reconciled # None, NEW first, Firsts(first, Positions), NEW x
  PROVE  LET e == Entry(x, On(x), first) IN
         /\ On(x) = {} => e.disp = "not-assessed"
         /\ e.disp # "not-assessed" =>
              (\A p \in On(x) : ~p.disputed /\ p.disp = e.disp) /\ \E p \in On(x) : e.tokens = p.tokens
         /\ On(x) # {} => \E p \in On(x) : e.cap = p.cap
         /\ On(x) # {} => e.tokens = FirstOf(Cited(On(x))) \/ \E p \in On(x) : e.tokens = p.tokens
         /\ e.disp \in MethodBound => e.method
<1>1. CASE On(x) = {}
  BY <1>1 DEF Entry, MethodBound
<1>2. CASE On(x) # {}
  <2>1. \E p \in On(x) : p \in first
    BY <1>2, FirstIsThere DEF On
  <2>2. \A p \in On(x) : p.disputed => p.disp = "not-assessed"
    BY PositionsAre, ClaimsAre DEF On, Own, Claims
  <2>3. QED
    BY <1>2, <2>1, <2>2, EntryTells
<1>3. QED
  BY <1>1, <1>2

LEMMA EntryIs ==
  ASSUME CompareInv, HasLedger, NEW x \in Entries
  PROVE  LET e == ledger.entries[x] IN
         /\ On(x) = {} => e.disp = "not-assessed"
         /\ e.disp # "not-assessed" =>
              (\A p \in On(x) : ~p.disputed /\ p.disp = e.disp) /\ \E p \in On(x) : e.tokens = p.tokens
         /\ On(x) # {} => \E p \in On(x) : e.cap = p.cap
         /\ On(x) # {} => e.tokens = FirstOf(Cited(On(x))) \/ \E p \in On(x) : e.tokens = p.tokens
<1>1. reconciled # None
  BY LedgerIs
<1>2. PICK first \in SUBSET Positions : Firsts(first, Positions) /\ ledger = Built(Positions, first)
  BY LedgerIs
<1>3. ledger.entries[x] = Entry(x, On(x), first)
  BY <1>2 DEF Built, On
<1>4. QED
  BY <1>1, <1>2, <1>3, EntryStands

LEMMA EntriesAreSettled ==
  ASSUME CompareInv, HasLedger, NEW x \in Entries, ledger.entries[x].disp \in Scored
  PROVE  LET d == ledger.entries[x].disp IN
         /\ \A c \in Candidates(x) : Stands(c) = d
         /\ Candidates(x) = {} => d = "worth-borrowing" /\ x \in {SkillScore, BackupRestore}
         /\ x \notin Slice => Candidates(x) = {}
<1> DEFINE d == ledger.entries[x].disp
<1>1. d # "not-assessed" /\ reconciled # None
  BY LedgerIs DEF Scored
<1>2. On(x) # {} /\ \A p \in On(x) : ~p.disputed /\ p.disp = d
  BY <1>1, EntryIs
<1>3. ASSUME NEW q \in Normal \cup answers[Sceptic], q.id = x, q.kind # "job-coverage"
      PROVE  Stands(Candidate(q)) = d
  <2> DEFINE p == Coalesce(Spoken(Candidate(q)))
  <2>1. p \in reconciled /\ Candidate(p) = Candidate(q)
    BY <1>1, EveryoneIsHeard
  <2>2. p.id = x /\ p.kind # "job-coverage"
    BY <1>3, <2>1 DEF Candidate
  <2>3. p \in On(x)
    BY <2>1, <2>2, PositionsAre DEF Claims, On
  <2>4. QED
    BY <1>1, <1>2, <2>1, <2>3, ClaimsAre
<1>4. \A c \in Candidates(x) : Stands(c) = d
  BY <1>3 DEF Candidates
<1>5. ASSUME Candidates(x) = {}
      PROVE  d = "worth-borrowing" /\ x \in {SkillScore, BackupRestore}
  <2>1. PICK p \in On(x) : TRUE
    BY <1>2
  <2>2. p \notin Claims
    <3>1. SUFFICES ASSUME p \in Claims PROVE FALSE
      OBVIOUS
    <3>2. p \in reconciled /\ p.kind # "job-coverage" /\ p.id = x
      BY <2>1, <3>1 DEF Claims, On
    <3>3. PICK q \in Normal \cup answers[Sceptic] : Candidate(q) = Candidate(p)
      BY <1>1, <3>2, ClaimsAre
    <3>4. q.id = x /\ q.kind # "job-coverage"
      BY <3>2, <3>3 DEF Candidate
    <3>5. QED
      BY <1>5, <3>4 DEF Candidates
  <2>3. Own(p) /\ p.id = x
    BY <2>1, <2>2, PositionsAre DEF On
  <2>4. QED
    BY <1>2, <2>3 DEF Own
<1>6. ASSUME x \notin Slice
      PROVE  Candidates(x) = {}
  <2>1. \A q \in Normal \cup answers[Sceptic] : Admissible(q)
    BY WhoAnswers
  <2>2. \A q \in Normal \cup answers[Sceptic] : q.kind # "job-coverage" => q.id \in Slice
    BY <2>1 DEF Admissible, Context
  <2>3. QED
    BY <1>6, <2>2 DEF Candidates
<1>7. QED
  BY <1>4, <1>5, <1>6

Verdict(j) == {p.verdict : p \in {q \in Normal : q.kind = "job-coverage" /\ q.id = j}}

LEMMA JobsAreSettled ==
  ASSUME CompareInv, HasLedger, NEW j \in DOMAIN ledger.jobs
  PROVE  LET state == ledger.jobs[j].state IN
         /\ state \in Verdicts => Verdict(j) = {state}
         /\ state = "supported" => Verdict(j) = {}
<1> DEFINE own == {p \in reconciled : p.kind = "job-coverage" /\ p.id = j}
           c == <<"job-coverage", j, j>>
<1>1. reconciled # None /\ ledger.jobs = JobRows
  <2>1. PICK first \in SUBSET Positions : ledger = Built(Positions, first)
    BY LedgerIs
  <2>2. QED
    BY <2>1, LedgerIs DEF Built
<1>2. ledger.jobs[j] = JobRow(j)
  BY <1>1 DEF JobRows
<1>3. \A q \in Normal : q.kind = "job-coverage" =>
        Candidate(q) = <<"job-coverage", q.id, q.id>> /\ q.verdict \in Verdicts
  BY WhoAnswers DEF Admissible, JobShaped, Candidate
<1>4. Spoken(c) = Group(Normal, c) /\ Group(Normal, c) = {q \in Normal : q.kind = "job-coverage" /\ q.id = j}
  <2>1. Spoken(c) = Group(Normal, c)
    BY Jobless
  <2>2. \A q \in Normal : Candidate(q) = c <=> q.kind = "job-coverage" /\ q.id = j
    BY <1>3 DEF Candidate
  <2>3. QED
    BY <2>1, <2>2 DEF Group
<1>5. CASE own = {}
  <2>1. Verdict(j) = {}
    <3>1. SUFFICES ASSUME NEW q \in Normal, q.kind = "job-coverage", q.id = j PROVE FALSE
      BY DEF Verdict
    <3>2. Coalesce(Spoken(Candidate(q))) \in own
      BY <1>1, <3>1, EveryoneIsHeard DEF Candidate
    <3>3. QED
      BY <1>5, <3>2
  <2>2. ledger.jobs[j].state \in {"unknown", "supported"}
    BY <1>2, <1>5 DEF JobRow
  <2>3. QED
    BY <2>1, <2>2 DEF Verdicts
<1>6. CASE own # {}
  <2> DEFINE p == CHOOSE q \in own : TRUE
  <2>1. p \in own
    BY <1>6
  <2>2. ledger.jobs[j].state = IF p.disputed THEN "unknown" ELSE p.verdict
    BY <1>2, <1>6 DEF JobRow
  <2> HIDE DEF p
  <2>3. PICK q \in Spoken(Candidate(p)) : Candidate(q) = Candidate(p)
    BY <1>1, <2>1, ClaimsAre
  <2>4. q \in Normal /\ q.kind = "job-coverage" /\ q.id = j /\ Candidate(p) = c
    <3>1. q.kind = "job-coverage" /\ q.id = j /\ q \in Normal \cup answers[Sceptic]
      BY <2>1, <2>3, SpokenOfOne DEF Candidate
    <3>2. q \in Normal
      BY <3>1, Jobless
    <3>3. QED
      BY <1>3, <2>3, <3>1, <3>2
  <2>5. ~p.disputed => \A r \in Spoken(c) : r.verdict = p.verdict
    BY <1>1, <2>1, <2>4, ClaimsAre DEF SameAnswer
  <2>6. ~p.disputed => Verdict(j) = {p.verdict} /\ p.verdict \in Verdicts
    BY <1>3, <1>4, <2>3, <2>4, <2>5 DEF Verdict
  <2>7. QED
    BY <2>2, <2>6 DEF Verdicts
<1>7. QED
  BY <1>5, <1>6

LEMMA SettledAreThey == CompareInv => PositionsAreSettled
BY EntriesAreSettled, JobsAreSettled DEF PositionsAreSettled, Verdict
---------------------------------------------------------------------------
(* Moves. *)

Below == {ss \in Nat \X Nat : ss[1] < ss[2]}

LEMMA BelowIsWellFounded == IsWellFoundedOn(Below, Nat)
BY NatLessThanWellFounded, Zenon DEF OpToRel, Below

LEMMA LeastIsThere ==
  ASSUME NEW S \in SUBSET Nat, S # {}
  PROVE  Min(S) \in S /\ \A n \in S : Min(S) <= n
<1>1. PICK least \in S : \A n \in S : <<n, least>> \notin Below
  BY BelowIsWellFounded, WFMin
<1>2. ASSUME NEW n \in S
      PROVE  least <= n
  <2>1. <<n, least>> \in Nat \X Nat /\ <<n, least>>[1] = n /\ <<n, least>>[2] = least
    OBVIOUS
  <2>2. ~(n < least)
    BY <1>1, <2>1 DEF Below
  <2>3. QED
    BY <2>2
<1>3. QED
  BY <1>2 DEF Min

LEMMA ShapedAnswers ==
  ASSUME CompareInv, NEW p \in Normal \cup answers[Sceptic]
  PROVE  p.factors \in Nat \cup {None} /\ p.disp # "disputed" /\ (IsRecommendation(p) <=> p.factors # None)
<1>1. p \in (UNION {Offers[r] : r \in Roles}) \cup Views /\ Admissible(p)
  BY WhoAnswers
<1>2. QED
  BY <1>1, ProposalsAreShaped DEF Admissible, WellFormed

LEMMA MoveIs ==
  ASSUME CompareInv, HasLedger, NEW m \in ledger.moves
  PROVE  /\ m.id \in Entries /\ ledger.entries[m.id].disp = "worth-borrowing"
         /\ m.cap = ledger.entries[m.id].cap
         /\ m.factors = Min(FactorsOf({p \in Positions : p.id = m.id /\ p.cap = m.cap}))
         /\ FactorsOf({p \in Positions : p.id = m.id /\ p.cap = m.cap}) # {}
<1>1. PICK first \in SUBSET Positions : ledger = Built(Positions, first)
  BY LedgerIs
<1>2. ledger.moves = Moves(ledger.entries, Positions)
  BY <1>1 DEF Built
<1>3. PICK x \in Entries :
        LET about == {p \in Positions : p.id = x /\ p.cap = ledger.entries[x].cap} IN
        /\ ledger.entries[x].disp = "worth-borrowing" /\ FactorsOf(about) # {}
        /\ m = [id |-> x, cap |-> ledger.entries[x].cap, tokens |-> ledger.entries[x].tokens,
                factors |-> Min(FactorsOf(about))]
  BY <1>2 DEF Moves
<1>4. m.id = x /\ m.cap = ledger.entries[x].cap
  BY <1>3
<1>5. QED
  BY <1>3, <1>4

LEMMA MovesAreProposed == CompareInv => MovesAreRankedAsProposed
<1> SUFFICES ASSUME CompareInv, HasLedger, NEW m \in ledger.moves
             PROVE  /\ m.id \in Active[1] /\ ledger.entries[m.id].disp = "worth-borrowing"
                    /\ \/ \E p \in Normal : p.id = m.id /\ p.cap = m.cap /\ p.factors = m.factors
                       \/ m.id \in {SkillScore, BackupRestore} /\ m.factors = EngineFactors
                    /\ \A p \in answers[Sceptic] :
                         p.id = m.id /\ p.cap = m.cap /\ p.disp = "worth-borrowing" => m.factors <= p.factors
  BY DEF MovesAreRankedAsProposed
<1> DEFINE x == m.id
           about == {p \in Positions : p.id = m.id /\ p.cap = m.cap}
<1>1. /\ x \in Entries /\ ledger.entries[x].disp = "worth-borrowing"
      /\ m.factors = Min(FactorsOf(about)) /\ FactorsOf(about) # {} /\ reconciled # None
  BY MoveIs, LedgerIs
<1>2. x \in Active[1]
  BY <1>1, LedgerIs DEF Keeps, LawfulLedger, SignedTruth, Recommended
<1>3. ASSUME NEW p \in reconciled, p.factors # None
      PROVE  \E q \in Spoken(Candidate(p)) : Candidate(q) = Candidate(p) /\ q \in Normal \cup answers[Sceptic]
                                             /\ q.factors = p.factors
  <2>1. PICK q \in Spoken(Candidate(p)) : Candidate(q) = Candidate(p) /\ q \in Normal \cup answers[Sceptic]
    BY <1>1, ClaimsAre
  <2>2. QED
    BY <1>1, <1>3, <2>1, ClaimsAre DEF SameAnswer
<1>4. FactorsOf(about) \subseteq Nat
  <2>1. SUFFICES ASSUME NEW p \in Positions, p.factors # None PROVE p.factors \in Nat
    BY DEF FactorsOf
  <2>2. CASE p \in Claims
    BY <1>3, <2>1, <2>2, ShapedAnswers DEF Claims
  <2>3. CASE Own(p)
    BY <2>3, ProposalsAreShaped DEF Own
  <2>4. QED
    BY <2>2, <2>3, PositionsAre
<1>5. m.factors \in FactorsOf(about) /\ \A n \in FactorsOf(about) : m.factors <= n
  BY <1>1, <1>4, LeastIsThere
<1>6. \/ \E p \in Normal : p.id = m.id /\ p.cap = m.cap /\ p.factors = m.factors
      \/ m.id \in {SkillScore, BackupRestore} /\ m.factors = EngineFactors
  <2>1. PICK p \in about : p.factors = m.factors /\ p.factors # None
    BY <1>5 DEF FactorsOf
  <2>2. CASE Own(p)
    BY <2>1, <2>2 DEF Own
  <2>3. CASE p \in Claims
    <3>1. PICK q \in Normal \cup answers[Sceptic] : Candidate(q) = Candidate(p) /\ q.factors = p.factors
      BY <1>3, <2>1, <2>3 DEF Claims
    <3>2. q.id = m.id /\ q.cap = m.cap /\ q.factors = m.factors
      BY <2>1, <3>1 DEF Candidate
    <3>3. CASE q \in answers[Sceptic]
      <4>1. IsRecommendation(q)
        BY <2>1, <3>1, ShapedAnswers
      <4>2. PICK b \in Baselines : KeepsOrLowers(q, b)
        BY <3>3, WhoAnswers
      <4>3. q.factors \in FactorsOf(Group(Normal, Candidate(b))) /\ Candidate(q) = Candidate(b)
        BY <4>1, <4>2 DEF KeepsOrLowers
      <4>4. PICK r \in Normal : Candidate(r) = Candidate(q) /\ r.factors = q.factors
        BY <4>3 DEF FactorsOf, Group
      <4>5. QED
        BY <3>2, <4>4 DEF Candidate
    <3>4. QED
      BY <3>1, <3>2, <3>3
  <2>4. QED
    BY <2>1, <2>2, <2>3, PositionsAre
<1>7. ASSUME NEW v \in answers[Sceptic], v.id = m.id, v.cap = m.cap, v.disp = "worth-borrowing"
      PROVE  m.factors <= v.factors
  <2> DEFINE p == Coalesce(Spoken(Candidate(v)))
  <2>1. p \in reconciled /\ Candidate(p) = Candidate(v)
    BY <1>1, EveryoneIsHeard
  <2>2. p.id = m.id /\ p.cap = m.cap /\ p.kind # "job-coverage"
    BY <1>7, <2>1, Jobless DEF Candidate
  <2>3. p \in Positions
    BY <2>1, <2>2, PositionsAre DEF Claims
  <2>4. ~p.disputed
    BY <1>1, <2>2, <2>3, EntryIs DEF On
  <2>5. v \in Spoken(Candidate(v))
    BY DEF Spoken, Group
  <2>6. p.factors = v.factors
    BY <1>1, <2>1, <2>4, <2>5, ClaimsAre DEF SameAnswer
  <2>7. v.factors # None
    BY <1>7, ShapedAnswers DEF IsRecommendation
  <2>8. v.factors \in FactorsOf(about)
    BY <2>2, <2>3, <2>6, <2>7 DEF FactorsOf
  <2>9. QED
    BY <1>5, <2>8
<1>8. QED
  BY <1>1, <1>2, <1>6, <1>7
---------------------------------------------------------------------------
(* Evidence. *)

LEMMA FirstIsSome == ASSUME NEW S \in SUBSET Nat, S # {} PROVE FirstOf(S) # {} /\ FirstOf(S) \subseteq S
<1>1. PICK m \in S : \A n \in S : m <= n
  BY LeastIsThere
<1>2. {s \in S : s < m} = {}
  <2>1. \A s \in S : s \in Nat /\ m \in Nat /\ m <= s
    BY <1>1
  <2>2. \A s \in S : ~(s < m)
    BY <2>1
  <2>3. QED
    BY <2>2
<1>3. Cardinality({s \in S : s < m}) = 0 /\ MaxTokens \in Nat /\ MaxTokens # 0
  BY <1>2, FS_EmptySet, ProposalsAreShaped
<1>4. Cardinality({s \in S : s < m}) < MaxTokens
  BY <1>3
<1>5. QED
  BY <1>4 DEF FirstOf

LEMMA TokensAreNumbers == CompareInv => Tokens(fingerprint) \subseteq Nat
BY ProposalsAreShaped DEF CompareInv, GivenInv, Tokens

LEMMA AnswersAreEvidenced ==
  ASSUME CompareInv, NEW q \in Normal \cup answers[Sceptic]
  PROVE  q.tokens # {} /\ q.tokens \subseteq Tokens(fingerprint)
<1>1. Admissible(q)
  BY WhoAnswers
<1>2. q.tokens # {} /\ q.tokens \subseteq Context.tokens
  BY <1>1 DEF Admissible, WellFormed
<1>3. Context.tokens = Tokens(fingerprint)
  BY DEF Context
<1>4. QED
  BY <1>2, <1>3

LEMMA ReconciledAreEvidenced ==
  ASSUME CompareInv, reconciled # None, NEW p \in reconciled
  PROVE  p.tokens # {} /\ p.tokens \subseteq Tokens(fingerprint)
<1> DEFINE g == Spoken(Candidate(p))
<1>1. g # {} /\ p = Coalesce(g)
  BY ClaimsAre
<1>2. \A q \in g : q.tokens # {} /\ q.tokens \subseteq Tokens(fingerprint)
  BY AnswersAreEvidenced, SpokenOfOne
<1>3. Cited(g) # {} /\ Cited(g) \subseteq Tokens(fingerprint)
  BY <1>1, <1>2 DEF Cited
<1>4. p.tokens = FirstOf(Cited(g))
  BY <1>1 DEF Coalesce
<1>5. QED
  BY <1>3, <1>4, TokensAreNumbers, FirstIsSome

LEMMA PositionsAreEvidenced ==
  ASSUME CompareInv, reconciled # None, NEW p \in Positions
  PROVE  p.tokens # {} /\ p.tokens \subseteq Tokens(fingerprint)
<1>1. CASE p \in Claims
  BY <1>1, ReconciledAreEvidenced DEF Claims
<1>2. CASE Own(p)
  <2>1. PICK S \in SUBSET Tokens(fingerprint) : S # {} /\ p.tokens = FirstOf(S)
    BY <1>2 DEF Own
  <2>2. QED
    BY <2>1, TokensAreNumbers, FirstIsSome
<1>3. QED
  BY <1>1, <1>2, PositionsAre

LEMMA EvidenceStands ==
  ASSUME CompareInv, reconciled # None, NEW first, Firsts(first, Positions), NEW x, On(x) # {}
  PROVE  Entry(x, On(x), first).tokens # {}
<1>1. \A p \in On(x) : p.tokens # {} /\ p.tokens \subseteq Tokens(fingerprint)
  BY PositionsAreEvidenced DEF On
<1>2. Cited(On(x)) # {} /\ Cited(On(x)) \subseteq Nat
  BY <1>1, TokensAreNumbers DEF Cited
<1>3. FirstOf(Cited(On(x))) # {}
  BY <1>2, FirstIsSome
<1>4. QED
  BY <1>1, <1>3, EntryStands

LEMMA EntriesAreEvidenced ==
  ASSUME CompareInv, HasLedger, NEW x \in Entries, On(x) # {}
  PROVE  ledger.entries[x].tokens # {}
<1>1. PICK first \in SUBSET Positions : Firsts(first, Positions) /\ ledger = Built(Positions, first)
  BY LedgerIs
<1>2. ledger.entries[x] = Entry(x, On(x), first)
  BY <1>1 DEF Built, On
<1>3. QED
  BY <1>1, <1>2, LedgerIs, EvidenceStands

(* A selection names families where Dex is installed, and jobs where it is not. *)
LEMMA SelectionIs ==
  ASSUME CompareInv, selection # None
  PROVE  selection \subseteq IF IsNonLineage(fingerprint) THEN Jobs ELSE Families
<1>1. selection \subseteq Axis(Map)
  BY DEF CompareInv, GivenInv, Selectable
<1>2. /\ Map.nonLineage <=> IsNonLineage(fingerprint)
      /\ DOMAIN Map.rows = Families
      /\ IsNonLineage(fingerprint) => DOMAIN Map.jobs = Jobs
  BY DEF Map, EarlyMap
<1>3. QED
  BY <1>1, <1>2 DEF Axis

(* Where Dex is installed every member of what was selected was spoken of.    *)
LEMMA SelectedAreSpokenOf ==
  ASSUME CompareInv, HasLedger, selection # None, ~IsNonLineage(fingerprint),
         NEW f \in selection, NEW x \in Members[f]
  PROVE  x \in Entries /\ On(x) # {}
<1>1. f \in Families /\ x \in Slice /\ x \in Entries
  BY SelectionIs, CatalogueIsLawful DEF Slice, ReferencesAreClosed
<1>2. PICK p \in reconciled : p.id = x
  BY <1>1, LedgerIs DEF Covers, AllSelected
<1>3. reconciled # None
  BY LedgerIs
<1>4. PICK q \in Normal \cup answers[Sceptic] : Candidate(q) = Candidate(p) /\ Admissible(q)
  BY <1>3, ClaimsAre, WhoAnswers
<1>5. q.kind # "job-coverage"
  BY <1>4 DEF Admissible, Context, JobsInScope
<1>6. p \in Claims
  BY <1>4, <1>5 DEF Claims, Candidate
<1>7. QED
  BY <1>1, <1>2, <1>6, PositionsAre DEF On
---------------------------------------------------------------------------
(* What was accepted can be compared. *)

LEMMA ImageIsSmall ==
  ASSUME NEW S, IsFiniteSet(S), NEW f, IsOver(f, S)
  PROVE  IsFiniteSet({f[s] : s \in S}) /\ Cardinality({f[s] : s \in S}) <= Cardinality(S)
<1>1. f \in Surjection(S, {f[s] : s \in S})
  BY DEF Surjection, IsOver
<1>2. QED
  BY <1>1, FS_Surjection

RecommendedOf(ps) == {p \in ps : IsRecommendation(p)}
CandidatesOf(ps) == {Candidate(p) : p \in ps}

LEMMA NormalIsFinite == CompareInv => IsFiniteSet(Normal)
<1> SUFFICES ASSUME CompareInv PROVE IsFiniteSet(Normal)
  OBVIOUS
<1> DEFINE f == [r \in Roles |-> answers[r]]
<1>1. IsFiniteSet({f[r] : r \in Roles})
  BY RolesAreTold, ImageIsSmall DEF IsOver
<1>2. \A r \in Roles : IsFiniteSet(answers[r])
  <2>1. \A r \in Roles : answers[r] \subseteq Offers[r] /\ IsFiniteSet(Offers[r])
    BY ProposalsAreShaped DEF CompareInv, AnswerInv, Accepting
  <2>2. QED
    BY <2>1, FS_Subset
<1>3. Normal = UNION {f[r] : r \in Roles}
  BY DEF Normal
<1>4. \A T \in {f[r] : r \in Roles} : IsFiniteSet(T)
  BY <1>2
<1> HIDE DEF f
<1>5. QED
  BY <1>1, <1>3, <1>4, FS_UNION

(* A claim that recommends was recommended by one of the normal packets. *)
LEMMA WhoRecommends ==
  ASSUME CompareInv, reconciled # None, NEW p \in reconciled, IsRecommendation(p)
  PROVE  Candidate(p) \in CandidatesOf(RecommendedOf(Normal))
<1>1. PICK q \in Normal \cup answers[Sceptic] :
        /\ Candidate(q) = Candidate(p)
        /\ p.kind = "recommendation" \/ q.disp = "worth-borrowing"
  BY ClaimsAre DEF IsRecommendation, SameAnswer
<1>2. IsRecommendation(q)
  BY <1>1 DEF IsRecommendation, Candidate
<1>3. CASE q \in Normal
  BY <1>1, <1>2, <1>3 DEF CandidatesOf, RecommendedOf
<1>4. CASE q \in answers[Sceptic]
  <2>1. PICK b \in Baselines : KeepsOrLowers(q, b)
    BY <1>4, WhoAnswers
  <2>2. q.factors \in FactorsOf(Group(Normal, Candidate(b))) /\ Candidate(q) = Candidate(b)
    BY <1>2, <2>1 DEF KeepsOrLowers
  <2>3. PICK r \in Normal : Candidate(r) = Candidate(q) /\ r.factors = q.factors /\ r.factors # None
    BY <2>2 DEF FactorsOf, Group
  <2>4. IsRecommendation(r)
    BY <2>3, ShapedAnswers
  <2>5. QED
    BY <1>1, <2>3, <2>4 DEF CandidatesOf, RecommendedOf
<1>5. QED
  BY <1>3, <1>4

LEMMA ClaimsAreFew ==
  ASSUME CompareInv, reconciled # None
  PROVE  IsFiniteSet(RecommendedOf(Claims)) /\ Cardinality(RecommendedOf(Claims)) <= MaxRecommendations
<1> DEFINE S == RecommendedOf(Claims)
           T == CandidatesOf(RecommendedOf(Normal))
           f == [p \in S |-> Candidate(p)]
           g == [p \in RecommendedOf(Normal) |-> Candidate(p)]
<1>1. IsFiniteSet(T)
  <2>1. IsFiniteSet(RecommendedOf(Normal))
    BY NormalIsFinite, FS_Subset DEF RecommendedOf
  <2>2. T = {g[p] : p \in RecommendedOf(Normal)} /\ IsOver(g, RecommendedOf(Normal))
    BY DEF CandidatesOf, IsOver
  <2> HIDE DEF g, T
  <2>3. QED
    BY <2>1, <2>2, ImageIsSmall
<1>2. Cardinality(T) <= MaxRecommendations
  BY DEF CompareInv, AnswerInv, CandidatesOf, RecommendedOf
<1>3. f \in Injection(S, T)
  <2>1. \A p \in S : p \in reconciled /\ IsRecommendation(p)
    BY DEF RecommendedOf, Claims
  <2>2. \A p \in S : Candidate(p) \in T
    BY <2>1, WhoRecommends
  <2>3. \A p \in S : p = Coalesce(Spoken(Candidate(p)))
    BY <2>1, ClaimsAre
  <2>4. f \in [S -> T]
    BY <2>2
  <2>5. \A p, q \in S : f[p] = f[q] => p = q
    BY <2>3
  <2>6. QED
    BY <2>4, <2>5 DEF Injection, IsInjective
<1>4. IsFiniteSet(S) /\ Cardinality(S) <= Cardinality(T)
  BY <1>1, <1>3, FS_Injection
<1>5. Cardinality(S) \in Nat /\ Cardinality(T) \in Nat /\ MaxRecommendations \in Nat
  BY <1>1, <1>4, FS_CardinalityType, ProposalsAreShaped
<1>6. QED
  BY <1>2, <1>4, <1>5

LEMMA PositionsAreFew ==
  ASSUME CompareInv, reconciled # None, ~AutomaticFires(WithSkillCopies(Claims))
  PROVE  IsFiniteSet(RecommendedOf(Positions)) /\ Cardinality(RecommendedOf(Positions)) <= MaxRecommendations
<1>1. Positions = WithSkillCopies(Claims)
  BY DEF Positions, WithAutomatic
<1>2. CASE Positions = Claims
  BY <1>2, ClaimsAreFew
<1>3. ASSUME NEW e, Positions = Claims \cup {e}, HasRoom(Claims)
      PROVE  IsFiniteSet(RecommendedOf(Positions)) /\ Cardinality(RecommendedOf(Positions)) <= MaxRecommendations
  <2>1. /\ IsFiniteSet(RecommendedOf(Claims)) /\ Cardinality(RecommendedOf(Claims)) < MaxRecommendations
        /\ Cardinality(RecommendedOf(Claims)) \in Nat /\ MaxRecommendations \in Nat
    BY <1>3, ClaimsAreFew, FS_CardinalityType, ProposalsAreShaped DEF HasRoom, RecommendedOf
  <2>2. RecommendedOf(Positions) \subseteq RecommendedOf(Claims) \cup {e}
    BY <1>3 DEF RecommendedOf
  <2>3. /\ IsFiniteSet(RecommendedOf(Claims) \cup {e})
        /\ Cardinality(RecommendedOf(Claims) \cup {e}) <= MaxRecommendations
        /\ Cardinality(RecommendedOf(Claims) \cup {e}) \in Nat
    BY <2>1, FS_AddElement
  <2>4. /\ IsFiniteSet(RecommendedOf(Positions))
        /\ Cardinality(RecommendedOf(Positions)) <= Cardinality(RecommendedOf(Claims) \cup {e})
        /\ Cardinality(RecommendedOf(Positions)) \in Nat
    BY <2>2, <2>3, FS_Subset, FS_CardinalityType
  <2>5. QED
    BY <2>1, <2>3, <2>4
<1>4. QED
  BY <1>1, <1>2, <1>3 DEF WithSkillCopies

(* Entry by entry, a ledger keeps its rules. *)
LEMMA PositionsAreAboutEntries ==
  ASSUME CompareInv, reconciled # None, NEW p \in Positions
  PROVE  /\ p.id \in Entries
         /\ p.disp = "worth-borrowing" => IsRecommendation(p) /\ p.id \in Active[1]
<1>1. CASE Own(p)
  BY <1>1 DEF Own, IsRecommendation
<1>2. CASE p \in Claims
  <2>1. p \in reconciled /\ p.kind # "job-coverage"
    BY <1>2 DEF Claims
  <2>2. PICK q \in Normal \cup answers[Sceptic] :
          /\ Candidate(q) = Candidate(p) /\ Admissible(q)
          /\ p.disp = "worth-borrowing" => q.disp = "worth-borrowing"
    BY <2>1, ClaimsAre, WhoAnswers DEF SameAnswer
  <2>3. q.id = p.id /\ q.kind # "job-coverage"
    BY <2>1, <2>2 DEF Candidate
  <2>4. p.id \in Slice
    BY <2>2, <2>3 DEF Admissible, Context
  <2>5. Slice \subseteq Entries
    <3>1. CASE selection = None
      BY <3>1 DEF Slice
    <3>2. CASE selection # None /\ IsNonLineage(fingerprint)
      BY <3>2, SelectionIs, RolesAreTold DEF Slice
    <3>3. CASE selection # None /\ ~IsNonLineage(fingerprint)
      BY <3>3, SelectionIs, CatalogueIsLawful DEF Slice, ReferencesAreClosed
    <3>4. QED
      BY <3>1, <3>2, <3>3
  <2>6. p.disp = "worth-borrowing" => p.id \in Active[1]
    BY <2>2, <2>3, <2>4 DEF Admissible, Context, HeldBack, IsRecommendation
  <2>7. QED
    BY <2>4, <2>5, <2>6 DEF IsRecommendation
<1>3. QED
  BY <1>1, <1>2, PositionsAre

LEMMA RecommendedAreFew ==
  ASSUME CompareInv, reconciled # None, ~AutomaticFires(WithSkillCopies(Claims)),
         NEW first, Firsts(first, Positions)
  PROVE  LET l == Built(Positions, first) IN
         Recommended(l) \subseteq Active[1] /\ Cardinality(Recommended(l)) <= MaxRecommendations
<1> DEFINE l == Built(Positions, first)
           f == [p \in RecommendedOf(Positions) |-> p.id]
           ids == {f[p] : p \in RecommendedOf(Positions)}
<1>1. \A x \in Entries : l.entries[x] = Entry(x, On(x), first)
  BY DEF Built, On
<1>2. ASSUME NEW x \in Recommended(l)
      PROVE  x \in Active[1] /\ x \in ids
  <2>1. x \in Entries /\ l.entries[x].disp = "worth-borrowing"
    BY <1>2 DEF Recommended
  <2>2. PICK p \in On(x) : p.disp = "worth-borrowing"
    BY <1>1, <2>1, EntryStands
  <2>3. p \in Positions /\ p.id = x
    BY <2>2 DEF On
  <2>4. IsRecommendation(p) /\ x \in Active[1]
    BY <2>2, <2>3, PositionsAreAboutEntries
  <2>5. QED
    BY <2>3, <2>4 DEF RecommendedOf
<1>3. /\ IsFiniteSet(RecommendedOf(Positions)) /\ Cardinality(RecommendedOf(Positions)) <= MaxRecommendations
      /\ Cardinality(RecommendedOf(Positions)) \in Nat /\ MaxRecommendations \in Nat
  BY PositionsAreFew, FS_CardinalityType, ProposalsAreShaped
<1>4. IsOver(f, RecommendedOf(Positions))
  BY DEF IsOver
<1> HIDE DEF f
<1>5. IsFiniteSet(ids) /\ Cardinality(ids) <= Cardinality(RecommendedOf(Positions)) /\ Cardinality(ids) \in Nat
  BY <1>3, <1>4, ImageIsSmall, FS_CardinalityType
<1>6. Recommended(l) \subseteq ids /\ Recommended(l) \subseteq Active[1]
  BY <1>2
<1> HIDE DEF ids, l
<1>7. IsFiniteSet(Recommended(l)) /\ Cardinality(Recommended(l)) <= Cardinality(ids)
      /\ Cardinality(Recommended(l)) \in Nat
  BY <1>5, <1>6, FS_Subset, FS_CardinalityType
<1>8. QED
  BY <1>3, <1>5, <1>6, <1>7 DEF l

(* The release that is installed, and how far behind it is. *)
LEMMA DistanceIsLawful ==
  ASSUME NEW fp, VersionDistance(fp) # None
  PROVE  LET d == VersionDistance(fp) IN
         /\ LawfulDistance(d) /\ ReleaseRecords(fp) # {}
         /\ d.families = Deltas(d.inspected) /\ d.newer = NewerReleases(d.inspected)
<1> DEFINE inspected == ObservedRelease(fp)
           d == VersionDistance(fp)
<1>1. /\ inspected # None /\ Deltas(inspected) # {}
      /\ d = [inspected |-> inspected, proof |-> LineageProof(fp), families |-> Deltas(inspected),
              newer |-> NewerReleases(inspected)]
  BY DEF VersionDistance
<1>2. ReleaseRecords(fp) # {}
  <2>1. Cardinality(ReleaseIds(fp)) = 1
    BY <1>1 DEF ObservedRelease
  <2>2. ReleaseIds(fp) # {}
    BY <2>1, FS_EmptySet
  <2>3. QED
    BY <2>2 DEF ReleaseIds
<1>3. LineageProof(fp) # {}
  BY <1>1, <1>2 DEF LineageProof
<1>4. NewerReleases(inspected) # {}
  <2>1. PICK f \in Families : \E e \in Introduced(f, inspected) \cup Changed(f, inspected) : TRUE
    BY <1>1 DEF Deltas
  <2>2. PICK e \in Skills : ChangedAfter(Since[e], inspected) \/ \E r \in ChangedIn[e] : ChangedAfter(r, inspected)
    BY <2>1 DEF Introduced, Changed
  <2>3. QED
    BY <2>2 DEF NewerReleases
<1>5. Deltas(inspected) \subseteq Families
  BY DEF Deltas
<1> HIDE DEF inspected
<1>6. QED
  BY <1>1, <1>2, <1>3, <1>4, <1>5 DEF LawfulDistance

LEMMA JobsAreEvidenced ==
  ASSUME CompareInv, reconciled # None, NEW j, JobRow(j).state # "unknown"
  PROVE  JobRow(j).tokens # {}
<1> DEFINE own == {p \in reconciled : p.kind = "job-coverage" /\ p.id = j}
<1>1. CASE own = {}
  BY <1>1 DEF JobRow
<1>2. CASE own # {}
  <2>1. PICK p \in own : JobRow(j).tokens = p.tokens
    BY <1>2 DEF JobRow
  <2>2. QED
    BY <2>1, ReconciledAreEvidenced
<1>3. QED
  BY <1>1, <1>2

LEMMA BuiltIsLawful ==
  ASSUME CompareInv, reconciled # None, ~AutomaticFires(WithSkillCopies(Claims)),
         NEW first, Firsts(first, Positions)
  PROVE  LawfulLedger(Built(Positions, first))
<1> DEFINE l == Built(Positions, first)
<1>1. /\ \A x \in Entries : l.entries[x] = Entry(x, On(x), first)
      /\ DOMAIN l.entries = Entries /\ l.jobs = JobRows
      /\ l.moves = Moves(l.entries, Positions) /\ l.distance = VersionDistance(fingerprint)
  BY DEF Built, On
<1>2. Recommended(l) \subseteq Active[1] /\ Cardinality(Recommended(l)) <= MaxRecommendations
  BY RecommendedAreFew
<1> HIDE DEF l
<1>3. DOMAIN l.jobs \in {{}, Jobs} /\ (DOMAIN l.jobs # {} => ReleaseRecords(fingerprint) = {})
  BY <1>1 DEF JobRows, IsNonLineage
<1>4. /\ l.distance # None => /\ LawfulDistance(l.distance) /\ ReleaseRecords(fingerprint) # {}
                              /\ l.distance.families = Deltas(l.distance.inspected)
                              /\ l.distance.newer = NewerReleases(l.distance.inspected)
  BY <1>1, DistanceIsLawful
<1>5. /\ l.moves # {} => {m.id : m \in l.moves} = Recommended(l)
      /\ \A m \in l.moves : m.cap = l.entries[m.id].cap /\ m.tokens = l.entries[m.id].tokens
  <2> DEFINE about(x) == {p \in Positions : p.id = x /\ p.cap = l.entries[x].cap}
             move(x) == [id |-> x, cap |-> l.entries[x].cap, tokens |-> l.entries[x].tokens,
                         factors |-> Min(FactorsOf(about(x)))]
  <2>1. l.moves = {} \/ l.moves = {move(x) : x \in Recommended(l)}
    BY <1>1 DEF Moves, Recommended
  <2>2. \A x : move(x).id = x /\ move(x).cap = l.entries[x].cap /\ move(x).tokens = l.entries[x].tokens
    OBVIOUS
  <2> HIDE DEF move
  <2>3. QED
    BY <2>1, <2>2
<1>6. Evidenced(l)
  <2>1. ASSUME NEW x \in Entries
        PROVE  /\ l.entries[x].disp \in Scored => l.entries[x].tokens # {}
               /\ l.entries[x].disp \in MethodBound => l.entries[x].method
    <3>1. l.entries[x].disp \in Scored => On(x) # {}
      BY <1>1, EntryStands DEF Scored
    <3>2. QED
      BY <1>1, <3>1, EntryStands, EvidenceStands
  <2>2. \A j \in DOMAIN l.jobs : l.jobs[j].state # "unknown" => l.jobs[j].tokens # {}
    BY <1>1, JobsAreEvidenced DEF JobRows
  <2>3. QED
    BY <2>1, <2>2 DEF Evidenced
<1>7. SelfConsistent(l) /\ SignedTruth(l)
  BY <1>1, <1>2, <1>3, <1>4, <1>5 DEF SelfConsistent, SignedTruth
<1>8. QED
  BY <1>6, <1>7 DEF LawfulLedger, l

LEMMA BuiltIsBound ==
  ASSUME CompareInv, reconciled # None, NEW first
  PROVE  BoundToFolders(Built(Positions, first))
<1> DEFINE l == Built(Positions, first)
<1>1. /\ l.local = LocalRows(Positions) /\ l.families = FamilyRows
      /\ l.unique = AuthoredTokens(fingerprint)
  BY DEF Built
<1> HIDE DEF l
<1>2. DOMAIN l.local = fingerprint /\ \A o \in fingerprint : l.local[o] = LocalRow(o, Positions)
  BY <1>1 DEF LocalRows
<1>3. l.unique \subseteq Tokens(DOMAIN l.local)
  BY <1>1, <1>2 DEF AuthoredTokens, Tokens
<1>4. ASSUME NEW o \in fingerprint
      PROVE  LawfulLocal(l.local[o]) /\ l.local[o].mapped \subseteq Entries
  <2> DEFINE group == {p \in Positions : o.token \in p.tokens}
  <2>1. LocalRow(o, Positions).mapped = {p.id : p \in group} /\ l.local[o] = LocalRow(o, Positions)
    BY <1>2 DEF LocalRow
  <2>2. l.local[o].tokens # {}
    <3>1. LocalRow(o, Positions).tokens = IF group = {} THEN {o.token} ELSE Cited(group)
      BY DEF LocalRow
    <3>2. group # {} => Cited(group) # {}
      BY DEF Cited
    <3>3. QED
      BY <2>1, <3>1, <3>2
  <2>3. QED
    BY <2>1, <2>2, PositionsAreAboutEntries DEF LawfulLocal
<1>5. ASSUME NEW f \in Families
      PROVE  LET row == l.families[f]
             IN /\ LawfulMatches(row) /\ row.recommendable = Members[f] \cap Active[1]
                /\ DOMAIN row.matched \cup row.unresolved = Components[f]
                /\ DOMAIN row.matched \cap row.unresolved = {}
                /\ row.tokens = UNION {row.matched[c] : c \in DOMAIN row.matched}
  <2> DEFINE row == l.families[f]
  <2>1. /\ DOMAIN row.matched = Matched(f, fingerprint)
        /\ \A c \in Matched(f, fingerprint) :
             row.matched[c] = {o.token : o \in MatchesOf(c, Profile[f], fingerprint)}
        /\ row.unresolved = Components[f] \ Matched(f, fingerprint)
        /\ row.recommendable = Members[f] \cap Active[1]
        /\ row.tokens = FamilyEvidence(f, fingerprint)
    BY <1>1 DEF FamilyRows, FamilyRow
  <2> HIDE DEF row
  <2>2. LawfulMatches(row) /\ Matched(f, fingerprint) \subseteq Components[f]
    BY <2>1, MatchesAreSeen DEF LawfulMatches
  <2>3. row.tokens = UNION {row.matched[c] : c \in DOMAIN row.matched}
    BY <2>1 DEF FamilyEvidence
  <2>4. QED
    BY <2>1, <2>2, <2>3 DEF row
<1>6. SignedFamilies(l)
  BY <1>1, <1>5 DEF SignedFamilies, FamilyRows
<1>7. QED
  BY <1>1, <1>2, <1>3, <1>4, <1>6 DEF BoundToFolders, l

LEMMA AcceptedIsCompared == CompareInv => AcceptedAnswersCompare
<1> SUFFICES ASSUME CompareInv, ledger = Refused, ~AutomaticFires(WithSkillCopies(Claims)) PROVE FALSE
  BY DEF AcceptedAnswersCompare
<1>1. ledger # None
  BY ProposalsAreShaped
<1>2. reconciled # None
  BY <1>1 DEF CompareInv, LedgerInv
<1>3. PICK first \in SUBSET Positions :
        /\ Firsts(first, Positions)
        /\ ledger = IF Keeps(Positions, Built(Positions, first)) THEN Built(Positions, first)
                    ELSE Refused
  BY <1>1 DEF CompareInv, LedgerInv
<1>4. Built(Positions, first) # Refused
  <2>1. "entries" \in DOMAIN Built(Positions, first) /\ "entries" \notin DOMAIN Refused
    BY DEF Built, Refused
  <2>2. QED
    BY <2>1
<1>5. \A p \in Positions : LawfulPosition(p)
  <2>1. \A p \in Claims : p.packet /\ p.named
    BY <1>2, ClaimsAre, SpokenTells DEF Claims
  <2>2. QED
    BY <2>1, PositionsAre DEF Own, LawfulPosition
<1>6. CitesOnlyWhatWasSeen(Positions)
  BY <1>2, PositionsAreEvidenced DEF CitesOnlyWhatWasSeen, Cited
<1>7. QED
  BY <1>2, <1>3, <1>4, <1>5, <1>6, BuiltIsLawful, BuiltIsBound DEF Keeps

---------------------------------------------------------------------------
(* Filing.                                                                  *)

Parts == {"md", "ledger", "result"}
Steps == {"md", "ledger", "result", "undo-ledger", "undo-result", "undo-both"}

(* What is on disk is there part by part, and what is being written goes to a *)
(* path.                                                                      *)
Filed ==
  /\ IsOver(disk, Paths) /\ \A p \in Paths : IsOver(disk[p], Parts)
  /\ saving # Idle =>
       /\ saving = [path |-> saving.path, md |-> saving.md, ledger |-> saving.ledger,
                    next |-> saving.next]
       /\ saving.path \in Paths /\ saving.next \in Steps
       /\ saving.md \notin {Absent, Torn} /\ saving.ledger # Absent
       /\ ~Altered(saving.path) => saving.ledger # Torn /\ saving.md.digest = Payload(saving.ledger)

(* How far a save has come says what its path holds.                          *)
Saving ==
  saving # Idle =>
    LET d == disk[saving.path]
    IN /\ saving.next = "md" => d.md = Absent
       /\ saving.next = "undo-both" => d.md = Absent
       /\ saving.next = "undo-ledger" => d.ledger = Torn
       /\ saving.next \in {"result", "undo-result"} => d.ledger = saving.ledger
       /\ saving.next \in {"ledger", "undo-ledger", "result", "undo-result"} => d.md = saving.md
       /\ saving.next \in {"result", "undo-result", "undo-both"} => saving.path[1] = EngineLabel

(* The engine only ever files this run.                                       *)
OfThisRun(md) == HasLedger /\ md.digest = Payload(Typed) /\ md.coverage = Coverage(Typed)
LedgerOfThisRun(d) == HasLedger /\ d = Payload(Typed)

EngineFiles ==
  /\ \A p \in Paths : p[1] = EngineLabel =>
       /\ Readable(p, "md") => OfThisRun(disk[p].md)
       /\ Readable(p, "ledger") => LedgerOfThisRun(disk[p].ledger)
  /\ saving # Idle /\ saving.path[1] = EngineLabel =>
       OfThisRun(saving.md) /\ LedgerOfThisRun(saving.ledger)

(* Where a ledger may wait for a report that is not its own, there is none.   *)
OthersFiles ==
  \A p \in Paths : p[1] # EngineLabel =>
    /\ disk[p].md = Absent => disk[p].ledger \in {Absent, Torn}
    /\ saving # Idle /\ saving.path = p /\ saving.next \in {"md", "ledger"} =>
         disk[p].ledger \in {Absent, Torn}

AtRest(p) == saving = Idle \/ saving.path # p

Matching ==
  \A p \in Paths : AtRest(p) /\ Whole(p) /\ ~Altered(p) => disk[p].md.digest = Payload(disk[p].ledger)
Together ==
  \A p \in Paths : AtRest(p) /\ disk[p].md # Absent /\ p \notin left /\ ~Altered(p) => Whole(p)

FilingInv == Filed /\ Saving /\ EngineFiles /\ OthersFiles /\ Matching /\ Together

(* What the command line kept was held against its own ledger.                *)
KeptInv ==
  \A k \in kept :
    /\ Digested(k.md, k.ledger) /\ OwnsUp(k.md, k.ledger) /\ KeepsJobs(k.md, k.ledger)
    /\ k.ledger.reserved \subseteq {f \in Families : Profile[f] = "manual-only"}

ReportInv == CompareInv /\ FilingInv /\ KeptInv

LEMMA PayloadOnce == ASSUME NEW d PROVE Payload(Payload(d)) = Payload(d)
BY DEF Payload

LEMMA NothingThere ==
  /\ Absent # Torn /\ \A part \in Parts : NoFile[part] = Absent
  /\ \A p, md, d, next : [path |-> p, md |-> md, ledger |-> d, next |-> next] # Idle
  /\ Payload(Typed) \notin {Absent, Torn}
<1>1. Absent # Torn /\ \A part \in Parts : NoFile[part] = Absent
  BY DEF Absent, Torn, NoFile, Parts
<1>2. \A p, md, d, next : [path |-> p, md |-> md, ledger |-> d, next |-> next] # Idle
  BY DEF Idle
<1>3. "entries" \in DOMAIN Payload(Typed) /\ "entries" \notin DOMAIN Absent /\ "entries" \notin DOMAIN Torn
  BY DEF Payload, Typed, Absent, Torn
<1>4. QED
  BY <1>1, <1>2, <1>3

(* The ledger as it is told stands with the comparison. *)
LEMMA ToldStands ==
  ASSUME CompareInv, UNCHANGED comparisonVars
  PROVE  CompareInv' /\ Typed' = Typed /\ (HasLedger' <=> HasLedger)
<1>1. /\ CompareInv' /\ Positions' = Positions
  BY ComparisonRests
<1>2. ledger' = ledger /\ selection' = selection /\ fingerprint' = fingerprint
  BY DEF comparisonVars
<1>3. IsNonLineage(fingerprint)' <=> IsNonLineage(fingerprint)
  BY <1>2 DEF IsNonLineage, ReleaseRecords
<1>4. Typed' = Typed
  BY <1>1, <1>2, <1>3 DEF Typed
<1>5. HasLedger' <=> HasLedger
  BY <1>2 DEF HasLedger
<1>6. QED
  BY <1>1, <1>4, <1>5

LEMMA FilingStarts == ReportInit => FilingInv /\ KeptInv
<1> SUFFICES ASSUME ReportInit PROVE FilingInv /\ KeptInv
  OBVIOUS
<1>1. IsOver(disk, Paths) /\ \A p \in Paths : disk[p] = NoFile
  BY DEF ReportInit, IsOver
<1>2. \A p \in Paths : IsOver(disk[p], Parts) /\ \A part \in Parts : disk[p][part] = Absent
  BY <1>1, NothingThere DEF NoFile, IsOver, Parts
<1>3. \A p \in Paths : ~Readable(p, "md") /\ ~Readable(p, "ledger")
  BY <1>2 DEF Readable, Parts
<1>4. saving = Idle /\ kept = {}
  BY DEF ReportInit
<1>5. Filed /\ Saving /\ EngineFiles
  BY <1>1, <1>2, <1>3, <1>4 DEF Filed, Saving, EngineFiles
<1>6. OthersFiles /\ Matching /\ Together
  BY <1>2, <1>3, <1>4 DEF OthersFiles, Matching, Together, Whole, Parts
<1>7. QED
  BY <1>4, <1>5, <1>6 DEF FilingInv, KeptInv

(* What was rewritten between two readings stays so. *)
LEMMA AlteredStays == ASSUME kept \subseteq kept', NEW p, Altered(p) PROVE Altered(p)'
BY DEF Altered

(* A save that begins has its own ledger, unless that was rewritten, and takes *)
(* a path without a report.                                                   *)
LEMMA SaveBegins ==
  ASSUME CompareInv, FilingInv, UNCHANGED <<comparisonVars, disk>>, kept \subseteq kept',
         NEW label \in Labels, NEW md, NEW d, Start(label, md, d),
         md \notin {Absent, Torn}, d # Absent, NEW here, here = saving'.path,
         Altered(here)' \/ (d # Torn /\ md.digest = Payload(d)),
         label = EngineLabel => OfThisRun(md) /\ LedgerOfThisRun(d)
  PROVE  FilingInv'
<1> /\ disk' = disk /\ Typed' = Typed /\ (HasLedger' <=> HasLedger)
  BY ToldStands
<1>1. PICK n \in 1 .. MaxCopies :
        /\ FreePath(label, n) /\ saving' = [path |-> <<label, n>>, md |-> md, ledger |-> d, next |-> "md"]
        /\ left' = left \ {<<label, n>>}
  BY DEF Start
<1>2. /\ saving = Idle /\ saving' # Idle /\ saving'.path = <<label, n>> /\ saving'.next = "md"
      /\ saving'.md = md /\ saving'.ledger = d /\ <<label, n>> \in Paths
  BY <1>1, NothingThere DEF Start, Paths
<1>3. disk[<<label, n>>].md = Absent
  BY <1>1 DEF FreePath, Previous
<1>4. Filed'
  <2>1. IsOver(disk', Paths) /\ \A p \in Paths : IsOver(disk'[p], Parts)
    BY DEF FilingInv, Filed
  <2>2. saving' = [path |-> here, md |-> md, ledger |-> d, next |-> "md"]
    BY <1>1, <1>2
  <2>3. here \in Paths /\ "md" \in Steps
    BY <1>2 DEF Steps
  <2>4. QED
    BY <2>1, <2>2, <2>3 DEF Filed
<1>5. Saving'
  BY <1>2, <1>3 DEF Saving
<1>6. EngineFiles'
  <2>1. \A p \in Paths : \A part : Readable(p, part)' <=> Readable(p, part)
    BY DEF Readable
  <2>2. saving'.path[1] = label
    BY <1>2
  <2>3. QED
    BY <1>2, <2>1, <2>2 DEF FilingInv, EngineFiles, OfThisRun, LedgerOfThisRun
<1>7. OthersFiles'
  BY <1>2, <1>3 DEF FilingInv, OthersFiles
<1>8. Matching' /\ Together'
  <2>1. \A p \in Paths : AtRest(p)' => AtRest(p) /\ (p \in left' <=> p \in left)
    BY <1>1, <1>2 DEF AtRest
  <2>2. \A p \in Paths : (Whole(p)' <=> Whole(p)) /\ (Altered(p) => Altered(p)')
    BY AlteredStays DEF Readable, Whole
  <2>3. QED
    BY <2>1, <2>2 DEF FilingInv, Matching, Together
<1>9. QED
  BY <1>4, <1>5, <1>6, <1>7, <1>8 DEF FilingInv

(* A write changes one file of the path that is being saved. *)
LEMMA PutIs ==
  ASSUME Filed, saving # Idle, NEW part \in Parts, NEW content, Put(part, content)
  PROVE  /\ IsOver(disk', Paths) /\ \A p \in Paths : IsOver(disk'[p], Parts)
         /\ disk'[saving.path][part] = content
         /\ \A other \in Parts \ {part} : disk'[saving.path][other] = disk[saving.path][other]
         /\ \A p \in Paths : p # saving.path => disk'[p] = disk[p]
<1>1. saving.path \in Paths /\ IsOver(disk, Paths) /\ \A p \in Paths : IsOver(disk[p], Parts)
  BY DEF Filed
<1>2. disk' = [disk EXCEPT ![saving.path] = [disk[saving.path] EXCEPT ![part] = content]]
  BY <1>1 DEF Put, IsOver
<1>3. disk'[saving.path] = [disk[saving.path] EXCEPT ![part] = content]
  BY <1>1, <1>2 DEF IsOver
<1>4. \A p \in Paths : p # saving.path => disk'[p] = disk[p]
  BY <1>1, <1>2 DEF IsOver
<1>5. IsOver(disk', Paths)
  BY <1>1, <1>2 DEF IsOver
<1>6. IsOver(disk'[saving.path], Parts)
  BY <1>1, <1>3 DEF IsOver
<1>7. /\ disk'[saving.path][part] = content
      /\ \A other \in Parts \ {part} : disk'[saving.path][other] = disk[saving.path][other]
  BY <1>1, <1>3 DEF IsOver
<1>8. QED
  BY <1>1, <1>4, <1>5, <1>6, <1>7

(* A step of a save that is under way disturbs only the path it is about: what *)
(* is left to show is what that path holds, and where it ends.                 *)
Here(p) ==
  /\ p[1] = EngineLabel =>
       /\ Readable(p, "md") => OfThisRun(disk[p].md)
       /\ Readable(p, "ledger") => LedgerOfThisRun(disk[p].ledger)
  /\ p[1] # EngineLabel =>
       /\ disk[p].md = Absent => disk[p].ledger \in {Absent, Torn}
       /\ saving # Idle /\ saving.next \in {"md", "ledger"} => disk[p].ledger \in {Absent, Torn}
  /\ saving = Idle =>
       /\ Whole(p) /\ ~Altered(p) => disk[p].md.digest = Payload(disk[p].ledger)
       /\ disk[p].md # Absent /\ p \notin left /\ ~Altered(p) => Whole(p)

LEMMA OnlyHere ==
  ASSUME CompareInv, FilingInv, UNCHANGED comparisonVars, saving # Idle, NEW here, here = saving.path,
         saving' = Idle \/ \E step \in Steps : saving' = [saving EXCEPT !.next = step],
         kept' = kept, left \subseteq left',
         IsOver(disk', Paths), \A p \in Paths : IsOver(disk'[p], Parts),
         \A p \in Paths : p # saving.path => disk'[p] = disk[p],
         Saving', Here(here)'
  PROVE  FilingInv'
<1> Typed' = Typed /\ (HasLedger' <=> HasLedger)
  BY ToldStands
<1>1. /\ saving = [path |-> saving.path, md |-> saving.md, ledger |-> saving.ledger,
                   next |-> saving.next]
      /\ here \in Paths /\ saving.md \notin {Absent, Torn} /\ saving.ledger # Absent
      /\ ~Altered(here) => saving.ledger # Torn /\ saving.md.digest = Payload(saving.ledger)
  BY DEF FilingInv, Filed
<1> \A p : Altered(p)' <=> Altered(p)
  BY DEF Altered
<1>2. saving' # Idle => /\ saving' = [path |-> here, md |-> saving.md, ledger |-> saving.ledger,
                                      next |-> saving'.next]
                        /\ saving'.path = here /\ saving'.md = saving.md /\ saving'.ledger = saving.ledger
                        /\ saving'.next \in Steps
  BY <1>1
<1>3. Filed'
  BY <1>1, <1>2 DEF Filed
<1>4. \A p \in Paths : p # here => \A part : Readable(p, part)' <=> Readable(p, part)
  BY DEF Readable
<1>5. EngineFiles'
  <2>1. \A p \in Paths : p[1] = EngineLabel =>
          /\ Readable(p, "md")' => OfThisRun(disk[p].md)'
          /\ Readable(p, "ledger")' => LedgerOfThisRun(disk[p].ledger)'
    <3>1. SUFFICES ASSUME NEW p \in Paths, p[1] = EngineLabel
                   PROVE  /\ Readable(p, "md")' => OfThisRun(disk[p].md)'
                          /\ Readable(p, "ledger")' => LedgerOfThisRun(disk[p].ledger)'
      OBVIOUS
    <3>2. CASE p = here
      BY <3>1, <3>2 DEF Here
    <3>3. CASE p # here
      BY <3>1, <3>3, <1>4 DEF FilingInv, EngineFiles, OfThisRun, LedgerOfThisRun
    <3>4. QED
      BY <3>2, <3>3
  <2>2. saving' # Idle /\ saving'.path[1] = EngineLabel =>
          OfThisRun(saving.md) /\ LedgerOfThisRun(saving.ledger)
    BY <1>2 DEF FilingInv, EngineFiles
  <2>3. saving' # Idle /\ saving'.path[1] = EngineLabel =>
          OfThisRun(saving.md)' /\ LedgerOfThisRun(saving.ledger)'
    BY <1>2, <2>2 DEF OfThisRun, LedgerOfThisRun
  <2>4. QED
    BY <2>1, <2>3 DEF EngineFiles
<1>6. OthersFiles'
  BY <1>1, <1>2 DEF FilingInv, OthersFiles, Here
<1>7. Matching' /\ Together'
  <2>1. ASSUME NEW p \in Paths, AtRest(p)', ~Altered(p)
        PROVE  /\ Whole(p)' => disk'[p].md.digest = Payload(disk'[p].ledger)
               /\ disk'[p].md # Absent /\ p \notin left' => Whole(p)'
    <3>1. CASE p = here
      <4>1. saving' = Idle
        BY <1>2, <2>1, <3>1 DEF AtRest
      <4>2. (Whole(here)' <=> Whole(p)') /\ ~Altered(here)'
        BY <2>1, <3>1
      <4>3. /\ Whole(here)' => disk'[here].md.digest = Payload(disk'[here].ledger)
            /\ disk'[here].md # Absent /\ here \notin left' => Whole(here)'
        BY <4>1, <4>2 DEF Here
      <4>4. QED
        BY <3>1, <4>2, <4>3
    <3>2. CASE p # here
      <4>1. AtRest(p) /\ disk'[p] = disk[p] /\ (Whole(p)' <=> Whole(p))
        BY <1>2, <1>4, <2>1, <3>2 DEF AtRest, Whole
      <4>2. QED
        BY <2>1, <4>1 DEF FilingInv, Matching, Together
    <3>3. QED
      BY <3>1, <3>2
  <2>2. QED
    BY <2>1 DEF Matching, Together
<1>8. QED
  BY <1>3, <1>5, <1>6, <1>7 DEF FilingInv

(* What may be counted on where a save stands. *)
LEMMA SaveIs ==
  ASSUME FilingInv, saving # Idle, NEW p, p = saving.path
  PROVE  /\ Filed /\ p \in Paths /\ saving.next \in Steps
         /\ saving = [path |-> p, md |-> saving.md, ledger |-> saving.ledger, next |-> saving.next]
         /\ saving.md \notin {Absent, Torn} /\ saving.ledger # Absent
         /\ ~Altered(p) => saving.ledger # Torn /\ saving.md.digest = Payload(saving.ledger)
BY DEF FilingInv, Filed

LEMMA SaveHolds ==
  ASSUME FilingInv, saving # Idle, NEW p, p = saving.path
  PROVE  /\ saving.next \in {"md", "undo-both"} => disk[p].md = Absent
         /\ saving.next = "undo-ledger" => disk[p].ledger = Torn
         /\ saving.next \in {"result", "undo-result"} => disk[p].ledger = saving.ledger
         /\ saving.next \in {"ledger", "undo-ledger", "result", "undo-result"} => disk[p].md = saving.md
         /\ saving.next \in {"result", "undo-result", "undo-both"} => p[1] = EngineLabel
BY DEF FilingInv, Saving

LEMMA SaveLeaves ==
  ASSUME FilingInv, saving # Idle, NEW p, p = saving.path
  PROVE  /\ p[1] = EngineLabel => OfThisRun(saving.md) /\ LedgerOfThisRun(saving.ledger)
         /\ p[1] = EngineLabel => disk[p].ledger \in {Absent, Torn} \/ LedgerOfThisRun(disk[p].ledger)
         /\ p[1] # EngineLabel /\ disk[p].md = Absent => disk[p].ledger \in {Absent, Torn}
         /\ p[1] # EngineLabel /\ saving.next \in {"md", "ledger"} => disk[p].ledger \in {Absent, Torn}
<1>1. p \in Paths
  BY SaveIs
<1>2. p[1] = EngineLabel => OfThisRun(saving.md) /\ LedgerOfThisRun(saving.ledger)
  BY DEF FilingInv, EngineFiles
<1>3. p[1] = EngineLabel => disk[p].ledger \in {Absent, Torn} \/ LedgerOfThisRun(disk[p].ledger)
  BY <1>1 DEF FilingInv, EngineFiles, Readable
<1>4. /\ p[1] # EngineLabel /\ disk[p].md = Absent => disk[p].ledger \in {Absent, Torn}
      /\ p[1] # EngineLabel /\ saving.next \in {"md", "ledger"} => disk[p].ledger \in {Absent, Torn}
  BY <1>1 DEF FilingInv, OthersFiles
<1>5. QED
  BY <1>2, <1>3, <1>4

LEMMA ToldStill ==
  ASSUME CompareInv, UNCHANGED comparisonVars
  PROVE  (\A md : OfThisRun(md)' <=> OfThisRun(md)) /\ \A d : LedgerOfThisRun(d)' <=> LedgerOfThisRun(d)
BY ToldStands DEF OfThisRun, LedgerOfThisRun

LEMMA Writing == CompareInv /\ FilingInv /\ Write => FilingInv'
<1> SUFFICES ASSUME CompareInv, FilingInv, Write PROVE FilingInv'
  OBVIOUS
<1> PICK here : here = saving.path
  OBVIOUS
<1>1. saving # Idle /\ saving.next \in {"md", "ledger", "result"}
  BY DEF Write, Idle
<1>2. /\ UNCHANGED comparisonVars /\ kept' = kept /\ left' = left /\ Put(saving.next, Content(saving.next))
      /\ saving' = Following(saving.next)
  BY DEF Write
<1>3. /\ IsOver(disk', Paths) /\ \A p \in Paths : IsOver(disk'[p], Parts)
      /\ disk'[here][saving.next] = Content(saving.next)
      /\ \A other \in Parts \ {saving.next} : disk'[here][other] = disk[here][other]
      /\ \A p \in Paths : p # here => disk'[p] = disk[p]
  <2>1. saving.next \in Parts /\ Filed
    BY <1>1, SaveIs, SaveHolds, SaveLeaves DEF Parts
  <2>2. QED
    BY <1>1, <1>2, <2>1, PutIs
<1>4. /\ here \in Paths
      /\ saving = [path |-> here, md |-> saving.md, ledger |-> saving.ledger, next |-> saving.next]
  BY <1>1, SaveIs, SaveHolds, SaveLeaves
<1>5. ASSUME NEW step, saving' = [saving EXCEPT !.next = step]
      PROVE  /\ saving' # Idle /\ saving'.next = step /\ saving'.path = here /\ saving'.md = saving.md
             /\ saving'.ledger = saving.ledger
  BY <1>4, <1>5, NothingThere
<1>6. CASE saving.next = "md"
  <2>1. /\ disk'[here].md = saving.md /\ disk'[here].ledger = disk[here].ledger
        /\ saving' = [saving EXCEPT !.next = "ledger"]
    BY <1>2, <1>3, <1>6 DEF Content, Following, Parts
  <2>2. Saving'
    BY <1>5, <2>1 DEF Saving
  <2>3. Here(here)'
    BY <1>1, <1>2, <1>4, <1>5, <1>6, <2>1, SaveIs, SaveHolds, SaveLeaves, ToldStill DEF Here, Readable
  <2>4. QED
    BY <1>1, <1>2, <1>3, <2>1, <2>2, <2>3, SaveIs, SaveHolds, SaveLeaves, OnlyHere DEF Steps
<1>7. CASE saving.next = "ledger" /\ here[1] = EngineLabel
  <2>1. /\ disk'[here].ledger = saving.ledger /\ disk'[here].md = saving.md
        /\ saving' = [saving EXCEPT !.next = "result"]
    BY <1>1, <1>2, <1>3, <1>7, SaveIs, SaveHolds, SaveLeaves DEF Content, Following, Parts
  <2>2. Saving'
    BY <1>5, <1>7, <2>1 DEF Saving
  <2>3. Here(here)'
    BY <1>1, <1>2, <1>5, <1>7, <2>1, SaveIs, SaveHolds, SaveLeaves, ToldStill DEF Here
  <2>4. QED
    BY <1>1, <1>2, <1>3, <2>1, <2>2, <2>3, SaveIs, SaveHolds, SaveLeaves, OnlyHere DEF Steps
<1>8. CASE saving.next = "ledger" /\ here[1] # EngineLabel
  <2>1. disk'[here].ledger = saving.ledger /\ disk'[here].md = saving.md /\ saving' = Idle
    BY <1>1, <1>2, <1>3, <1>8, SaveIs, SaveHolds, SaveLeaves DEF Content, Following, Parts
  <2>2. /\ saving.md \notin {Absent, Torn} /\ saving.ledger # Absent /\ disk[here].md = saving.md
        /\ ~Altered(here) => saving.ledger # Torn /\ saving.md.digest = Payload(saving.ledger)
        /\ Altered(here)' <=> Altered(here)
    BY <1>1, <1>2, <1>8, SaveIs, SaveHolds DEF Altered
  <2>3. Saving'
    BY <2>1 DEF Saving
  <2>4. Here(here)'
    BY <1>2, <1>4, <1>8, <2>1, <2>2 DEF Here, Readable, Whole
  <2>5. QED
    BY <1>1, <1>2, <1>3, <2>1, <2>3, <2>4, SaveIs, SaveHolds, SaveLeaves, OnlyHere
<1>9. CASE saving.next = "result"
  <2>1. /\ disk'[here].ledger = saving.ledger /\ disk'[here].md = saving.md /\ saving' = Idle
        /\ here[1] = EngineLabel
    BY <1>1, <1>2, <1>3, <1>9, SaveIs, SaveHolds, SaveLeaves DEF Following, Parts
  <2>2. Saving'
    BY <2>1 DEF Saving
  <2>3. Here(here)'
    <3>1. /\ \A md : OfThisRun(md)' <=> OfThisRun(md)
          /\ \A d : LedgerOfThisRun(d)' <=> LedgerOfThisRun(d)
          /\ OfThisRun(saving.md) /\ LedgerOfThisRun(saving.ledger)
      BY <1>1, <1>2, <2>1, SaveLeaves, ToldStill
    <3>2. saving.md \notin {Absent, Torn} /\ saving.ledger \notin {Absent, Torn}
          /\ saving.md.digest = Payload(saving.ledger)
      BY <1>1, <2>1, SaveIs, SaveLeaves, NothingThere, PayloadOnce DEF OfThisRun, LedgerOfThisRun
    <3>3. Whole(here)' /\ disk'[here].md.digest = Payload(disk'[here].ledger)
      BY <2>1, <3>2 DEF Readable, Whole
    <3>4. OfThisRun(disk[here].md)' /\ LedgerOfThisRun(disk[here].ledger)'
      BY <2>1, <3>1
    <3>5. QED
      BY <2>1, <3>3, <3>4 DEF Here
  <2>4. QED
    BY <1>1, <1>2, <1>3, <2>1, <2>2, <2>3, SaveIs, SaveHolds, SaveLeaves, OnlyHere
<1>10. QED
  BY <1>1, <1>6, <1>7, <1>8, <1>9

LEMMA WriteFailing == CompareInv /\ FilingInv /\ WriteFails => FilingInv'
<1> SUFFICES ASSUME CompareInv, FilingInv, WriteFails PROVE FilingInv'
  OBVIOUS
<1> PICK here : here = saving.path
  OBVIOUS
<1>1. saving # Idle /\ saving.next \in {"md", "ledger", "result"}
  BY DEF WriteFails, Idle
<1>2. /\ UNCHANGED comparisonVars /\ kept' = kept /\ Put(saving.next, Torn)
      /\ left \subseteq left' /\ (saving.next = "md" => here \in left')
  BY DEF WriteFails
<1>3. /\ IsOver(disk', Paths) /\ \A p \in Paths : IsOver(disk'[p], Parts)
      /\ disk'[here][saving.next] = Torn
      /\ \A other \in Parts \ {saving.next} : disk'[here][other] = disk[here][other]
      /\ \A p \in Paths : p # here => disk'[p] = disk[p]
  <2>1. saving.next \in Parts /\ Filed
    BY <1>1, SaveIs DEF Parts
  <2>2. QED
    BY <1>1, <1>2, <2>1, PutIs
<1>4. /\ here \in Paths
      /\ saving = [path |-> here, md |-> saving.md, ledger |-> saving.ledger, next |-> saving.next]
  BY <1>1, SaveIs
<1>5. ASSUME NEW step, saving' = [saving EXCEPT !.next = step]
      PROVE  /\ saving' # Idle /\ saving'.next = step /\ saving'.path = here /\ saving'.md = saving.md
             /\ saving'.ledger = saving.ledger
  BY <1>4, <1>5, NothingThere
<1>6. CASE saving.next = "md"
  <2>1. disk'[here].md = Torn /\ disk'[here].ledger = disk[here].ledger /\ saving' = Idle
    BY <1>3, <1>6 DEF WriteFails, Parts
  <2>2. Saving'
    BY <2>1 DEF Saving
  <2>3. Here(here)'
    <3>1. ~Readable(here, "md")' /\ ~Whole(here)' /\ here \in left'
      BY <1>2, <1>6, <2>1 DEF Readable, Whole
    <3>2. disk'[here].ledger \in {Absent, Torn} \/ (here[1] = EngineLabel /\ LedgerOfThisRun(disk[here].ledger)')
      <4>1. \A d : LedgerOfThisRun(d)' <=> LedgerOfThisRun(d)
        BY <1>2, ToldStill
      <4>2. QED
        BY <1>1, <1>6, <2>1, <4>1, SaveLeaves
    <3>3. disk'[here].md # Absent
      BY <2>1, NothingThere
    <3>4. QED
      BY <2>1, <3>1, <3>2, <3>3 DEF Here, Readable
  <2>4. QED
    BY <1>1, <1>2, <1>3, <2>1, <2>2, <2>3, SaveIs, OnlyHere
<1>7. CASE saving.next = "ledger"
  <2>1. /\ disk'[here].ledger = Torn /\ disk'[here].md = saving.md
        /\ saving' = [saving EXCEPT !.next = "undo-ledger"]
    BY <1>1, <1>3, <1>7, SaveHolds DEF WriteFails, Parts
  <2>2. Saving'
    BY <1>5, <2>1 DEF Saving
  <2>3. Here(here)'
    BY <1>1, <1>2, <1>4, <1>5, <2>1, SaveLeaves, ToldStill DEF Here, Readable
  <2>4. QED
    BY <1>1, <1>2, <1>3, <2>1, <2>2, <2>3, SaveIs, OnlyHere DEF Steps
<1>8. CASE saving.next = "result"
  <2>1. /\ disk'[here].ledger = saving.ledger /\ disk'[here].md = saving.md /\ here[1] = EngineLabel
        /\ saving' = [saving EXCEPT !.next = "undo-result"]
    BY <1>1, <1>3, <1>8, SaveHolds DEF WriteFails, Parts
  <2>2. Saving'
    BY <1>5, <2>1 DEF Saving
  <2>3. Here(here)'
    BY <1>1, <1>2, <1>5, <2>1, SaveLeaves, ToldStill DEF Here
  <2>4. QED
    BY <1>1, <1>2, <1>3, <2>1, <2>2, <2>3, SaveIs, OnlyHere DEF Steps
<1>9. QED
  BY <1>1, <1>6, <1>7, <1>8

LEMMA Undoing == CompareInv /\ FilingInv /\ Undo => FilingInv'
<1> SUFFICES ASSUME CompareInv, FilingInv, Undo PROVE FilingInv'
  OBVIOUS
<1> PICK here : here = saving.path
  OBVIOUS
<1>1. saving # Idle /\ saving.next \in {"undo-ledger", "undo-result", "undo-both"}
  BY DEF Undo, Idle
<1>2. UNCHANGED comparisonVars /\ kept' = kept /\ left' = left
  BY DEF Undo
<1>3. ASSUME NEW part \in Parts, Put(part, Absent)
      PROVE  /\ IsOver(disk', Paths) /\ \A p \in Paths : IsOver(disk'[p], Parts)
             /\ disk'[here][part] = Absent
             /\ \A other \in Parts \ {part} : disk'[here][other] = disk[here][other]
             /\ \A p \in Paths : p # here => disk'[p] = disk[p]
  <2>1. Filed
    BY <1>1, SaveIs
  <2>2. QED
    BY <1>1, <1>3, <2>1, PutIs
<1>4. /\ here \in Paths
      /\ saving = [path |-> here, md |-> saving.md, ledger |-> saving.ledger, next |-> saving.next]
  BY <1>1, SaveIs
<1>5. CASE saving.next = "undo-ledger"
  <2>1. Put("md", Absent) /\ saving' = Idle /\ "md" \in Parts
    BY <1>5 DEF Undo, Parts
  <2>2. disk'[here].md = Absent /\ disk'[here].ledger = Torn
    BY <1>1, <1>3, <1>5, <2>1, SaveHolds DEF Parts
  <2>3. Saving'
    BY <2>1 DEF Saving
  <2>4. Here(here)'
    BY <2>1, <2>2 DEF Here, Readable, Whole
  <2>5. QED
    BY <1>1, <1>2, <1>3, <2>1, <2>3, <2>4, SaveIs, OnlyHere
<1>6. CASE saving.next = "undo-result"
  <2>1. Put("md", Absent) /\ saving' = [saving EXCEPT !.next = "undo-both"] /\ "md" \in Parts
    BY <1>6 DEF Undo, Parts
  <2>2. disk'[here].md = Absent /\ disk'[here].ledger = saving.ledger /\ here[1] = EngineLabel
    BY <1>1, <1>3, <1>6, <2>1, SaveHolds DEF Parts
  <2>3. saving' # Idle /\ saving'.next = "undo-both" /\ saving'.path = here
    BY <1>4, <2>1, NothingThere
  <2>4. Saving'
    BY <2>2, <2>3 DEF Saving
  <2>5. Here(here)'
    BY <1>1, <1>2, <2>2, <2>3, SaveLeaves, ToldStill DEF Here, Readable
  <2>6. QED
    BY <1>1, <1>2, <1>3, <2>1, <2>4, <2>5, SaveIs, OnlyHere DEF Steps
<1>7. CASE saving.next = "undo-both"
  <2>1. Put("ledger", Absent) /\ saving' = Idle /\ "ledger" \in Parts
    BY <1>7 DEF Undo, Parts
  <2>2. disk'[here].md = Absent /\ disk'[here].ledger = Absent
    BY <1>1, <1>3, <1>7, <2>1, SaveHolds DEF Parts
  <2>3. Saving'
    BY <2>1 DEF Saving
  <2>4. Here(here)'
    BY <2>1, <2>2 DEF Here, Readable, Whole
  <2>5. QED
    BY <1>1, <1>2, <1>3, <2>1, <2>3, <2>4, SaveIs, OnlyHere
<1>8. QED
  BY <1>1, <1>5, <1>6, <1>7

LEMMA Leaving == CompareInv /\ FilingInv /\ (Kill \/ UndoFails) => FilingInv'
<1> SUFFICES ASSUME CompareInv, FilingInv, Kill \/ UndoFails PROVE FilingInv'
  OBVIOUS
<1> PICK here : here = saving.path
  OBVIOUS
<1>1. /\ saving # Idle /\ saving' = Idle /\ UNCHANGED comparisonVars /\ disk' = disk /\ kept' = kept
      /\ left' = left \cup {here}
  BY DEF Kill, UndoFails, Idle
<1>2. here \in Paths /\ saving.next \in Steps /\ Filed
  BY <1>1, SaveIs
<1>3. Whole(here) /\ ~Altered(here) => disk[here].md.digest = Payload(disk[here].ledger)
  <2>1. CASE saving.next \in {"md", "undo-both", "undo-ledger"}
    BY <1>1, <2>1, SaveHolds DEF Whole, Readable
  <2>2. CASE saving.next \in {"result", "undo-result"}
    BY <1>1, <2>2, SaveHolds, SaveIs
  <2>3. CASE saving.next = "ledger" /\ here[1] = EngineLabel
    BY <1>1, <2>3, SaveHolds, SaveLeaves, PayloadOnce DEF Whole, Readable, OfThisRun, LedgerOfThisRun
  <2>4. CASE saving.next = "ledger" /\ here[1] # EngineLabel
    BY <1>1, <2>4, SaveLeaves DEF Whole, Readable
  <2>5. QED
    BY <1>2, <2>1, <2>2, <2>3, <2>4 DEF Steps
<1>4. here[1] = EngineLabel =>
        /\ Readable(here, "md") => OfThisRun(disk[here].md)
        /\ Readable(here, "ledger") => LedgerOfThisRun(disk[here].ledger)
  BY <1>2 DEF FilingInv, EngineFiles
<1>5. Here(here)'
  <2>1. Whole(here)' <=> Whole(here)
    BY <1>1 DEF Readable, Whole
  <2>2. Altered(here)' <=> Altered(here)
    BY <1>1 DEF Altered
  <2>3. QED
    BY <1>1, <1>2, <1>3, <1>4, <2>1, <2>2, SaveLeaves, ToldStill DEF Here, Readable
<1>6. Saving'
  BY <1>1 DEF Saving
<1>7. QED
  BY <1>1, <1>2, <1>5, <1>6, OnlyHere DEF Filed

LEMMA SavingTheResult ==
  ASSUME CompareInv, FilingInv, NEW intake, SaveResult(intake)
  PROVE  FilingInv'
<1>1. /\ HasLedger /\ UNCHANGED <<comparisonVars, disk, kept>>
      /\ Start(EngineLabel, Render(Typed, intake), Payload(Typed))
  BY DEF SaveResult
<1>2. /\ Render(Typed, intake).digest = Payload(Typed)
      /\ Render(Typed, intake).coverage = Coverage(Typed)
      /\ Render(Typed, intake) \notin {Absent, Torn}
  <2>1. "digest" \in DOMAIN Render(Typed, intake) /\ "digest" \notin DOMAIN Absent
        /\ "digest" \notin DOMAIN Torn
    BY DEF Render, Absent, Torn
  <2>2. QED
    BY <2>1 DEF Render
<1>3. OfThisRun(Render(Typed, intake)) /\ LedgerOfThisRun(Payload(Typed))
  BY <1>1, <1>2 DEF OfThisRun, LedgerOfThisRun
<1>4. Payload(Payload(Typed)) = Payload(Typed) /\ Payload(Typed) \notin {Absent, Torn}
  BY PayloadOnce, NothingThere
<1>5. QED
  BY <1>1, <1>2, <1>3, <1>4, SaveBegins, TheEngineHasALabel

LEMMA TakingBack ==
  ASSUME CompareInv, FilingInv, NEW label \in Labels \ {EngineLabel}, NEW p, TakeBack(label, p)
  PROVE  FilingInv'
<1>1. PICK pair, again :
        /\ {pair.md, pair.ledger} \cap {Absent, Torn} = {} /\ Gate(pair.md, pair.ledger, label)
        /\ again = pair.ledger \/ again # Absent
        /\ Start(label, pair.md, again)
        /\ kept' = kept \cup {[path |-> saving'.path, md |-> pair.md, ledger |-> pair.ledger, stored |-> again]}
  BY DEF TakeBack
<1> PICK here : here = saving'.path
  OBVIOUS
<1> PICK new : new = [path |-> here, md |-> pair.md, ledger |-> pair.ledger, stored |-> again]
  OBVIOUS
<1>2. Altered(here)' \/ again = pair.ledger
  <2>1. new \in kept' /\ new.path = here /\ new.stored = again /\ new.ledger = pair.ledger
    BY <1>1
  <2>2. QED
    BY <2>1 DEF Altered
<1>3. pair.md.digest = Payload(pair.ledger)
  BY <1>1 DEF Gate, Digested
<1>4. UNCHANGED <<comparisonVars, disk>>
  BY DEF TakeBack
<1>5. QED
  BY <1>1, <1>2, <1>3, <1>4, SaveBegins

LEMMA KeptStands ==
  ASSUME KeptInv, kept' = kept \/ \E label, p : TakeBack(label, p)
  PROVE  KeptInv'
<1>1. CASE kept' = kept
  BY <1>1 DEF KeptInv
<1>2. ASSUME NEW label, NEW p, TakeBack(label, p)
      PROVE  KeptInv'
  <2>1. PICK pair, again :
          /\ Gate(pair.md, pair.ledger, label)
          /\ kept' = kept \cup {[path |-> saving'.path, md |-> pair.md, ledger |-> pair.ledger, stored |-> again]}
    BY <1>2 DEF TakeBack
  <2>2. /\ Digested(pair.md, pair.ledger) /\ OwnsUp(pair.md, pair.ledger) /\ KeepsJobs(pair.md, pair.ledger)
        /\ pair.ledger.reserved \subseteq {f \in Families : Profile[f] = "manual-only"}
    BY <2>1 DEF Gate, Rebinds
  <2> PICK path : path = saving'.path
    OBVIOUS
  <2>3. ASSUME NEW k \in kept'
        PROVE  k \in kept \/ (k.md = pair.md /\ k.ledger = pair.ledger)
    <3>1. k \in kept \/ k = [path |-> path, md |-> pair.md, ledger |-> pair.ledger, stored |-> again]
      BY <2>1, <2>3
    <3>2. QED
      BY <3>1
  <2>4. QED
    BY <2>2, <2>3 DEF KeptInv
<1>3. QED
  BY <1>1, <1>2

LEMMA ReportSteps == ReportInv /\ [ReportNext]_reportVars => ReportInv'
<1> SUFFICES ASSUME ReportInv, [ReportNext]_reportVars PROVE ReportInv'
  OBVIOUS
<1> CompareInv /\ FilingInv /\ KeptInv
  BY DEF ReportInv
<1>1. CASE CompareNext /\ UNCHANGED filing
  <2>1. CompareInv' /\ ~HasLedger
    BY <1>1, ComparisonSteps, TheLedgerIsLast
  <2>2. disk' = disk /\ saving' = saving /\ kept' = kept /\ left' = left
    BY <1>1 DEF filing
  <2>3. \A p, part : Readable(p, part)' <=> Readable(p, part)
    BY <2>2 DEF Readable
  <2>4. \A p \in Paths : AtRest(p)' <=> AtRest(p)
    BY <2>2 DEF AtRest
  <2>5. EngineFiles'
    <3>1. \A p \in Paths : p[1] = EngineLabel => ~Readable(p, "md") /\ ~Readable(p, "ledger")
      BY <2>1 DEF FilingInv, EngineFiles, OfThisRun, LedgerOfThisRun
    <3>2. ~(saving # Idle /\ saving.path[1] = EngineLabel)
      BY <2>1 DEF FilingInv, EngineFiles, OfThisRun
    <3>3. QED
      BY <2>2, <2>3, <3>1, <3>2 DEF EngineFiles
  <2>6. Filed' /\ Saving' /\ OthersFiles'
    BY <2>2 DEF FilingInv, Filed, Saving, OthersFiles, Altered
  <2>7. Matching' /\ Together'
    BY <2>2, <2>3, <2>4 DEF FilingInv, Matching, Together, Whole, Altered
  <2>8. KeptInv'
    BY <2>2, KeptStands
  <2>9. QED
    BY <2>1, <2>5, <2>6, <2>7, <2>8 DEF ReportInv, FilingInv
<1>2. ASSUME UNCHANGED comparisonVars
      PROVE  CompareInv'
  BY <1>2, ComparisonRests
<1>3. ASSUME NEW intake \in Intakes, SaveResult(intake)
      PROVE  ReportInv'
  <2>1. UNCHANGED comparisonVars /\ kept' = kept
    BY <1>3 DEF SaveResult
  <2>2. QED
    BY <1>2, <1>3, <2>1, SavingTheResult, KeptStands DEF ReportInv
<1>4. CASE Write \/ WriteFails \/ Undo \/ UndoFails \/ Kill
  <2>1. UNCHANGED comparisonVars /\ kept' = kept
    BY <1>4 DEF Write, WriteFails, Undo, UndoFails, Kill
  <2>2. QED
    BY <1>2, <1>4, <2>1, Writing, WriteFailing, Undoing, Leaving, KeptStands DEF ReportInv
<1>5. ASSUME NEW label \in Labels \ {EngineLabel}, NEW p \in Paths, TakeBack(label, p)
      PROVE  ReportInv'
  <2>1. UNCHANGED comparisonVars
    BY <1>5 DEF TakeBack
  <2>2. QED
    BY <1>2, <1>5, <2>1, TakingBack, KeptStands DEF ReportInv
<1>6. CASE UNCHANGED reportVars
  <2>1. UNCHANGED comparisonVars /\ disk' = disk /\ saving' = saving /\ kept' = kept /\ left' = left
    BY <1>6 DEF reportVars, filing
  <2>2. \A p, part : Readable(p, part)' <=> Readable(p, part)
    BY <2>1 DEF Readable
  <2>3. Filed' /\ Saving' /\ OthersFiles'
    BY <2>1 DEF FilingInv, Filed, Saving, OthersFiles, Altered
  <2>4. EngineFiles'
    BY <2>1, <2>2, ToldStill DEF FilingInv, EngineFiles
  <2>5. Matching' /\ Together'
    BY <2>1, <2>2 DEF FilingInv, Matching, Together, Whole, AtRest, Altered
  <2>6. QED
    BY <1>2, <2>1, <2>3, <2>4, <2>5, KeptStands DEF ReportInv, FilingInv
<1>7. QED
  BY <1>1, <1>3, <1>4, <1>5, <1>6 DEF ReportNext

LEMMA ReportHolds == ReportSpec => []ReportInv
<1>1. ReportInit => ReportInv
  BY ComparisonStarts, FilingStarts DEF ReportInit, ReportInv
<1>2. QED
  BY <1>1, ReportSteps, PTL DEF ReportSpec

LEMMA FilesAreTold == FilingInv => ReportsHaveTheirLedger
<1> SUFFICES ASSUME FilingInv, NEW p \in Paths, disk[p].md # Absent, ~Altered(p), saving = Idle \/ saving.path # p
             PROVE  /\ Whole(p) => disk[p].md.digest = Payload(disk[p].ledger)
                    /\ Whole(p) \/ p \in left
  BY DEF ReportsHaveTheirLedger
<1>1. AtRest(p)
  BY DEF AtRest
<1>2. QED
  BY <1>1 DEF FilingInv, Matching, Together

(* The digest leaves out the reservations and nothing else. *)
LEMMA DigestTells ==
  ASSUME NEW l, Payload(l) = Payload(Typed)
  PROVE  /\ Unexamined(l) = Unexamined(Typed) /\ l.jobs = Typed.jobs
         /\ Coverage(l) = Coverage([Typed EXCEPT !.reserved = l.reserved])
<1> DEFINE t == [Typed EXCEPT !.reserved = l.reserved]
<1>1. /\ l.entries = Typed.entries /\ l.jobs = Typed.jobs /\ l.rows = Typed.rows
      /\ l.selected = Typed.selected
  BY DEF Payload, Typed
<1>2. /\ t.entries = Typed.entries /\ t.rows = Typed.rows /\ t.selected = Typed.selected
      /\ t.reserved = l.reserved
  BY DEF Typed
<1> HIDE DEF t
<1>3. Unexamined(l) = Unexamined(Typed) /\ Unexamined(t) = Unexamined(Typed)
  BY <1>1, <1>2 DEF Unexamined, Standing
<1>4. MapCovered(l) <=> MapCovered(t)
  BY <1>1, <1>2, <1>3 DEF MapCovered
<1>5. Confession(l) = Confession(t)
  BY <1>3 DEF Confession
<1>6. Coverage(l) = Coverage(t)
  BY <1>1, <1>2, <1>3, <1>4, <1>5 DEF Coverage, Told
<1>7. QED
  BY <1>1, <1>3, <1>6 DEF t

LEMMA KeptTells == KeptInv => KeptTellsTheRun
<1> SUFFICES ASSUME KeptInv, NEW k \in kept, k.md.digest = Payload(Typed)
             PROVE  /\ k.stored = k.ledger => Payload(k.stored) = Payload(Typed)
                    /\ Unexamined(Typed) # {} =>
                         \E fs \in SUBSET Typed.reserved :
                           k.md.coverage = Coverage([Typed EXCEPT !.reserved = fs])
                    /\ DOMAIN Typed.jobs # {} => k.md.jobs = Typed.jobs /\ ~k.md.behind
  BY DEF KeptTellsTheRun
<1>1. /\ Payload(k.ledger) = Payload(Typed)
      /\ OwnsUp(k.md, k.ledger) /\ KeepsJobs(k.md, k.ledger)
      /\ k.ledger.reserved \subseteq Typed.reserved
  BY DEF KeptInv, Digested, Typed
<1>2. /\ Unexamined(k.ledger) = Unexamined(Typed) /\ k.ledger.jobs = Typed.jobs
      /\ Coverage(k.ledger) = Coverage([Typed EXCEPT !.reserved = k.ledger.reserved])
  BY <1>1, DigestTells
<1>3. QED
  BY <1>1, <1>2 DEF OwnsUp, KeepsJobs

---------------------------------------------------------------------------
(* Deep dives. *)

LEMMA TypedIs ==
  /\ Typed.entries = ledger.entries
  /\ Typed.selected = IF selection = None THEN {} ELSE selection
BY DEF Typed

(* A member that is told as examined was given an answer that stands. *)
LEMMA ExaminedWasAnswered ==
  ASSUME CompareInv, HasLedger, NEW x \in Entries, ledger.entries[x].disp # "not-assessed"
  PROVE  \/ \E c \in Candidates(x) : Stands(c) \notin {"disputed", "not-assessed"}
         \/ x \in {SkillScore, BackupRestore}
<1> DEFINE d == ledger.entries[x].disp
<1>1. reconciled # None
  BY LedgerIs
<1>2. PICK p \in On(x) : ~p.disputed /\ p.disp = d
  BY EntryIs
<1>3. CASE Own(p)
  BY <1>2, <1>3 DEF Own, On
<1>4. CASE p \in Claims
  <2>1. p \in reconciled /\ p.kind # "job-coverage" /\ p.id = x
    BY <1>2, <1>4 DEF Claims, On
  <2>2. PICK q \in Normal \cup answers[Sceptic] : Candidate(q) = Candidate(p) /\ SameAnswer(p, q)
    BY <1>1, <1>2, <2>1, ClaimsAre
  <2>3. Candidate(p) \in Candidates(x)
    BY <2>1, <2>2 DEF Candidates, Candidate
  <2>4. Stands(Candidate(p)) = d /\ d # "disputed"
    BY <1>1, <1>2, <2>1, <2>2, ClaimsAre, ShapedAnswers DEF SameAnswer
  <2>5. QED
    BY <2>3, <2>4
<1>5. QED
  BY <1>2, <1>3, <1>4, PositionsAre DEF On

(* A report that says it dived says so of members that were all examined. *)
LEMMA DivesAreDeep ==
  ASSUME CompareInv, NEW r, OfThisRun(r), r.coverage.voice = "covered", r.coverage.dives # {}
  PROVE  /\ r.coverage.dives = selection /\ selection \subseteq Families
         /\ \A f \in selection : \A x \in Members[f] :
              \/ \E c \in Candidates(x) : Stands(c) \notin {"disputed", "not-assessed"}
              \/ x \in {SkillScore, BackupRestore}
<1>1. HasLedger /\ r.coverage = Coverage(Typed)
  BY DEF OfThisRun
<1>2. MapCovered(Typed) /\ r.coverage.dives = Typed.selected
  <2>1. CASE MapCovered(Typed)
    BY <1>1, <2>1 DEF Coverage, Told
  <2>2. CASE ~MapCovered(Typed) /\ Unexamined(Typed) = {}
    <3>1. Coverage(Typed) = [voice |-> "all assessed"]
      BY <2>2 DEF Coverage, Told
    <3>2. r.coverage = [voice |-> "all assessed"]
      BY <1>1, <3>1
    <3>3. [voice |-> "all assessed"].voice = "all assessed"
      OBVIOUS
    <3>4. QED
      BY <3>2, <3>3
  <2>3. CASE ~MapCovered(Typed) /\ Unexamined(Typed) # {}
    BY <1>1, <2>3 DEF Coverage, Told, Confession
  <2>4. QED
    BY <2>1, <2>2, <2>3
<1>3. Typed.selected = selection /\ selection # None
  BY <1>2, TypedIs
<1>4. selection \subseteq Families /\ \A f \in selection : Members[f] \cap Unexamined(Typed) = {}
  BY <1>2, <1>3 DEF MapCovered
<1>5. ASSUME NEW f \in selection, NEW x \in Members[f]
      PROVE  \/ \E c \in Candidates(x) : Stands(c) \notin {"disputed", "not-assessed"}
             \/ x \in {SkillScore, BackupRestore}
  <2>1. x \in Entries
    BY <1>4, CatalogueIsLawful DEF ReferencesAreClosed
  <2>2. ledger.entries[x].disp # "not-assessed"
    BY <1>4, <2>1, TypedIs DEF Unexamined, Standing
  <2>3. QED
    BY <1>1, <2>1, <2>2, ExaminedWasAnswered
<1>6. QED
  BY <1>2, <1>3, <1>4, <1>5

LEMMA SelectionIsNotSampled ==
  ASSUME CompareInv, HasLedger, ~IsNonLineage(fingerprint)
  PROVE  "sampled-selection" \notin HardFailures(Typed)
<1>1. ~Sampled(Typed)
  <2>1. SUFFICES ASSUME Typed.selected # {} PROVE ~Sampled(Typed)
    BY DEF Sampled
  <2>2. selection # None /\ Typed.selected = selection
    BY <2>1, TypedIs
  <2>3. selection \subseteq Families
    BY <2>2, SelectionIs
  <2>4. \A f \in selection : \A x \in Members[f] : Typed.entries[x].tokens # {}
    BY <2>2, TypedIs, SelectedAreSpokenOf, EntriesAreEvidenced
  <2>5. QED
    BY <2>2, <2>3, <2>4 DEF Sampled
<1>2. QED
  BY <1>1 DEF HardFailures

LEMMA DivesHaveFindings ==
  ASSUME CompareInv, selection # None, ~IsNonLineage(fingerprint), Status.progress # None,
         NEW f \in selection, status[Leads[f]] = "completed"
  PROVE  Status.progress.dives[f].findings > 0
<1> DEFINE role == Leads[f]
           found == {p \in answers[role] : p.id \in Members[f]}
<1>1. f \in Families /\ role \in Roles
  BY SelectionIs, RolesAreTold
<1>2. Status.progress = Progress
  BY DEF Status
<1>3. Status.progress.dives[f].findings = Cardinality(found)
  <2>1. Progress.dives[f] = Dive(f)
    BY DEF Progress
  <2>2. DiveLead(f) = role /\ status[role] \in Final
    BY <1>1 DEF DiveLead, Final
  <2>3. QED
    BY <1>1, <1>2, <2>1, <2>2 DEF Dive
<1>4. Accepting(role)
  BY <1>1 DEF CompareInv, AnswerInv
<1>5. found # {}
  <2>1. Members[f] \subseteq Required(role)
    BY DEF Required
  <2>2. Covers(answers[role], Required(role))
    BY <1>4 DEF Accepting
  <2>3. PICK x \in Members[f] : TRUE
    BY <1>1, CatalogueIsLawful DEF FamiliesAreShaped
  <2>4. PICK p \in answers[role] : p.id = x
    BY <2>1, <2>2, <2>3 DEF Covers
  <2>5. QED
    BY <2>3, <2>4
<1>6. IsFiniteSet(found)
  <2>1. IsFiniteSet(Offers[role]) /\ found \subseteq Offers[role]
    BY <1>1, <1>4, ProposalsAreShaped DEF Accepting
  <2>2. QED
    BY <2>1, FS_Subset
<1>7. Cardinality(found) \in Nat /\ Cardinality(found) # 0
  BY <1>5, <1>6, FS_CardinalityType, FS_EmptySet
<1>8. QED
  BY <1>3, <1>7

LEMMA DeepDivesHold == ReportInv => DeepDivesWereDeep
<1> SUFFICES ASSUME ReportInv PROVE DeepDivesWereDeep
  OBVIOUS
<1> CompareInv /\ FilingInv
  BY DEF ReportInv
<1>1. \A r \in OwnReports : OfThisRun(r)
  BY DEF OwnReports, FilingInv, EngineFiles
<1>2. QED
  BY <1>1, DivesAreDeep, SelectionIsNotSampled, DivesHaveFindings DEF DeepDivesWereDeep

---------------------------------------------------------------------------
(* An entry is given a disposition only when every answer that stands on it   *)
(* gives that one (_coalesce_group, _overlaid, _entry_for).                   *)
THEOREM SettledOnly == ReportSpec => []PositionsAreSettled
<1>1. ReportInv => PositionsAreSettled
  BY SettledAreThey DEF ReportInv
<1>2. QED
  BY <1>1, ReportHolds, PTL

(* A move carries factors somebody proposed for it, and none better than what *)
(* the sceptic left (_ranked_recommendations_from_entries).                   *)
THEOREM RankedAsProposed == ReportSpec => []MovesAreRankedAsProposed
<1>1. ReportInv => MovesAreRankedAsProposed
  BY MovesAreProposed DEF ReportInv
<1>2. QED
  BY <1>1, ReportHolds, PTL

(* Whatever combination of answers was accepted one by one, the ledger built  *)
(* from it breaks none of the rules of the ledger model (ComparisonLedger),   *)
(* except where the engine adds its own restore test.                        *)
THEOREM AcceptedCompare == ReportSpec => []AcceptedAnswersCompare
<1>1. ReportInv => AcceptedAnswersCompare
  BY AcceptedIsCompared DEF ReportInv
<1>2. QED
  BY <1>1, ReportHolds, PTL

(* A report at rest lies beside its own ledger, whatever write failed, and    *)
(* beside none only after a kill (reports/store.py).                          *)
THEOREM ReportsKeepTheirLedger == ReportSpec => []ReportsHaveTheirLedger
<1>1. ReportInv => ReportsHaveTheirLedger
  BY FilesAreTold DEF ReportInv
<1>2. QED
  BY <1>1, ReportHolds, PTL

(* A report the command line kept under the digest of this run tells this     *)
(* run, and so does its ledger unless it was rewritten once it was checked,   *)
(* however both were rewritten before (cli.py, _save and _gate).              *)
THEOREM KeptIsOfTheRun == ReportSpec => []KeptTellsTheRun
<1>1. ReportInv => KeptTellsTheRun
  BY KeptTells DEF ReportInv
<1>2. QED
  BY <1>1, ReportHolds, PTL

(* What a report, the gate and the status call a dive was answered, member by *)
(* member (report.py, wow_gate.py, _family_dive_rows).                        *)
THEOREM DivesWereDeep == ReportSpec => []DeepDivesWereDeep
<1>1. ReportInv => DeepDivesWereDeep
  BY DeepDivesHold DEF ReportInv
<1>2. QED
  BY <1>1, ReportHolds, PTL

=============================================================================
