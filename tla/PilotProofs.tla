------------------------------- MODULE PilotProofs -------------------------------
(* Proofs about Pilot and PilotPack, for any people, strata, quotas, builds,  *)
(* rows, thresholds and windows, any clock and any number of edits.           *)
EXTENDS PilotPack, FiniteSetTheorems, TLAPS

IsOver(f, S) == f = [x \in S |-> f[x]]

(* Whoever is enrolled consented to the protocol the gate stands for, fit for *)
(* a pilot, and has not withdrawn that consent.                               *)
Consenting(p) ==
    /\ gate # None /\ records[p] = gate
    /\ Ready(gate) /\ <<p, gate>> \notin Withdrawn

EnrolInv ==
    /\ IsOver(records, People)
    /\ IsFiniteSet(Enrolled)
    /\ \A p \in Enrolled : Consenting(p)

LEMMA EnrolInit == Init => EnrolInv
<1> SUFFICES ASSUME Init PROVE EnrolInv
  OBVIOUS
<1>1. Enrolled = {}
  BY DEF Init, Enrolled
<1>2. QED
  BY <1>1, FS_EmptySet DEF Init, EnrolInv, IsOver

LEMMA EnrolStands ==
    ASSUME EnrolInv, gate # None \/ gate' = None, UNCHANGED <<records, tombstones>>,
           gate # None => gate' = gate
    PROVE  EnrolInv'
<1>1. Enrolled' = Enrolled
  BY DEF Enrolled
<1>2. QED
  BY <1>1 DEF EnrolInv, Consenting, IsOver, Withdrawn

(* Nobody is enrolled before the gate is open. *)
LEMMA OpeningHolds == ASSUME EnrolInv, OpenGate PROVE EnrolInv'
<1>1. Enrolled' = Enrolled /\ Enrolled = {}
  BY DEF OpenGate, Enrolled, EnrolInv, Consenting
<1>2. QED
  BY <1>1 DEF OpenGate, EnrolInv, IsOver

LEMMA EnrollHolds == ASSUME EnrolInv, NEW p \in People, NEW c, Enroll(p, c) PROVE EnrolInv'
<1>1. /\ c = gate /\ gate # None /\ Ready(gate) /\ <<p, gate>> \notin Withdrawn
      /\ gate' = gate /\ tombstones' = tombstones
      /\ records' = [records EXCEPT ![p] = c]
  BY DEF Enroll
<1>2. IsOver(records', People) /\ records'[p] = gate
      /\ \A q \in People : q # p => records'[q] = records[q]
  BY <1>1 DEF EnrolInv, IsOver
<1>3. Enrolled' = Enrolled \cup {p}
  BY <1>1, <1>2 DEF Enrolled
<1>4. IsFiniteSet(Enrolled')
  BY <1>3, FS_AddElement DEF EnrolInv
<1>5. Ready(gate')
  BY <1>1 DEF Ready
<1>6. \A q \in Enrolled' : Consenting(q)'
  BY <1>1, <1>2, <1>3, <1>5 DEF EnrolInv, Consenting, Withdrawn, Enrolled
<1>7. QED
  BY <1>2, <1>4, <1>6 DEF EnrolInv, IsOver

LEMMA WithdrawHolds == ASSUME EnrolInv, NEW p \in People, NEW d, Withdraw(p, d) PROVE EnrolInv'
<1>1. /\ p \in Enrolled /\ gate' = gate
      /\ records' = [records EXCEPT ![p] = None]
      /\ Withdrawn' = Withdrawn \cup {<<p, records[p]>>}
  BY DEF Withdraw, Withdrawn
<1>2. IsOver(records', People) /\ records'[p] = None
      /\ \A q \in People : q # p => records'[q] = records[q]
  BY <1>1 DEF EnrolInv, IsOver
<1>3. Enrolled' = Enrolled \ {p}
  BY <1>1, <1>2 DEF Enrolled
<1>4. IsFiniteSet(Enrolled')
  BY <1>3, FS_RemoveElement DEF EnrolInv
<1>5. \A q \in Enrolled' : Consenting(q)'
  BY <1>1, <1>2, <1>3 DEF EnrolInv, Consenting, Enrolled, Ready
<1>6. QED
  BY <1>2, <1>4, <1>5 DEF EnrolInv, IsOver

--------------------------------------------------------------------------------
(* The plans and the rows. *)

(* A row not older than the lock was taken under the threshold that still     *)
(* stands, unless the lock was given a time before it was made.              *)
AsPlanned(p) ==
    base[p] # None =>
        /\ base[p].at \in Int /\ base[p].at <= now
        /\ p \notin backdated /\ plan[p].locked # None /\ base[p].at >= plan[p].locked
             => base[p].planned = plan[p].threshold

IsPlan(r) == r = [threshold |-> r.threshold, locked |-> r.locked, first |-> r.first]

PlanInv ==
    /\ now \in Int
    /\ IsOver(base, People) /\ IsOver(plan, People)
    /\ \A p \in People : IsPlan(plan[p]) /\ AsPlanned(p)

LEMMA PlanInit == Init => PlanInv
<1> SUFFICES ASSUME Init PROVE PlanInv
  OBVIOUS
<1>1. now \in Int /\ IsOver(base, People) /\ IsOver(plan, People) /\ \A p \in People : AsPlanned(p)
  BY DEF Init, IsOver, AsPlanned
<1>2. \A p \in People : IsPlan(plan[p])
  BY DEF Init, IsPlan, NewPlan
<1>3. QED
  BY <1>1, <1>2 DEF PlanInv

(* The clock only moves on. *)
LEMMA PlanStands ==
    ASSUME PlanInv, UNCHANGED <<base, plan, backdated>>, now' \in {now, now + 1}
    PROVE  PlanInv'
<1>1. now' \in Int /\ now' >= now
  BY DEF PlanInv
<1>2. \A p \in People : AsPlanned(p)'
  BY <1>1 DEF PlanInv, AsPlanned
<1>3. QED
  BY <1>1, <1>2 DEF PlanInv, IsPlan, IsOver

(* A new threshold before the lock, or a lock at any time.                    *)
LEMMA ReplanHolds ==
    ASSUME PlanInv, NEW p \in People, UNCHANGED <<base, now>>,
           \/ \E t \in Thresholds : EditPlan(p, t)
           \/ \E at \in Times : Lock(p, at) \/ MarkFirstCollection(p, at)
    PROVE  PlanInv'
<1>1. /\ IsOver(plan', People) /\ IsPlan(plan'[p])
      /\ \A q \in People : q # p => plan'[q] = plan[q]
      /\ backdated \subseteq backdated' /\ backdated' \subseteq backdated \cup {p}
      /\ \/ plan'[p].locked = None
         \/ /\ plan'[p].locked \in Int
            /\ base[p] # None /\ plan'[p].locked <= base[p].at => p \in backdated'
         \/ plan'[p].locked = plan[p].locked /\ plan'[p].threshold = plan[p].threshold
  <2>1. CASE \E t \in Thresholds : EditPlan(p, t)
    BY <2>1 DEF PlanInv, IsOver, IsPlan, EditPlan
  <2>2. ASSUME NEW at \in Times, Lock(p, at)
        PROVE  /\ IsOver(plan', People) /\ IsPlan(plan'[p]) /\ plan'[p].locked = at
               /\ \A q \in People : q # p => plan'[q] = plan[q]
    BY <2>2 DEF PlanInv, IsOver, IsPlan, Lock
  <2>3. ASSUME NEW at \in Times, Lock(p, at)
        PROVE  /\ at \in Int
               /\ backdated' = backdated \cup {q \in {p} : base[q] # None /\ at <= base[q].at}
    BY <2>3 DEF Lock, Times
  <2>4. ASSUME NEW at \in Times, MarkFirstCollection(p, at)
        PROVE  /\ IsOver(plan', People) /\ IsPlan(plan'[p]) /\ backdated' = backdated
               /\ plan'[p].locked = plan[p].locked /\ plan'[p].threshold = plan[p].threshold
               /\ \A q \in People : q # p => plan'[q] = plan[q]
    BY <2>4 DEF PlanInv, IsOver, IsPlan, MarkFirstCollection
  <2>5. QED
    BY <2>1, <2>2, <2>3, <2>4
<1>2. AsPlanned(p)'
  BY <1>1 DEF PlanInv, AsPlanned
<1>3. \A q \in People : q # p => AsPlanned(q)'
  BY <1>1 DEF PlanInv, AsPlanned
<1>4. QED
  BY <1>1, <1>2, <1>3 DEF PlanInv, IsOver, IsPlan

LEMMA BaselineHolds ==
    ASSUME PlanInv, NEW p \in People, UNCHANGED <<plan, backdated, now>>,
           IsOver(base', People), \A q \in People : q # p => base'[q] = base[q],
           base'[p] = None \/ /\ base'[p].at = now /\ base'[p].planned = plan[p].threshold
    PROVE  PlanInv'
BY DEF PlanInv, AsPlanned, IsOver, IsPlan

LEMMA PilotHolds == ASSUME EnrolInv, PlanInv, PilotNext PROVE EnrolInv' /\ PlanInv'
<1>1. CASE Tick
  BY <1>1, EnrolStands, PlanStands DEF Tick, enrolment, data
<1>2. CASE \E run, source \in Runs : AttachRedTeam(run, source)
  BY <1>2, EnrolStands, PlanStands DEF AttachRedTeam, data
<1>3. CASE OpenGate
  BY <1>3, OpeningHolds, PlanStands DEF OpenGate, data
<1>4. CASE Analyze
  BY <1>4, EnrolStands, PlanStands DEF Analyze, enrolment, data
<1>5. ASSUME NEW p \in People,
             Sign(p) \/ ConfirmContract(p) \/ \E c \in {k[2] : k \in consents} : Enroll(p, c)
      PROVE  EnrolInv' /\ PlanInv'
  BY <1>5, EnrolStands, EnrollHolds, PlanStands DEF Sign, ConfirmContract, Enroll, data
<1>6. ASSUME NEW p \in People, NEW d \in {"failed", "unverified", "confirmed"}, Withdraw(p, d)
      PROVE  EnrolInv' /\ PlanInv'
  <2>1. /\ UNCHANGED <<plan, backdated, now>> /\ IsOver(base', People)
        /\ \A q \in People : q # p => base'[q] = base[q]
        /\ base'[p] \in {base[p], None}
    BY <1>6 DEF Withdraw, PlanInv, IsOver
  <2>2. PlanInv'
    BY <2>1 DEF PlanInv, AsPlanned, IsOver, IsPlan
  <2>3. QED
    BY <1>6, <2>2, WithdrawHolds
<1>7. ASSUME NEW p \in People,
             \/ \E t \in Thresholds : EditPlan(p, t)
             \/ \E at \in Times : Lock(p, at) \/ MarkFirstCollection(p, at)
      PROVE  EnrolInv' /\ PlanInv'
  BY <1>7, EnrolStands, ReplanHolds DEF EditPlan, Lock, MarkFirstCollection, enrolment
<1>8. ASSUME NEW p \in People, NEW row \in Baselines, CaptureBaseline(p, row)
      PROVE  EnrolInv' /\ PlanInv'
  <2>1. /\ UNCHANGED <<plan, backdated, now>> /\ IsOver(base', People)
        /\ \A q \in People : q # p => base'[q] = base[q]
        /\ base'[p] = [row |-> row, at |-> now, planned |-> plan[p].threshold]
    BY <1>8 DEF CaptureBaseline, PlanInv, IsOver
  <2>2. PlanInv'
    BY <2>1, BaselineHolds
  <2>3. QED
    BY <1>8, <2>2, EnrolStands DEF CaptureBaseline, enrolment
<1>9. ASSUME NEW p \in People,
             \/ \E row \in FollowUps : CaptureFollowUp(p, row)
             \/ \E what \in {"dropout", "severe"} : Befall(p, what)
      PROVE  EnrolInv' /\ PlanInv'
  BY <1>9, EnrolStands, PlanStands DEF CaptureFollowUp, Befall, enrolment
<1>10. QED
  BY <1>1, <1>2, <1>3, <1>4, <1>5, <1>6, <1>7, <1>8, <1>9 DEF PilotNext

LEMMA PilotUntouched == ASSUME EnrolInv, PlanInv, UNCHANGED vars PROVE EnrolInv' /\ PlanInv'
BY EnrolStands, PlanStands DEF vars, enrolment, data

LEMMA Piloted == Spec => [](EnrolInv /\ PlanInv)
<1>1. PackInit => EnrolInv /\ PlanInv
  BY EnrolInit, PlanInit DEF PackInit
<1>2. EnrolInv /\ PlanInv /\ [Next]_packVars => EnrolInv' /\ PlanInv'
  <2> SUFFICES ASSUME EnrolInv, PlanInv, [Next]_packVars PROVE EnrolInv' /\ PlanInv'
    OBVIOUS
  <2>1. PilotNext \/ UNCHANGED vars
    BY DEF Next, packVars, WriteFiles, EditFile, WriteManifest, SignOff, VerifyManifest
  <2>2. QED
    BY <2>1, PilotHolds, PilotUntouched
<1>3. QED
  BY <1>1, <1>2, PTL DEF Spec

(* Nobody who withdrew is enrolled again under the same protocol, and nobody  *)
(* is enrolled but with consent to the protocol of the gate, of a build that  *)
(* passed: whatever was signed, copied or attached, in any order.             *)
THEOREM StaysOut == Spec => []WithdrawnStaysOut
<1>1. EnrolInv => WithdrawnStaysOut
  BY DEF EnrolInv, Consenting, WithdrawnStaysOut, Ready, Allowed, Guided, Gates
<1>2. QED
  BY <1>1, Piloted, PTL

LEMMA MajorityOf ==
    ASSUME NEW S, IsFiniteSet(S), NEW A \in SUBSET S, NEW B \in SUBSET S, A \subseteq B,
           Cardinality(A) >= StrictMajority(Cardinality(S))
    PROVE  2 * Cardinality(B) > Cardinality(S)
<1>1. IsFiniteSet(A) /\ IsFiniteSet(B) /\ Cardinality(A) <= Cardinality(B)
  BY FS_Subset
<1>2. Cardinality(S) \in Nat /\ Cardinality(A) \in Nat /\ Cardinality(B) \in Nat
  BY <1>1, FS_CardinalityType
<1>3. QED
  BY <1>1, <1>2 DEF StrictMajority

(* Success is a strict majority of all who are enrolled by then, each by the  *)
(* threshold their plan had when the baseline was taken, and nobody harmed:   *)
(* whatever times the locks and first collections are given, it takes a lock  *)
(* dated before it was made to let a later threshold decide.                  *)
THEOREM MajorityOfAll == Spec => SuccessIsAMajority
<1> DEFINE asked(p) == IF p \in backdated THEN plan[p].threshold ELSE base[p].planned
           Gaining(p) == /\ base[p] # None /\ follow[p] # None /\ fate[p] = "in"
                         /\ follow[p].row.value - base[p].row.value >= asked(p)
           Success == report' # None /\ report' # report /\ report'.verdict = "successful"
           Promise == /\ 2 * Cardinality({p \in Enrolled : Gaining(p)}) > Cardinality(Enrolled)
                      /\ \A p \in Enrolled : fate[p] # "severe"
<1>1. ASSUME EnrolInv, PlanInv, [Next]_packVars, Success PROVE Promise
  <2>1. Analyze
    BY <1>1 DEF Next, packVars, vars, pack, PilotNext, Tick, AttachRedTeam, OpenGate, Sign,
       ConfirmContract, Enroll, Withdraw, EditPlan, Lock, MarkFirstCollection, CaptureBaseline,
       CaptureFollowUp, Befall, WriteFiles, EditFile, WriteManifest, SignOff, VerifyManifest
  <2> DEFINE improved == {p \in Enrolled : Measured(p) /\ Gained(p)}
  <2>2. /\ \A p \in Enrolled : Admissible(p) /\ InTime(p)
        /\ Verdict(Enrolled) = "successful"
    BY <1>1, <2>1 DEF Analyze, Analysable
  <2>3. /\ \A p \in Enrolled : fate[p] # "severe"
        /\ Cardinality(improved) >= StrictMajority(Cardinality(Enrolled))
    BY <2>2 DEF Verdict
  <2>4. improved \subseteq {p \in Enrolled : Gaining(p)}
    BY <1>1, <2>2 DEF Enrolled, PlanInv, AsPlanned, Admissible, InTime, Measured, Gained
  <2>5. 2 * Cardinality({p \in Enrolled : Gaining(p)}) > Cardinality(Enrolled)
    <3> HIDE DEF Gaining
    <3>1. QED
      BY <1>1, <2>3, <2>4, MajorityOf DEF EnrolInv
  <2>6. QED
    BY <2>3, <2>5
<1>2. EnrolInv /\ PlanInv /\ [Next]_packVars => [Success => Promise]_vars
  BY <1>1
<1>3. QED
  BY <1>2, Piloted, PTL DEF Spec, SuccessIsAMajority

--------------------------------------------------------------------------------
(* The pack. *)

IsFile(r) == r = [rev |-> r.rev, body |-> r.body]

IsPack(d) == IsOver(d, Files) /\ \A f \in Files : IsFile(d[f]) /\ d[f].rev \in Int

(* Files are only ever edited, and an edit leaves a trace in the revision.    *)
Earlier(d, e) == \A f \in Files : d[f].body = e[f].body /\ d[f].rev <= e[f].rev

(* What is in the manifest was on disk, and what the reviewer saw lay between *)
(* what the manifest they signed names and what is on disk.                   *)
PackInv ==
    /\ disk = NoFiles => manifest = None /\ signoff = None
    /\ disk # NoFiles => IsPack(disk)
    /\ manifest # None => /\ IsPack(manifest.files) /\ Earlier(manifest.files, disk)
                          /\ manifest.shows \subseteq Shows
    /\ signoff # None =>
          /\ IsPack(signoff.seen) /\ IsPack(signoff.manifest.files)
          /\ Earlier(signoff.manifest.files, signoff.seen) /\ Earlier(signoff.seen, disk)

LEMMA EarlierHere == ASSUME NEW d, IsPack(d) PROVE Earlier(d, d)
BY DEF IsPack, Earlier

LEMMA EarlierStill ==
    ASSUME NEW c, NEW d, NEW e, IsPack(c), IsPack(d), IsPack(e), Earlier(c, d), Earlier(d, e)
    PROVE  Earlier(c, e)
BY DEF IsPack, Earlier

LEMMA SameBetween ==
    ASSUME NEW c, NEW d, NEW e, IsPack(c), IsPack(d), IsPack(e), Earlier(c, d), Earlier(d, e),
           \A f \in Files : c[f] = e[f]
    PROVE  d = e
<1>1. \A f \in Files : d[f].rev = e[f].rev /\ d[f].body = e[f].body
  BY DEF IsPack, Earlier
<1>2. \A f \in Files : d[f] = e[f]
  BY <1>1 DEF IsPack, IsFile
<1>3. QED
  BY <1>2 DEF IsPack, IsOver

LEMMA IsPackWritten == ASSUME NEW p PROVE IsPack(Written(p)) /\ Written(p) # NoFiles
BY DEF IsPack, IsFile, IsOver, Written, Files, NoFiles

LEMMA EditKeeps ==
    ASSUME IsPack(disk), NEW f \in Files, disk' = [disk EXCEPT ![f].rev = @ + 1]
    PROVE  IsPack(disk') /\ disk' # NoFiles /\ Earlier(disk, disk')
<1>1. /\ IsOver(disk', Files) /\ IsFile(disk'[f])
      /\ disk'[f].rev = disk[f].rev + 1 /\ disk'[f].body = disk[f].body
      /\ \A g \in Files : g # f => disk'[g] = disk[g]
  BY DEF IsPack, IsFile, IsOver
<1>2. IsPack(disk') /\ Earlier(disk, disk')
  BY <1>1 DEF IsPack, Earlier
<1>3. disk' # NoFiles
  <2>1. DOMAIN disk' = Files
    BY <1>1 DEF IsOver
  <2>2. DOMAIN NoFiles = {} /\ "plan" \in Files
    BY DEF NoFiles, Files
  <2>3. QED
    BY <2>1, <2>2
<1>4. QED
  BY <1>2, <1>3

LEMMA PackInit0 == PackInit => PackInv
BY DEF PackInit, PackInv

LEMMA PackUntouched == ASSUME PackInv, UNCHANGED <<disk, manifest, signoff>> PROVE PackInv'
BY DEF PackInv

LEMMA WriteHolds == ASSUME PackInv, NEW p \in People, WriteFiles(p) PROVE PackInv'
BY IsPackWritten DEF PackInv, WriteFiles

LEMMA EditHolds == ASSUME PackInv, NEW f \in Files, EditFile(f) PROVE PackInv'
<1>1. /\ disk # NoFiles /\ IsPack(disk) /\ UNCHANGED <<manifest, signoff>>
      /\ disk' = [disk EXCEPT ![f].rev = @ + 1]
  BY DEF EditFile, PackInv
<1>2. IsPack(disk') /\ disk' # NoFiles /\ Earlier(disk, disk')
  BY <1>1, EditKeeps
<1>3. manifest # None => Earlier(manifest.files, disk')
  BY <1>1, <1>2, EarlierStill DEF PackInv
<1>4. signoff # None => Earlier(signoff.seen, disk')
  BY <1>1, <1>2, EarlierStill DEF PackInv
<1>5. QED
  BY <1>1, <1>2, <1>3, <1>4 DEF PackInv

LEMMA ManifestHolds == ASSUME PackInv, NEW shows \in SUBSET Shows, WriteManifest(shows) PROVE PackInv'
<1>1. /\ disk # NoFiles /\ manifest' = [files |-> disk, shows |-> shows]
      /\ UNCHANGED <<disk, signoff>>
  BY DEF WriteManifest
<1>2. manifest'.files = disk /\ manifest'.shows \subseteq Shows /\ IsPack(disk) /\ Earlier(disk, disk)
  BY <1>1, EarlierHere DEF PackInv
<1>3. QED
  BY <1>1, <1>2 DEF PackInv

LEMMA SignOffHolds == ASSUME PackInv, NEW trusted, SignOff(trusted) PROVE PackInv'
<1>1. /\ manifest # None /\ UNCHANGED <<disk, manifest>>
      /\ signoff'.manifest = manifest /\ signoff'.seen = disk
  BY DEF SignOff
<1>2. disk # NoFiles /\ IsPack(disk) /\ Earlier(disk, disk)
  BY <1>1, EarlierHere DEF PackInv
<1>3. QED
  BY <1>1, <1>2 DEF PackInv

LEMMA Packed == Spec => []PackInv
<1>1. PackInv /\ [Next]_packVars => PackInv'
  <2> SUFFICES ASSUME PackInv, [Next]_packVars PROVE PackInv'
    OBVIOUS
  <2>1. CASE UNCHANGED <<disk, manifest, signoff>>
    BY <2>1, PackUntouched
  <2>2. CASE ~ UNCHANGED <<disk, manifest, signoff>>
    <3>1. \/ \E p \in People : WriteFiles(p)
          \/ \E f \in Files : EditFile(f)
          \/ \E shows \in SUBSET Shows : WriteManifest(shows)
          \/ \E trusted \in BOOLEAN : SignOff(trusted)
      BY <2>2 DEF Next, packVars, pack, VerifyManifest
    <3>2. QED
      BY <3>1, WriteHolds, EditHolds, ManifestHolds, SignOffHolds
  <2>3. QED
    BY <2>1, <2>2
<1>2. QED
  BY <1>1, PackInit0, PTL DEF Spec

(* A pack is found complete only while every file in it is the one a trusted  *)
(* reviewer had before them, however often files and manifest were changed,   *)
(* written anew or signed in between.                                         *)
THEOREM ReviewedAsSigned == Spec => CompletePacksWereReviewed
<1> DEFINE Found == complete' /\ ~ complete
           Reviewed == signoff.trusted /\ signoff.seen = disk /\ manifest.shows = Shows
<1>1. ASSUME PackInv, [Next]_packVars, Found PROVE Reviewed
  <2>1. VerifyManifest
    BY <1>1 DEF Next, packVars, pack, WriteFiles, EditFile, WriteManifest, SignOff
  <2>2. /\ Verified = Files /\ Observed /\ SignedOff /\ Drilled /\ "owned" \in manifest.shows
        /\ manifest # None
    BY <1>1, <2>1 DEF VerifyManifest, Complete
  <2>3. signoff # None /\ signoff.trusted /\ signoff.manifest = manifest
    BY <2>2 DEF SignedOff
  <2>4. \A f \in Files : manifest.files[f] = disk[f]
    BY <2>2 DEF Verified
  <2>5. disk # NoFiles /\ IsPack(disk)
    BY <1>1, <2>2 DEF PackInv
  <2>6. signoff.seen = disk
    BY <1>1, <2>3, <2>4, <2>5, SameBetween DEF PackInv
  <2>7. QED
    BY <1>1, <2>2, <2>3, <2>6 DEF Observed, Drilled, Shows, PackInv
<1>2. PackInv /\ [Next]_packVars => [Found => Reviewed]_packVars
  BY <1>1
<1>3. QED
  BY <1>2, Packed, PTL DEF Spec, CompletePacksWereReviewed

================================================================================
