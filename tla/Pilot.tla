-------------------------------- MODULE Pilot --------------------------------
(***************************************************************************)
(* The pilot study (pilot/): the build gate and the red-team report that a  *)
(* protocol must carry, enrolment and withdrawal at one EnrollmentGate, the *)
(* measurement plan of each participant, and the analysis of the cohort.    *)
(*                                                                         *)
(* A content hash is the content itself.  Consents are immutable values: a  *)
(* copy signed once may be presented again and again.  A row bears the time  *)
(* of its capture; a lock and a first collection bear whatever time the     *)
(* caller gives.  What a participant's system shows, the deletion port and  *)
(* the order of calls are the environment's; it collects from those the     *)
(* gate lists and from nobody else.                                        *)
(***************************************************************************)
EXTENDS Integers, FiniteSets

CONSTANTS
  None,
  People,
  Stratum,                 \* [People -> the stratum of the consent]
  Minimum, Maximum,        \* [strata -> quota]
  CohortMin, CohortMax,
  Runs,                    \* executions of the gate: [commit, proven, formal]
  Thresholds,              \* improvement thresholds a plan may name
  Baselines, FollowUps,    \* rows: [supports, objective, value (, claim)]
  BaselineWindow, FollowUpWindow,
  MaxTime

ASSUME QuotasFillACohort ==
  /\ CohortMin <= CohortMax /\ DOMAIN Minimum = DOMAIN Maximum
  /\ \A p \in People : Stratum[p] \in DOMAIN Minimum

VARIABLES
  now,
  protocol,     \* the gate report attached to the protocol, or None
  gate,         \* the protocol the enrolment gate was opened with, or None
  consents,     \* what was signed: <<person, protocol>>
  confirmed,    \* those whose Success Contract is confirmed
  records, tombstones,  \* of the gate: [People -> consented protocol or None];
                        \* <<person, protocol>> -> what is known of the deletion
  plan,         \* [People -> [threshold, locked, first]]
  backdated,    \* history: whose plan was locked after their baseline was in,
                \* at a time not after it
  base, follow, \* [People -> row with its time, or None]
  fate,         \* [People -> {"in", "dropout", "severe"}]
  report        \* the last analysis, or None

enrolment == <<protocol, gate, consents, confirmed, records, tombstones>>
data == <<plan, backdated, base, follow, fate>>
vars == <<now, enrolment, data, report>>

---------------------------------------------------------------------------
(* The build gate: every gate is run on the exact build; a gate that needs   *)
(* formal evidence passes only with evidence of the same commit.            *)
Gates == {"G1", "G2", "G3", "G4", "G5", "G6", "R3"}
FormalGates == {"G1", "G2"}
RedTeamGates == {"G1", "G2", "G3", "G4", "R3"}

GateReport(run) ==
  [commit |-> run.commit,
   passed |-> {g \in run.proven : g \in FormalGates => run.formal[g] = run.commit}]

Allowed(passed) == Gates \subseteq passed
Guided(passed) == "G1" \notin passed /\ Gates \ {"G1"} \subseteq passed

(* The red-team report is derived from one gate report and names it.        *)
RedTeam(g) == [source |-> g, passed |-> g.passed \cap RedTeamGates]

RedTeamAllowed(r) == RedTeamGates \subseteq r.passed
RedTeamGuided(r) == "G1" \notin r.passed /\ RedTeamGates \ {"G1"} \subseteq r.passed

Ready(p) ==
  /\ p # None
  /\ Allowed(p.gate.passed) \/ Guided(p.gate.passed)
  /\ RedTeamAllowed(p.redteam) \/ RedTeamGuided(p.redteam)
  /\ p.redteam.source = p.gate

---------------------------------------------------------------------------
Enrolled == {p \in People : records[p] # None}
InStratum(ps, s) == {p \in ps : Stratum[p] = s}
Withdrawn == DOMAIN tombstones

CohortComplete(ps) ==
  /\ Cardinality(ps) \in CohortMin..CohortMax
  /\ \A s \in DOMAIN Minimum : Cardinality(InStratum(ps, s)) \in Minimum[s]..Maximum[s]

StrictMajority(n) == n \div 2 + 1

NewPlan(t) == [threshold |-> t, locked |-> None, first |-> None]

Times == 0..MaxTime

Init ==
  /\ now = 0
  /\ protocol = None /\ gate = None /\ consents = {} /\ confirmed = {}
  /\ records = [p \in People |-> None] /\ tombstones = <<>>
  /\ plan \in [People -> {NewPlan(t) : t \in Thresholds}]
  /\ backdated = {}
  /\ base = [p \in People |-> None] /\ follow = [p \in People |-> None]
  /\ fate = [p \in People |-> "in"]
  /\ report = None

Tick == now < MaxTime /\ now' = now + 1 /\ UNCHANGED <<enrolment, data, report>>

(* Evidence of one build is attached: the protocol becomes another one.      *)
AttachRedTeam(run, source) ==
  /\ gate = None
  /\ RedTeam(GateReport(source)).source = GateReport(run)
  /\ protocol' = [gate |-> GateReport(run), redteam |-> RedTeam(GateReport(source))]
  /\ UNCHANGED <<now, gate, consents, confirmed, records, tombstones, data, report>>

Sign(p) ==
  /\ protocol # None
  /\ consents' = consents \cup {<<p, protocol>>}
  /\ UNCHANGED <<now, protocol, gate, confirmed, records, tombstones, data, report>>

ConfirmContract(p) ==
  /\ confirmed' = confirmed \cup {p}
  /\ UNCHANGED <<now, protocol, gate, consents, records, tombstones, data, report>>

OpenGate ==
  /\ gate = None /\ protocol # None
  /\ gate' = protocol
  /\ UNCHANGED <<now, protocol, consents, confirmed, records, tombstones, data, report>>

HasRoom(p) == Cardinality(InStratum(Enrolled, Stratum[p])) < Maximum[Stratum[p]]

\* Mutant of Enroll: a tombstone is not looked at.
EnrollAgain(p, consented) ==
  /\ gate # None /\ <<p, consented>> \in consents
  /\ consented = gate /\ p \in confirmed /\ Ready(gate)
  /\ records[p] = None /\ HasRoom(p)
  /\ records' = [records EXCEPT ![p] = consented]
  /\ UNCHANGED <<now, protocol, gate, consents, confirmed, tombstones, data, report>>

Enroll(p, consented) ==
  /\ gate # None /\ <<p, consented>> \in consents
  /\ consented = gate
  /\ p \in confirmed /\ Ready(gate)
  /\ <<p, consented>> \notin Withdrawn
  /\ records[p] = None
  /\ HasRoom(p)
  /\ records' = [records EXCEPT ![p] = consented]
  /\ UNCHANGED <<now, protocol, gate, consents, confirmed, tombstones, data, report>>

(* The tombstone is set before the port is called; whatever the port does,   *)
(* it stays, and only complete structured evidence confirms the deletion.    *)
Withdraw(p, deletion) ==
  /\ p \in Enrolled
  /\ records' = [records EXCEPT ![p] = None]
  /\ tombstones' = [k \in Withdrawn \cup {<<p, records[p]>>} |->
                      IF k = <<p, records[p]>> THEN deletion ELSE tombstones[k]]
  /\ IF deletion = "confirmed"
     THEN base' = [base EXCEPT ![p] = None] /\ follow' = [follow EXCEPT ![p] = None]
     ELSE UNCHANGED <<base, follow>>
  /\ UNCHANGED <<now, protocol, gate, consents, confirmed, plan, backdated, fate, report>>

---------------------------------------------------------------------------

(* A plan may be changed until it is locked, at any time the caller gives,   *)
(* and is locked once; the first collection is recorded once, at a time the  *)
(* caller gives that is not before the lock.                                *)
EditPlan(p, t) ==
  /\ plan[p].locked = None
  /\ plan' = [plan EXCEPT ![p].threshold = t]
  /\ UNCHANGED <<now, enrolment, backdated, base, follow, fate, report>>

Lock(p, at) ==
  /\ plan[p].locked = None
  /\ plan' = [plan EXCEPT ![p].locked = at]
  /\ backdated' = backdated \cup {q \in {p} : base[q] # None /\ at <= base[q].at}
  /\ UNCHANGED <<now, enrolment, base, follow, fate, report>>

MarkFirstCollection(p, at) ==
  /\ plan[p].locked # None /\ at >= plan[p].locked
  /\ plan[p].first = None
  /\ plan' = [plan EXCEPT ![p].first = at]
  /\ UNCHANGED <<now, enrolment, backdated, base, follow, fate, report>>

Admissible(p) == plan[p].locked # None /\ plan[p].first # None

(* A row keeps the threshold that stood when it was captured.               *)
CaptureBaseline(p, row) ==
  /\ p \in Enrolled /\ base[p] = None
  /\ base' = [base EXCEPT ![p] = [row |-> row, at |-> now, planned |-> plan[p].threshold]]
  /\ UNCHANGED <<now, enrolment, plan, backdated, follow, fate, report>>

CaptureFollowUp(p, row) ==
  /\ p \in Enrolled /\ base[p] # None /\ follow[p] = None /\ fate[p] # "dropout"
  /\ follow' = [follow EXCEPT ![p] = [row |-> row, at |-> now]]
  /\ UNCHANGED <<now, enrolment, plan, backdated, base, fate, report>>

(* A participant drops out, or something goes badly wrong with one.         *)
Befall(p, what) ==
  /\ p \in Enrolled /\ fate[p] = "in"
  /\ what = "dropout" => follow[p] = None
  /\ fate' = [fate EXCEPT ![p] = what]
  /\ UNCHANGED <<now, enrolment, plan, backdated, base, follow, report>>

---------------------------------------------------------------------------
(* The analysis takes exactly those enrolled, each with a plan locked before *)
(* the first collection and rows of the right windows, or refuses.          *)
\* Mutant of InTime: the windows are looked at, the lock is not.
InTheWindows(p) ==
  /\ base[p] # None /\ base[p].at \in BaselineWindow
  /\ fate[p] # "dropout" /\ follow[p] # None => follow[p].at \in FollowUpWindow

InTime(p) ==
  /\ base[p] # None /\ base[p].at \in BaselineWindow
  /\ base[p].at >= plan[p].locked /\ base[p].at >= plan[p].first
  /\ fate[p] # "dropout" /\ follow[p] # None => follow[p].at \in FollowUpWindow

(* A pair of rows that supports a claim; anything less counts as no success. *)
Measured(p) ==
  /\ fate[p] = "in" /\ follow[p] # None
  /\ base[p].row.supports /\ follow[p].row.supports
  /\ base[p].row.objective /\ follow[p].row.objective
  /\ base[p].row.value # None /\ follow[p].row.value # None

Gained(p) == follow[p].row.value - base[p].row.value >= plan[p].threshold

ClaimsStand(p) ==
  Measured(p) /\ follow[p].row.claim # None => follow[p].row.claim = Gained(p)

Analysable(ps) ==
  /\ CohortComplete(ps)
  /\ \A p \in ps : Admissible(p) /\ InTime(p) /\ ClaimsStand(p)

Verdict(ps) ==
  LET improved == {p \in ps : Measured(p) /\ Gained(p)}
  IN IF \E p \in ps : fate[p] = "severe" THEN "stop-and-review"
     ELSE IF Cardinality(improved) >= StrictMajority(Cardinality(ps)) THEN "successful"
     ELSE "not-demonstrated"

Analyze ==
  /\ Analysable(Enrolled)
  /\ report' = [roster |-> Enrolled, verdict |-> Verdict(Enrolled)]
  /\ UNCHANGED <<now, enrolment, data>>

PilotNext ==
  \/ Tick
  \/ \E run, source \in Runs : AttachRedTeam(run, source)
  \/ OpenGate
  \/ \E p \in People :
       \/ Sign(p)
       \/ ConfirmContract(p)
       \/ \E c \in {k[2] : k \in consents} : Enroll(p, c)
       \/ \E d \in {"failed", "unverified", "confirmed"} : Withdraw(p, d)
       \/ \E t \in Thresholds : EditPlan(p, t)
       \/ \E at \in Times : Lock(p, at) \/ MarkFirstCollection(p, at)
       \/ \E row \in Baselines : CaptureBaseline(p, row)
       \/ \E row \in FollowUps : CaptureFollowUp(p, row)
       \/ \E what \in {"dropout", "severe"} : Befall(p, what)
  \/ Analyze

---------------------------------------------------------------------------
(* Whoever withdrew is not enrolled again under the same protocol, with the  *)
(* old consent or a copy of it, however the deletion went; and those enrolled *)
(* consented to the protocol the gate stands for, with a build that passed.  *)
WithdrawnStaysOut ==
  \A p \in Enrolled :
    /\ <<p, records[p]>> \notin Withdrawn
    /\ records[p] = gate /\ Gates \ {"G1"} \subseteq gate.gate.passed

(* A pilot is called successful only when a strict majority of everybody who  *)
(* is enrolled by then, those who dropped out or never answered included,    *)
(* gained what their own plan asked for already when their baseline was taken, *)
(* and nobody came to severe harm.  The plan as it was locked counts instead  *)
(* only where the lock itself was given a time before it was made: the times  *)
(* alone cannot tell that from a plan locked first.                         *)
SuccessIsAMajority ==
  [][report' # None /\ report' # report /\ report'.verdict = "successful" =>
       LET asked(p) == IF p \in backdated THEN plan[p].threshold ELSE base[p].planned
           gained == {p \in Enrolled :
                        /\ base[p] # None /\ follow[p] # None /\ fate[p] = "in"
                        /\ follow[p].row.value - base[p].row.value >= asked(p)}
       IN 2 * Cardinality(gained) > Cardinality(Enrolled)
          /\ \A p \in Enrolled : fate[p] # "severe"]_vars
===========================================================================
