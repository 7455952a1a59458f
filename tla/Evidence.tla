-------------------------------- MODULE Evidence --------------------------------
(* The closed evidence vocabulary, the total mapping from evidence to Evidence *)
(* Level, and the assessment of one Foundation Capability for one confirmed    *)
(* job (evidence/, diagnosis/engine.py, capmap/correct.py), with the two       *)
(* translations a fallback's evidence goes through before it is assessed.      *)
EXTENDS Naturals, FiniteSets

State == {"observed", "user-reported", "inferred", "stale", "conflicting", "absent",
          "not-assessed", "insufficient", "blocked", "unverified", "withdrawn"}
ClaimSupporting == {"observed", "user-reported", "inferred"}
NeverVerified == {"stale", "conflicting", "insufficient", "blocked", "absent", "not-assessed"}

Unknown == 0   Reported == 1   Supported == 2   Verified == 3
Level == Unknown .. Verified

Ceiling(state) == CASE state = "observed" -> Verified
                    [] state = "inferred" -> Supported
                    [] state = "user-reported" -> Reported
                    [] OTHER -> Unknown

Smaller(a, b) == IF a <= b THEN a ELSE b
Strongest(states) == CHOOSE level \in Level :
    /\ \A s \in states : Ceiling(s) <= level
    /\ \E s \in states : Ceiling(s) = level

(* Contradictory evidence supports nothing; a deficient item forbids Verified. *)
EvidenceLevel(states) ==
    IF states = {} \/ "conflicting" \in states THEN Unknown
    ELSE Smaller(Strongest(states), IF states \cap NeverVerified = {} THEN Verified ELSE Supported)

--------------------------------------------------------------------------------
(* A signal is one probe's item: the role its probe id has for the capability, *)
(* the health of the instrument, the item's state and its age when assessed.   *)

Role == {"outcome", "configuration", "boundary", "overbroad", "none"}
Health == {"healthy", "off", "could-not-check", "broken"}
Age == {"fresh", "old", "future"}
Signal == [role : Role, health : Health, state : State, age : Age]

EffectiveState(signal) ==
    CASE signal.age = "future" -> "not-assessed"
      [] signal.age = "old" /\ signal.state \in ClaimSupporting -> "stale"
      [] OTHER -> signal.state

Items(envelope, role) ==
    {EffectiveState(s) : s \in {s \in envelope : s.role = role /\ s.health = "healthy"}}
        \cup {"absent" : s \in {s \in envelope : s.role = role /\ s.health = "off"}}

Failures(envelope) ==
    {IF s.health = "could-not-check" THEN "blocked" ELSE "unverified" :
        s \in {s \in envelope : s.role # "none" /\ s.health \in {"could-not-check", "broken"}}}

Supports(states) == states \cap ClaimSupporting # {}

(* Presence is not an outcome: without an observed outcome, configuration is   *)
(* insufficient.                                                               *)
Configuration(envelope) ==
    LET found == Items(envelope, "configuration")
    IN  IF "observed" \in Items(envelope, "outcome") THEN found
        ELSE {IF s \in ClaimSupporting THEN "insufficient" ELSE s : s \in found}

Assessed(envelope) ==
    Items(envelope, "outcome") \cup Configuration(envelope) \cup Failures(envelope)

CapabilityState(envelope) ==
    LET outcome == Items(envelope, "outcome")
    IN  IF Supports(outcome) /\ Assessed(envelope) \subseteq ClaimSupporting THEN "working"
        ELSE IF Supports(outcome) THEN "partial"
        ELSE IF (outcome \cup Configuration(envelope)) \ {"not-assessed"} # {} THEN "not-demonstrated"
        ELSE "unknown"

SafetyBoundary(envelope) ==
    IF Supports(Items(envelope, "overbroad")) THEN "overbroad"
    ELSE IF /\ Supports(Items(envelope, "boundary")) /\ Supports(Items(envelope, "outcome"))
            /\ Failures(envelope) = {}
         THEN "safe"
    ELSE "unclear"

Linked(envelope) ==
    Assessed(envelope) \cup Items(envelope, "boundary") \cup Items(envelope, "overbroad")

AssessOne(envelope) ==
    [evidence |-> Linked(envelope), state |-> CapabilityState(envelope),
     level |-> EvidenceLevel(Linked(envelope)), boundary |-> SafetyBoundary(envelope)]

(* What a Finding's validator insists on. *)
Honest(finding) ==
    /\ finding.level = EvidenceLevel(finding.evidence)
    /\ \/ finding.state \in {"working", "partial"}
       \/ finding.boundary = "safe"
       => Supports(finding.evidence)

(* The person's account joins the evidence; a correction that would raise the  *)
(* level above what it was or Reported is refused.                             *)
Corrected(finding) ==
    [finding EXCEPT !.evidence = @ \cup {"user-reported"},
                    !.level = EvidenceLevel(finding.evidence \cup {"user-reported"})]
CorrectionRefused(finding) ==
    Corrected(finding).level > (IF finding.level >= Reported THEN finding.level ELSE Reported)

--------------------------------------------------------------------------------
(* A fallback: the session turns a refused adapter's items into claims, the    *)
(* journey turns claims into evidence.                                         *)

ClaimLevel(state) == CASE state = "inferred" -> "supported"
                       [] state = "user-reported" -> "reported"
                       [] OTHER -> "unknown"

ClaimState(level) == CASE level = "supported" -> "inferred"
                       [] level = "reported" -> "user-reported"
                       [] OTHER -> "not-assessed"

(* What may be claimed, and what is kept of it: nobody may claim Verified.      *)
Claim == [role : Role, level : {"verified", "supported", "reported", "unknown"}]
Held(claim) == [claim EXCEPT !.level = IF @ = "verified" THEN "unknown" ELSE @]
ClaimOf(signal) == [role |-> signal.role, level |-> ClaimLevel(signal.state)]
ClaimSignal(claim) == [role |-> claim.role, health |-> "healthy",
                       state |-> ClaimState(claim.level), age |-> "fresh"]
(* With no claim at all, one probe that could not check and fits no role.      *)
FallbackEnvelope(claims) ==
    IF claims = {}
    THEN {[role |-> "none", health |-> "could-not-check", state |-> "not-assessed", age |-> "fresh"]}
    ELSE {ClaimSignal(c) : c \in claims}
================================================================================
