------------------------------- MODULE Moderation -------------------------------
(* Review of Card versions (contribution/moderation.py), beside the lifecycle *)
(* that acts on it: a reviewer's attestation, given once per version, cases   *)
(* of abuse that block it, and the trust check the lifecycle makes before     *)
(* every decision.                                                            *)
(*                                                                            *)
(* Who is signed in comes from two identity ports and what the scanner says   *)
(* from a third, asked anew by every call; each may answer differently every  *)
(* time.  Signatures are taken to verify.  A missed deadline only changes the *)
(* wording of a refusal, so a case has no clock here.                         *)
EXTENDS ContributionLifecycle

CONSTANTS
    Person,         \* who may be signed in
    Reviewer,       \* eligible_reviewers
    Case,           \* bound: case ids, digests of a version, a category and a time
    About           \* the version a case id was made from

ASSUME ModerationAssumption == Reviewer \subseteq Person /\ About \in [Case -> Version]

VARIABLES
    attestation,    \* the attestation of each version, NoAttestation before
    caseState,      \* the state of each abuse case, "none" before its report
    earlier         \* history: last reported before its version was attested

moderationVars == <<attestation, caseState, earlier>>
moderatedVars == <<lifecycleVars, moderationVars>>

Attestation == [reviewer : Person, contributor : Person]
NoAttestation == [reviewer |-> "nobody", contributor |-> "nobody"]
Closing == {"resolved", "rejected"}

ModerationTypeOK ==
    /\ attestation \in [Version -> Attestation \cup {NoAttestation}]
    /\ caseState \in [Case -> {"none", "open"} \cup Closing]
    /\ earlier \in [Case -> BOOLEAN]

ModeratedInit ==
    /\ Init
    /\ attestation = [v \in Version |-> NoAttestation]
    /\ caseState = [k \in Case |-> "none"]
    /\ earlier = [k \in Case |-> FALSE]

--------------------------------------------------------------------------------

(* What one call of the scanner ends in, and the status it gives the card:    *)
(* only a clean answer is reviewable; silence rejects, any error quarantines. *)
Scan == {"clean", "issues", "timeout", "unavailable", "error"}

ScanStatus(outcome) ==
    CASE outcome = "clean" -> "scanner-passed"
      [] outcome = "timeout" -> "rejected"
      [] outcome \in {"issues", "unavailable", "error"} -> "quarantined"

Passed(outcome) == ScanStatus(outcome) = "scanner-passed"

(* verify_attestation: the reviewer is eligible, is not the contributor, the  *)
(* contributor signed in is the one attested, and the scanner passes today.   *)
Verified(a, contributor, outcome) ==
    /\ a # NoAttestation
    /\ a.reviewer \in Reviewer
    /\ a.contributor = contributor
    /\ a.reviewer # a.contributor
    /\ Passed(outcome)

\* Mutant of Trusted: a clean scan is trust enough.
ScannerTrusted(v) == \E outcome \in Scan : Passed(outcome)

Trusted(v) ==
    \E contributor \in Person, outcome \in Scan : Verified(attestation[v], contributor, outcome)

Open(k) == caseState[k] = "open"

NoOpenCase(v) == \A k \in Case : About[k] = v => ~ Open(k)

(* approve: two scans, one before and one inside the verification. *)
Approve(v) ==
    /\ NoOpenCase(v)
    /\ attestation[v] = NoAttestation
    /\ \E reviewer \in Reviewer, contributor \in Person, first, second \in Scan :
          LET a == [reviewer |-> reviewer, contributor |-> contributor]
          IN  /\ Passed(first)
              /\ Verified(a, contributor, second)
              /\ attestation' = [attestation EXCEPT ![v] = a]
    /\ earlier' = [k \in Case |-> IF About[k] = v /\ caseState[k] # "none" THEN TRUE ELSE earlier[k]]
    /\ UNCHANGED <<lifecycleVars, caseState>>

(* A report is never refused.  The time in the case id may be the caller's,   *)
(* so the same report may come again, and opens its case whatever it was.     *)
ReportAbuse(k) ==
    /\ caseState' = [caseState EXCEPT ![k] = "open"]
    /\ earlier' = [earlier EXCEPT ![k] = FALSE]
    /\ UNCHANGED <<lifecycleVars, attestation>>

\* Mutant of ResolveAbuseCase: a closed case may be opened again.
ResolveToAnyState(k) ==
    /\ caseState[k] # "none"
    /\ \E reviewer \in Reviewer, contributor \in Person, to \in Closing \cup {"open"} :
          /\ reviewer # contributor
          /\ caseState' = [caseState EXCEPT ![k] = to]
    /\ UNCHANGED <<lifecycleVars, attestation, earlier>>

(* A known case closes, whatever its state was: a closed one may be closed    *)
(* the other way.                                                             *)
ResolveAbuseCase(k) ==
    /\ caseState[k] # "none"
    /\ \E reviewer \in Reviewer, contributor \in Person, to \in Closing :
          /\ reviewer # contributor
          /\ caseState' = [caseState EXCEPT ![k] = to]
    /\ UNCHANGED <<lifecycleVars, attestation, earlier>>

(* Every decision of the lifecycle reads the trust port first. *)
ModeratedReview(c) ==
    /\ Trusted(CardOf[c])
    /\ Review(c)
    /\ UNCHANGED moderationVars

ModeratedNext ==
    \/ Unreviewed /\ UNCHANGED moderationVars
    \/ \E c \in Contribution : ModeratedReview(c)
    \/ \E v \in Version : Approve(v)
    \/ \E k \in Case : ReportAbuse(k) \/ ResolveAbuseCase(k)

ModeratedSpec ==
    /\ ModeratedInit /\ [][ModeratedNext]_moderatedVars
    /\ \A v \in Version : WF_moderatedVars(RetrySettles(v) /\ UNCHANGED moderationVars)

--------------------------------------------------------------------------------

Decided(c) == state[c] \in {"reviewed", "changes_requested", "rejected", "eligible"}

(* Whatever was decided about a contribution, someone eligible other than its *)
(* contributor has attested that version; later reports, withdrawals and      *)
(* changes of who is signed in never make it otherwise.                       *)
DecidedByAnother ==
    \A c \in Contribution : Decided(c) =>
        LET a == attestation[CardOf[c]]
        IN  a # NoAttestation /\ a.reviewer \in Reviewer /\ a.reviewer # a.contributor

(* A case that is open beside an attestation of its version was reported, or   *)
(* reported again, since: no approval passed over it, and closing it the other *)
(* way did not bring it back.  (Nothing the lifecycle asks for looks at it.)   *)
EarlierCasesAreClosed ==
    \A k \in Case : Open(k) /\ attestation[About[k]] # NoAttestation => ~ earlier[k]
================================================================================
