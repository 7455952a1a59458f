------------------------------- MODULE JourneyWalk -------------------------------
(* One browser journey from the permission screen to its end, through jobs,    *)
(* diagnosis, the catalogue shelf and one adaptation (concierge/journey.py,    *)
(* with the session's handlers around it, jobs/inspection.py, jobs/propose.py  *)
(* and the assessment of Evidence).                                            *)
(*                                                                             *)
(* Every handler runs under the session's state lock and is one step here;     *)
(* CollectionSession has the collection's threads, ContributionJourney what    *)
(* follows the choice to contribute, AdaptationTransaction the engine.         *)
EXTENDS Evidence

CONSTANTS
    Job, NoJob,
    Version, NoVersion,     \* catalogue versions
    Envelopes,              \* what an inspection may collect
    Fallbacks,              \* what a refused inspection may hand over
    Claims,                 \* what the person may claim
    ClaimLimit,             \* FALLBACK_MAX_EVIDENCE
    ProposedFrom,           \* by role, the jobs the proposal rules name
    Eligible,               \* jobs an automatic change may serve
    AdaptCapable,           \* whether the adapter declares the one write
    HasOutcomeProcedure,    \* FALSE in the code; its tests of stages 7-8 patch it
    CanFail                 \* file operations that may fail

ASSUME WalkAssumption ==
    /\ NoJob \notin Job /\ NoVersion \notin Version
    /\ \A envelope \in Envelopes \cup Fallbacks : envelope \subseteq Signal
    /\ Claims \subseteq Claim /\ ClaimLimit \in Nat
    /\ ProposedFrom \in [Role -> SUBSET Job] /\ Eligible \subseteq Job
    /\ AdaptCapable \in BOOLEAN /\ HasOutcomeProcedure \in BOOLEAN
    /\ CanFail \subseteq {"save", "unlink", "receipt", "undo"}

VARIABLES
    stage,
    drafts,         \* each job's record: "none", "draft" or "unreadable"
    selected, confirmed,
    claims,         \* the fallback's evidence
    envelope,       \* what will be assessed
    guided,         \* whether it came from a fallback
    mapped,         \* the jobs of the capability map
    startup,        \* the catalogue the session fetched when it started
    fetched,        \* the catalogue result: a version, "unusable" or none
    shelf,          \* the version the shelf was ranked over
    brief,          \* the job and version of the brief
    ports,          \* whether contribution is configured
    chosen,         \* the job of the adaptation
    consent,        \* how far its consent came: "none", "shown", "issued", "spent"
    target,         \* the file: "absent", "ours" or "owner's"
    receipt,        \* the transaction's receipt: "none", "readable", "unreadable"
    told,           \* how the last diagnosis was answered
    session,        \* the session's own state: "open", "erased" or "aborted"
    standing        \* history: a change was written and has not been undone

jobState == <<drafts, selected, confirmed>>
source == <<claims, envelope, guided>>
catalogue == <<fetched, shelf, brief, ports>>
change == <<chosen, consent, target, receipt>>
rest == <<startup, told, session, standing>>
vars == <<stage, jobState, source, mapped, catalogue, change, rest>>

Stage == {"permission", "collecting", "fallback", "job_map", "diagnosis", "map", "shelf", "brief",
          "select", "preview", "approval", "receipt", "verify", "undo", "refused", "hard_stop",
          "contribution", "closed"}
NoBrief == [version |-> NoVersion, job |-> NoJob]

TypeOK ==
    /\ stage \in Stage
    /\ drafts \in [Job -> {"none", "draft", "unreadable"}]
    /\ selected \subseteq Job /\ confirmed \subseteq Job /\ mapped \subseteq Job
    /\ claims \subseteq Claim /\ envelope \subseteq Signal /\ guided \in BOOLEAN
    /\ startup \in Version \cup {NoVersion, "unusable"}
    /\ fetched \in Version \cup {NoVersion, "unusable"} /\ shelf \in Version \cup {NoVersion}
    /\ brief \in [version : Version \cup {NoVersion}, job : Job \cup {NoJob}]
    /\ ports \in BOOLEAN /\ chosen \in Job \cup {NoJob}
    /\ consent \in {"none", "shown", "issued", "spent"}
    /\ target \in {"absent", "ours", "owner's"}
    /\ receipt \in {"none", "readable", "unreadable"}
    /\ told \in {"nothing", "map", "error"}
    /\ session \in {"open", "erased", "aborted"}
    /\ standing \in BOOLEAN

Init ==
    /\ stage = "permission"
    /\ drafts = [j \in Job |-> "none"] /\ selected = {} /\ confirmed = {} /\ mapped = {}
    /\ claims = {} /\ envelope = {} /\ guided = FALSE
    /\ startup \in Version \cup {NoVersion, "unusable"}
    /\ fetched = NoVersion /\ shelf = NoVersion /\ brief = NoBrief /\ ports = FALSE
    /\ chosen = NoJob /\ consent = "none" /\ target = "absent" /\ receipt = "none"
    /\ told = "nothing" /\ session = "open" /\ standing = FALSE

Stored == {j \in Job : drafts[j] # "none"}
Pending == selected \ confirmed
Fails(operation) == operation \in CanFail

--------------------------------------------------------------------------------
(* Collection and fallback. *)

BeginCollection ==
    /\ stage = "permission"
    /\ stage' = "collecting"
    /\ UNCHANGED <<jobState, source, mapped, catalogue, change, rest>>

Proposed(found) == UNION {ProposedFrom[s.role] :
    s \in {s \in found : s.health = "healthy" /\ s.state = "observed"}}

CompleteCollection ==
    /\ stage = "collecting"
    /\ envelope' \in Envelopes
    /\ drafts' = [j \in Job |-> IF j \in Proposed(envelope') THEN "draft" ELSE drafts[j]]
    /\ selected' = Stored \cup Proposed(envelope')
    /\ stage' = "job_map"
    /\ UNCHANGED <<confirmed, claims, guided, mapped, catalogue, change, rest>>

CompleteFallback ==
    /\ stage = "collecting"
    /\ \E found \in Fallbacks : claims' = {ClaimOf(s) : s \in found}
    /\ guided' = TRUE
    /\ stage' = "fallback"
    /\ UNCHANGED <<jobState, envelope, mapped, catalogue, change, rest>>

(* One claim, or several imported together. *)
AddFallbackEvidence ==
    /\ stage = "fallback"
    /\ \E more \in SUBSET Claims :
        /\ more # {} /\ Cardinality(claims \cup more) <= ClaimLimit
        /\ claims' = claims \cup {Held(c) : c \in more}
    /\ UNCHANGED <<stage, jobState, envelope, guided, mapped, catalogue, change, rest>>

ContinueFallback ==
    /\ stage = "fallback"
    /\ envelope' = FallbackEnvelope(claims)
    /\ stage' = "job_map"
    /\ UNCHANGED <<jobState, claims, guided, mapped, catalogue, change, rest>>

--------------------------------------------------------------------------------
(* The job map.  A handler whose deletion finds the bytes still there ends the *)
(* session, as everything under Close does.                                    *)

\* Mutant of AddJob: only the stored drafts are looked at.
AddJobAgain(j) ==
    /\ stage = "job_map" /\ drafts[j] = "none"
    /\ drafts' = [drafts EXCEPT ![j] = "draft"]
    /\ selected' = selected \cup {j}
    /\ UNCHANGED <<stage, confirmed, source, mapped, catalogue, change, rest>>

(* A job without an id of its own gets one that is not taken.  A write that    *)
(* stops halfway leaves a record, and the job out of the selection.            *)
AddJob(j) ==
    /\ stage = "job_map"
    /\ j \notin Stored \cup confirmed
    /\ \/ drafts' = [drafts EXCEPT ![j] = "draft"] /\ selected' = selected \cup {j}
       \/ Fails("save") /\ drafts' = [drafts EXCEPT ![j] = "unreadable"] /\ UNCHANGED selected
    /\ UNCHANGED <<stage, confirmed, source, mapped, catalogue, change, rest>>

(* The record is rewritten in place: the write may stop halfway. *)
EditJob(j) ==
    /\ stage = "job_map" /\ drafts[j] = "draft"
    /\ \/ UNCHANGED drafts
       \/ Fails("save") /\ drafts' = [drafts EXCEPT ![j] = "unreadable"]
    /\ UNCHANGED <<stage, selected, confirmed, source, mapped, catalogue, change, rest>>

DiscardJob(j) ==
    /\ stage = "job_map" /\ j \in Stored
    /\ drafts' = [drafts EXCEPT ![j] = "none"]
    /\ selected' = selected \ {j}
    /\ UNCHANGED <<stage, confirmed, source, mapped, catalogue, change, rest>>

SelectJobs(jobs) ==
    /\ stage = "job_map" /\ jobs \subseteq Stored \cup confirmed
    /\ selected' = jobs \cup confirmed
    /\ UNCHANGED <<stage, drafts, confirmed, source, mapped, catalogue, change, rest>>

(* The contract is kept once the draft's bytes are gone. *)
ConfirmJob(j) ==
    /\ stage = "job_map" /\ j \in selected /\ drafts[j] = "draft"
    /\ drafts' = [drafts EXCEPT ![j] = "none"]
    /\ confirmed' = confirmed \cup {j}
    /\ selected' = selected \ {j}
    /\ UNCHANGED <<stage, source, mapped, catalogue, change, rest>>

(* The zeroed record cannot be unlinked; nothing handles the error. *)
DeletionFails(j) ==
    /\ Fails("unlink")
    /\ stage = "job_map" /\ j \in Stored
    /\ drafts' = [drafts EXCEPT ![j] = "unreadable"]
    /\ UNCHANGED <<stage, selected, confirmed, source, mapped, catalogue, change, rest>>

--------------------------------------------------------------------------------
(* Diagnosis and catalogue. *)

Displayable(result) == result \in Version

(* The session shows the catalogue it fetched at its start at once; to attach  *)
(* contribution, which the shelf no longer permits, then answers an error.     *)
Diagnose ==
    /\ stage \in {"job_map", "diagnosis"}
    /\ envelope # {} /\ Pending = {} /\ confirmed # {}
    /\ mapped' = confirmed
    /\ fetched' = IF startup = NoVersion THEN fetched ELSE startup
    /\ IF Displayable(startup)
       THEN /\ stage' = "shelf" /\ shelf' = startup
            /\ ports' = FALSE
            /\ told' \in {"map", "error"}
       ELSE /\ stage' = "map" /\ told' = "map"
            /\ ports' \in BOOLEAN
            /\ UNCHANGED shelf
    /\ UNCHANGED <<jobState, source, brief, change, startup, session, standing>>

RecordCatalogueFetch ==
    /\ stage \in {"job_map", "map", "shelf", "brief"} /\ session = "open"
    /\ fetched' \in Version \cup {"unusable"}
    /\ UNCHANGED <<stage, jobState, source, mapped, shelf, brief, ports, change, rest>>

OpenCatalogueShelf ==
    /\ stage = "map" /\ Displayable(fetched)
    /\ shelf' = fetched /\ brief' = NoBrief
    /\ stage' = "shelf"
    /\ UNCHANGED <<jobState, source, mapped, fetched, ports, change, rest>>

(* The entry is looked up in the catalogue fetched last and on the shelf.      *)
SelectCatalogueBrief(j) ==
    /\ stage = "shelf" /\ Displayable(fetched) /\ j \in mapped
    /\ brief' = [version |-> fetched, job |-> j]
    /\ stage' = "brief"
    /\ UNCHANGED <<jobState, source, mapped, fetched, shelf, ports, change, rest>>

ReturnToCatalogueShelf ==
    /\ stage = "brief"
    /\ stage' = "shelf"
    /\ UNCHANGED <<jobState, source, mapped, catalogue, change, rest>>

--------------------------------------------------------------------------------
(* One adaptation. *)

(* A form that names an invalid job, capability or root is refused as well.    *)
RefuseAdaptation ==
    /\ stage = "map" /\ (AdaptCapable => chosen = NoJob)
    /\ stage' = "refused"
    /\ UNCHANGED <<jobState, source, mapped, catalogue, change, rest>>

SelectAdaptation(j) ==
    /\ stage = "map" /\ AdaptCapable /\ chosen = NoJob
    /\ j \in confirmed \cap Eligible /\ HasOutcomeProcedure
    /\ chosen' = j
    /\ stage' = "select"
    /\ UNCHANGED <<jobState, source, mapped, catalogue, consent, target, receipt, rest>>

(* The preview and a recovery point proven for it, or a refusal. *)
PreviewAdaptation ==
    /\ stage = "select"
    /\ \/ /\ target = "absent"
          /\ consent' = "shown" /\ stage' = "preview"
       \/ stage' = "refused" /\ UNCHANGED consent
    /\ UNCHANGED <<jobState, source, mapped, catalogue, chosen, target, receipt, rest>>

ApproveAdaptation ==
    /\ stage = "preview"
    /\ consent' = "issued" /\ stage' = "approval"
    /\ UNCHANGED <<jobState, source, mapped, catalogue, chosen, target, receipt, rest>>

(* Applied and receipted, with a verdict or an Unknown that stops everything.  *)
ApplyAdaptation ==
    /\ stage = "approval" /\ target = "absent"
    /\ consent' = "spent" /\ target' = "ours" /\ receipt' = "readable"
    /\ stage' \in {"receipt", "hard_stop"}
    /\ standing' = TRUE
    /\ UNCHANGED <<jobState, source, mapped, catalogue, chosen, startup, told, session>>

(* Another token, an expired approval, a failure taken back, a conflict, or a  *)
(* recovery that failed and left the file.                                     *)
ApplyFails ==
    /\ stage = "approval"
    /\ \/ stage' = "refused" /\ UNCHANGED <<consent, target, standing>>
       \/ stage' \in {"refused", "hard_stop"} /\ consent' = "spent" /\ UNCHANGED <<target, standing>>
       \/ /\ Fails("undo") /\ target = "absent"
          /\ stage' = "hard_stop" /\ consent' = "spent" /\ target' = "ours" /\ standing' = TRUE
    /\ UNCHANGED <<jobState, source, mapped, catalogue, chosen, receipt, startup, told, session>>

\* Mutant of VerifyAdaptation: a proven change makes room for the next one.
VerifyAllowsAnother ==
    /\ stage = "receipt"
    /\ chosen' = NoJob /\ stage' = "map"
    /\ UNCHANGED <<jobState, source, mapped, catalogue, consent, target, receipt, rest>>

VerifyAdaptation ==
    /\ stage = "receipt"
    /\ stage' = "verify"
    /\ UNCHANGED <<jobState, source, mapped, catalogue, change, rest>>

(* Undone; or a conflict or a lost recovery point, which stops everything; or  *)
(* an error that changes nothing.  The choice is not cleared, and no handler   *)
(* leads from here back to the map.                                            *)
UndoAdaptation ==
    /\ stage \in {"verify", "receipt"}
    /\ \/ target # "owner's" /\ target' = "absent" /\ standing' = FALSE /\ stage' = "undo"
       \/ (target = "owner's" \/ Fails("undo")) /\ stage' = "hard_stop" /\ UNCHANGED <<target, standing>>
    /\ UNCHANGED <<jobState, source, mapped, catalogue, chosen, consent, receipt, startup, told, session>>

(* Any page that shows the receipt reads it, at whatever stage. *)
ReadReceipt ==
    /\ receipt = "unreadable" /\ stage # "closed"
    /\ stage' = "hard_stop"
    /\ UNCHANGED <<jobState, source, mapped, catalogue, change, rest>>

ReceiptDamaged ==
    /\ Fails("receipt") /\ receipt = "readable"
    /\ receipt' = "unreadable"
    /\ UNCHANGED <<stage, jobState, source, mapped, catalogue, chosen, consent, target, rest>>

OwnerEdits ==
    /\ AdaptCapable /\ stage # "closed"
    /\ target' = "owner's"
    /\ UNCHANGED <<stage, jobState, source, mapped, catalogue, chosen, consent, receipt, rest>>

(* What follows is ContributionJourney's. *)
ChooseContribution ==
    /\ stage \in {"map", "verify", "undo"}
    /\ ports' = TRUE
    /\ stage' = "contribution"
    /\ UNCHANGED <<jobState, source, mapped, fetched, shelf, brief, change, rest>>

--------------------------------------------------------------------------------
(* Every end of the session: declined, cancelled, closed, expired, a failed    *)
(* collection or an unproven deletion.                                         *)

Forget ==
    /\ stage' = "closed"
    /\ selected' = {} /\ confirmed' = {} /\ mapped' = {} /\ claims' = {} /\ envelope' = {}
    /\ chosen' = NoJob /\ consent' = "none" /\ ports' = FALSE
    /\ UNCHANGED <<guided, fetched, shelf, brief, target, startup, told, standing>>

\* Mutant of Close: a stopped adaptation keeps the page open.
CloseUnlessStopped ==
    /\ stage \notin {"closed", "hard_stop"}
    /\ Forget
    /\ drafts' = [j \in Job |-> "none"] /\ receipt' = "none" /\ session' = "erased"

(* The drafts one by one, then the session's private directory with all that   *)
(* is left in it, an adaptation's journal and receipt included.                *)
Close ==
    /\ stage # "closed"
    /\ Forget
    /\ drafts' = [j \in Job |-> "none"] /\ receipt' = "none" /\ session' = "erased"

(* A draft whose bytes outlive their deletion is reported and the directory    *)
(* removed all the same; an error of unlink itself leaves _discard on the way. *)
CloseFails ==
    /\ stage # "closed" /\ Fails("unlink") /\ Stored # {}
    /\ Forget
    /\ \E j \in Stored, deleted \in SUBSET Stored :
        /\ j \notin deleted
        /\ drafts' = [k \in Job |-> IF k \in deleted THEN "none"
                                    ELSE IF k = j THEN "unreadable" ELSE drafts[k]]
    /\ session' = "aborted"
    /\ UNCHANGED receipt

Next ==
    \/ BeginCollection \/ CompleteCollection \/ CompleteFallback
    \/ AddFallbackEvidence \/ ContinueFallback
    \/ \E j \in Job : \/ AddJob(j) \/ EditJob(j) \/ DiscardJob(j) \/ ConfirmJob(j)
                      \/ DeletionFails(j) \/ SelectCatalogueBrief(j) \/ SelectAdaptation(j)
    \/ \E jobs \in SUBSET Job : SelectJobs(jobs)
    \/ Diagnose \/ RecordCatalogueFetch \/ OpenCatalogueShelf \/ ReturnToCatalogueShelf
    \/ RefuseAdaptation \/ PreviewAdaptation \/ ApproveAdaptation
    \/ ApplyAdaptation \/ ApplyFails \/ VerifyAdaptation \/ UndoAdaptation
    \/ ReadReceipt \/ ReceiptDamaged \/ OwnerEdits \/ ChooseContribution
    \/ Close \/ CloseFails

Spec == Init /\ [][Next]_vars

(* The expiry timer ends every session. *)
FairSpec == Spec /\ WF_vars(Close \/ CloseFails)

--------------------------------------------------------------------------------
(* Confirming a job deletes the draft's bytes before the contract is kept, and *)
(* nothing afterwards, a later draft of the same name included, brings a       *)
(* record back beside the contract (journey.add_job, confirm_job, edit_job).   *)
ConfirmedLeavesNoDraft == \A j \in confirmed : drafts[j] = "none"

(* What a refused inspection left the person to claim is never shown as        *)
(* Verified, through both translations of a claim, nor made so when the person *)
(* corrects the evidence of the finding: the correction is an honest finding,  *)
(* and never one the correction itself would have to refuse                    *)
(* (server._collect_for_journey, journey._fallback_state, evidence_level,      *)
(* capmap.correct).                                                            *)
FallbackNeverVerified ==
    guided =>
        LET finding == AssessOne(envelope)
        IN  /\ \A shown \in {finding, Corrected(finding)} : Honest(shown) /\ shown.level # Verified
            /\ ~ CorrectionRefused(finding)

(* While a change stands, written and not undone, the session neither selects  *)
(* another nor writes one: not after a verdict, a refused or failed undo, a    *)
(* stop, a damaged receipt or an edit by the owner (journey.select_adaptation's *)
(* promise for stages 7-8).                                                    *)
OneChangeAtATime ==
    [][(chosen' # chosen /\ chosen' # NoJob) \/ (target # "ours" /\ target' = "ours") =>
           ~ standing]_vars

(* Whatever the person and the file system do, the expiry timer ends the       *)
(* session, and what the page held is gone for good (ConciergeSession._discard,*)
(* journey.close's finally).                                                   *)
EverySessionEnds ==
    <>[](stage = "closed" /\ confirmed = {} /\ envelope = {} /\ mapped = {})

================================================================================
