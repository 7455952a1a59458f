-------------------------- MODULE ContributionJourney --------------------------
(* Stage nine of the local journey (concierge/journey.py): one person builds, *)
(* reviews, discloses, approves, submits, edits and withdraws a Card, against *)
(* an external intake, and may close the session at any stage.                *)
(*                                                                            *)
(* The journey holds one lifecycle and ledger for the version it approved     *)
(* last; an edit makes the next version.  A handler that calls the intake is  *)
(* two steps: what it does before the call, and what it does with the answer. *)
(* Nothing here is persisted: a process that dies takes consent with it.      *)
EXTENDS Naturals

CONSTANTS
    LastVersion,    \* bound: the highest version a card is edited to
    Store,
    Grants,
    CanFail

ASSUME JourneyAssumption == LastVersion \in Nat \ {0}

Version == 1 .. LastVersion
NoVersion == 0
Reference == Version \cup {NoVersion}

VARIABLES
    ledger, permissions, state, payloads, withdrawn, quarantined, pending,
    stage,          \* the journey's stage
    calling,        \* the handler waiting for the intake's answer
    card,           \* the version on the table
    contribution,   \* the journey's references, by the version they are for:
    lifecycle,      \*   the contribution, its lifecycle and ledger,
    handle,         \*   the opaque revocation authority,
    retryVersion,   \*   and _pending_withdrawal_version_hash
    hasIntake,      \* whether the intake port is attached
    attempted,      \* _intake_submission_attempted
    pendingFlag,    \* _pending_withdrawal
    intake,         \* what the intake holds: "never", "held" or "gone"
    receipted,      \* versions a withdrawal was reported complete for
    calledBack      \* versions a retry was reported complete for, never withdrawn

lifecycleVars == <<ledger, permissions, state, payloads, withdrawn, quarantined, pending>>
authority == <<contribution, lifecycle, handle, retryVersion, hasIntake>>
outside == <<intake, receipted, calledBack>>
journeyVars == <<stage, calling, card, contribution, lifecycle, handle, retryVersion,
                 hasIntake, attempted, pendingFlag, intake, receipted, calledBack>>
vars == <<lifecycleVars, journeyVars>>

Lifecycle == INSTANCE ContributionLifecycle
    WITH Contribution <- Version, CardOf <- [v \in Version |-> v]

Stage == {"map", "build", "review", "disclose", "approve", "submit", "withdraw", "closed"}
Handler == {"none", "submit", "withdraw", "retry", "close"}

TypeOK ==
    /\ Lifecycle!TypeOK
    /\ stage \in Stage /\ calling \in Handler
    /\ card \in Version
    /\ {contribution, lifecycle, handle, retryVersion} \subseteq Reference
    /\ hasIntake \in BOOLEAN /\ attempted \in BOOLEAN /\ pendingFlag \in BOOLEAN
    /\ intake \in [Version -> {"never", "held", "gone"}]
    /\ receipted \subseteq Version /\ calledBack \subseteq Version

Init ==
    /\ Lifecycle!Init
    /\ stage = "map" /\ calling = "none" /\ card = 1
    /\ contribution = NoVersion /\ lifecycle = NoVersion
    /\ handle = NoVersion /\ retryVersion = NoVersion
    /\ hasIntake = FALSE /\ attempted = FALSE /\ pendingFlag = FALSE
    /\ intake = [v \in Version |-> "never"]
    /\ receipted = {} /\ calledBack = {}

At(s) == stage = s /\ calling = "none"
Owes(v) == v # NoVersion /\ pending[v] # {}

--------------------------------------------------------------------------------

ConfigureContribution ==
    /\ At("map") /\ ~ hasIntake
    /\ hasIntake' = TRUE
    /\ UNCHANGED <<lifecycleVars, stage, calling, card, contribution, lifecycle, handle,
                   retryVersion, attempted, pendingFlag, outside>>

(* choose, build, review and disclose only move the journey along. *)
Proceed ==
    /\ \/ At("map") /\ hasIntake /\ stage' = "build"
       \/ At("build") /\ stage' = "review"
       \/ At("review") /\ stage' = "disclose"
       \/ At("disclose") /\ stage' = "approve"
    /\ UNCHANGED <<lifecycleVars, calling, card, authority, attempted, pendingFlag, outside>>

(* A fresh ledger and lifecycle for exactly this version. *)
ApproveContribution ==
    /\ At("approve")
    /\ \E granted \in Grants : permissions' = [permissions EXCEPT ![card] = granted]
    /\ ledger' = [ledger EXCEPT ![card] = "granted"]
    /\ state' = [state EXCEPT ![card] = "draft"]
    /\ contribution' = card /\ lifecycle' = card /\ handle' = card
    /\ attempted' = FALSE /\ pendingFlag' = FALSE
    /\ stage' = "submit"
    /\ UNCHANGED <<payloads, withdrawn, quarantined, pending, calling, card, retryVersion,
                   hasIntake, outside>>

(* The references to the previous version are dropped; its consent is         *)
(* withdrawn on the ledger, which tells no store.                             *)
EditContribution ==
    /\ stage \in {"review", "disclose", "approve", "submit"} /\ calling = "none"
    /\ card < LastVersion
    /\ ~ attempted
    /\ ledger' = IF lifecycle = NoVersion THEN ledger
                 ELSE [ledger EXCEPT ![card] = "withdrawn"]
    /\ card' = card + 1
    /\ contribution' = NoVersion /\ lifecycle' = NoVersion
    /\ handle' = NoVersion /\ retryVersion' = NoVersion
    /\ attempted' = FALSE /\ pendingFlag' = FALSE
    /\ stage' = "review"
    /\ UNCHANGED <<permissions, state, payloads, withdrawn, quarantined, pending,
                   calling, hasIntake, outside>>

--------------------------------------------------------------------------------

(* Locally submitted: the intake is called next. *)
SubmitContribution ==
    /\ At("submit")
    /\ Lifecycle!Submit(contribution)
    /\ attempted' = TRUE
    /\ calling' = "submit"
    /\ UNCHANGED <<stage, card, authority, pendingFlag, outside>>

(* Without the review permission the lifecycle withdraws instead. *)
SubmitWithdraws ==
    /\ At("submit")
    /\ Lifecycle!SubmitUnreviewable(contribution)
    /\ stage' = "withdraw"
    /\ UNCHANGED <<calling, card, authority, attempted, pendingFlag, outside>>

(* A store raises: the handler raises with it, before the intake is reached.  *)
SubmitBreaks ==
    /\ At("submit")
    /\ Lifecycle!SubmitPutFails(contribution)
    /\ UNCHANGED journeyVars

IntakeAccepts ==
    /\ calling = "submit"
    /\ intake' = [intake EXCEPT ![handle] = "held"]
    /\ pendingFlag' = TRUE
    /\ stage' = "withdraw" /\ calling' = "none"
    /\ UNCHANGED <<lifecycleVars, card, authority, attempted, receipted, calledBack>>

(* No answer, or one that is not exact: the bytes may have arrived or not.    *)
IntakeUnconfirmed ==
    /\ calling = "submit"
    /\ Lifecycle!Quarantine(contribution)
    /\ intake' \in {intake, [intake EXCEPT ![handle] = "held"]}
    /\ pendingFlag' = TRUE
    /\ stage' = "withdraw" /\ calling' = "none"
    /\ UNCHANGED <<card, authority, attempted, receipted, calledBack>>

--------------------------------------------------------------------------------

(* Withdraw here and now, unless it was withdrawn before. *)
WithdrawLocally(v) ==
    \/ state[v] # "withdrawn" /\ Lifecycle!Withdraw(v)
    \/ state[v] = "withdrawn" /\ UNCHANGED lifecycleVars

(* The answer to a withdrawal; an exact receipt means the intake let go.      *)
IntakeLetsGo == intake' = [intake EXCEPT ![handle] = IF @ = "held" THEN "gone" ELSE @]
IntakeSilent == intake' = intake \/ IntakeLetsGo

WithdrawContribution ==
    /\ At("withdraw")
    /\ contribution # NoVersion /\ lifecycle # NoVersion /\ hasIntake /\ handle # NoVersion
    /\ WithdrawLocally(contribution)
    /\ retryVersion' = contribution
    /\ IF attempted
       THEN calling' = "withdraw" /\ UNCHANGED <<pendingFlag, receipted>>
       ELSE /\ calling' = "none"
            /\ pendingFlag' = (pending'[contribution] # {})
            /\ receipted' = IF pendingFlag' THEN receipted ELSE receipted \cup {contribution}
    /\ UNCHANGED <<stage, card, contribution, lifecycle, handle, hasIntake, attempted, intake,
                   calledBack>>

\* Mutant of WithdrawConfirmed: complete although a store is still owed.
WithdrawConfirmedEarly ==
    /\ calling = "withdraw"
    /\ IntakeLetsGo
    /\ attempted' = FALSE /\ pendingFlag' = FALSE
    /\ handle' = NoVersion /\ retryVersion' = NoVersion
    /\ receipted' = receipted \cup {contribution}
    /\ calling' = "none"
    /\ UNCHANGED <<lifecycleVars, stage, card, contribution, lifecycle, hasIntake, calledBack>>

WithdrawConfirmed ==
    /\ calling = "withdraw"
    /\ IntakeLetsGo
    /\ attempted' = FALSE
    /\ pendingFlag' = Owes(contribution)
    /\ IF Owes(contribution)
       THEN UNCHANGED <<handle, retryVersion, receipted>>
       ELSE /\ handle' = NoVersion /\ retryVersion' = NoVersion
            /\ receipted' = receipted \cup {contribution}
    /\ calling' = "none"
    /\ UNCHANGED <<lifecycleVars, stage, card, contribution, lifecycle, hasIntake, calledBack>>

WithdrawUnconfirmed ==
    /\ calling = "withdraw"
    /\ IntakeSilent
    /\ pendingFlag' = TRUE
    /\ calling' = "none"
    /\ UNCHANGED <<lifecycleVars, stage, card, authority, attempted, receipted, calledBack>>

--------------------------------------------------------------------------------

(* The end of a retry: a store still owed makes it raise, else it reports the *)
(* withdrawal complete and drops every reference - whether or not there was a *)
(* withdrawal to complete.                                                    *)
StillOwed == retryVersion # NoVersion /\ pending'[retryVersion] # {}
retryVars == <<handle, hasIntake, lifecycle, retryVersion, pendingFlag, receipted, calledBack>>

Receipt ==
    IF StillOwed \/ handle = NoVersion
    THEN UNCHANGED retryVars
    ELSE /\ IF retryVersion # NoVersion
            THEN receipted' = receipted \cup {handle} /\ UNCHANGED calledBack
            ELSE calledBack' = calledBack \cup {handle} /\ UNCHANGED receipted
         /\ pendingFlag' = FALSE
         /\ handle' = NoVersion /\ lifecycle' = NoVersion /\ retryVersion' = NoVersion
         /\ hasIntake' = FALSE

\* Mutant of RetryStores: only the intake is asked again.
RetryIntakeOnly == UNCHANGED lifecycleVars

RetryStores ==
    IF lifecycle # NoVersion /\ Owes(retryVersion)
    THEN Lifecycle!RetryPendingWithdrawals(retryVersion)
    ELSE UNCHANGED lifecycleVars

(* retry_pending_withdrawal, at any stage, straight after the submission too: *)
(* the owed stores first, then the intake if it may still hold the bytes.     *)
RetryPendingWithdrawal ==
    /\ calling = "none" /\ pendingFlag
    /\ RetryStores
    /\ IF attempted
       THEN /\ hasIntake /\ handle # NoVersion
            /\ calling' = "retry"
            /\ UNCHANGED retryVars
       ELSE calling' = "none" /\ Receipt
    /\ UNCHANGED <<stage, card, contribution, attempted, intake>>

RetryConfirmed ==
    /\ calling = "retry"
    /\ IntakeLetsGo
    /\ attempted' = FALSE
    /\ calling' = "none"
    /\ UNCHANGED <<lifecycleVars, stage, card, contribution>>
    /\ Receipt

RetryUnconfirmed ==
    /\ calling = "retry"
    /\ IntakeSilent
    /\ calling' = "none"
    /\ UNCHANGED <<lifecycleVars, stage, card, authority, attempted, pendingFlag, receipted,
                   calledBack>>

--------------------------------------------------------------------------------

(* The end of close: only what a retry needs outlives the session. *)
Clear ==
    /\ stage' = "closed" /\ calling' = "none"
    /\ contribution' = NoVersion
    /\ IF pendingFlag'
       THEN UNCHANGED <<hasIntake, lifecycle, handle>>
       ELSE hasIntake' = FALSE /\ lifecycle' = NoVersion /\ handle' = NoVersion

\* Mutant of Close: what the stores still owe is not counted as pending.
CloseForgetsStores ==
    /\ stage # "closed" /\ calling = "none"
    /\ ~ attempted \/ lifecycle = NoVersion
    /\ IF contribution # NoVersion /\ lifecycle # NoVersion
       THEN WithdrawLocally(contribution)
       ELSE UNCHANGED lifecycleVars
    /\ pendingFlag' = pendingFlag
    /\ retryVersion' = IF pendingFlag THEN retryVersion ELSE NoVersion
    /\ Clear
    /\ UNCHANGED <<card, attempted, outside>>

(* Closed with nothing to withdraw, or nothing to tell the intake. *)
Close ==
    /\ stage # "closed" /\ calling = "none"
    /\ ~ attempted \/ lifecycle = NoVersion
    /\ IF contribution # NoVersion /\ lifecycle # NoVersion
       THEN /\ WithdrawLocally(contribution)
            /\ pendingFlag' = (pendingFlag \/ pending'[contribution] # {})
            /\ retryVersion' = IF pendingFlag' THEN contribution ELSE NoVersion
       ELSE /\ pendingFlag' = pendingFlag
            /\ retryVersion' = IF pendingFlag THEN retryVersion ELSE NoVersion
            /\ UNCHANGED lifecycleVars
    /\ Clear
    /\ UNCHANGED <<card, attempted, outside>>

(* The intake may hold the bytes: it is asked to let go first. *)
CloseSubmitted ==
    /\ stage # "closed" /\ calling = "none"
    /\ attempted /\ contribution # NoVersion /\ lifecycle # NoVersion
    /\ hasIntake /\ handle # NoVersion
    /\ WithdrawLocally(contribution)
    /\ retryVersion' = contribution
    /\ calling' = "close"
    /\ UNCHANGED <<stage, card, contribution, lifecycle, handle, hasIntake, attempted,
                   pendingFlag, outside>>

CloseConfirmed ==
    /\ calling = "close"
    /\ IntakeLetsGo
    /\ attempted' = FALSE
    /\ pendingFlag' = Owes(contribution)
    /\ retryVersion' = IF pendingFlag' THEN contribution ELSE NoVersion
    /\ Clear
    /\ UNCHANGED <<lifecycleVars, card, receipted, calledBack>>

\* Mutant of CloseUnconfirmed: asking the intake is taken for its answer.
CloseTrustsSilence ==
    /\ calling = "close"
    /\ IntakeSilent
    /\ pendingFlag' = Owes(contribution)
    /\ Clear
    /\ UNCHANGED <<lifecycleVars, card, retryVersion, attempted, receipted, calledBack>>

CloseUnconfirmed ==
    /\ calling = "close"
    /\ IntakeSilent
    /\ pendingFlag' = TRUE
    /\ Clear
    /\ UNCHANGED <<lifecycleVars, card, retryVersion, attempted, receipted, calledBack>>

--------------------------------------------------------------------------------

Submission == SubmitContribution \/ SubmitWithdraws \/ SubmitBreaks \/ IntakeAccepts \/ IntakeUnconfirmed
Withdrawal == WithdrawContribution \/ WithdrawConfirmed \/ WithdrawUnconfirmed
Retry == RetryPendingWithdrawal \/ RetryConfirmed \/ RetryUnconfirmed
Closing == Close \/ CloseSubmitted \/ CloseConfirmed \/ CloseUnconfirmed

Next ==
    \/ ConfigureContribution \/ Proceed \/ ApproveContribution \/ EditContribution
    \/ Submission \/ Withdrawal \/ Retry \/ Closing

Spec == Init /\ [][Next]_vars

(* A handler waiting for the intake gets an answer or an error; after the     *)
(* close someone keeps retrying, and the intake and the stores come back.     *)
FairSpec ==
    /\ Spec
    /\ WF_vars(calling # "none" /\ Next)
    /\ WF_vars(RetryPendingWithdrawal)
    /\ SF_vars(RetryPendingWithdrawal /\ ~ StillOwed)
    /\ SF_vars(RetryConfirmed)

--------------------------------------------------------------------------------

CanUse(s, v) == Lifecycle!CanUse(s, v)

(* While the intake may hold a version's bytes, the journey keeps what it     *)
(* takes to revoke them: the handle, the port and the fact that it sent them. *)
IntakeNeverOrphaned ==
    \A v \in Version : intake[v] = "held" => handle = v /\ hasIntake /\ attempted

(* Closing recalls the card on the table, its earlier versions aside: a copy  *)
(* of it still in use belongs to a store the retry will ask again.  Not so if *)
(* a retry came before any withdrawal: it dropped the lifecycle, and with it  *)
(* what a withdrawal or the close would recall the card through.              *)
CardIsRecalled ==
    stage = "closed" /\ card \notin calledBack =>
        \A s \in Store : CanUse(s, card) =>
            pendingFlag /\ lifecycle = card /\ retryVersion = card /\ s \in pending[card]

(* A version reported withdrawn is not at the intake, and once it was         *)
(* withdrawn here, by the person or by the close, it has no consent left and  *)
(* no store has it in use.  A retry called before that reports the same of a  *)
(* version still consented to and in use: only the intake's half is claimed.  *)
ReportedIsRecalled ==
    /\ \A v \in receipted \cup calledBack : intake[v] # "held"
    /\ \A v \in receipted : ledger[v] = "withdrawn" /\ \A s \in Store : ~ CanUse(s, v)

(* After the close, the intake lets go of every version and the stores are    *)
(* recalled from the card's, once they answer.                                *)
ClosedSettles ==
    stage = "closed" ~> /\ ~ pendingFlag
                        /\ \A v \in Version : intake[v] # "held"
                        /\ card \notin calledBack => \A s \in Store : ~ CanUse(s, card)
================================================================================
