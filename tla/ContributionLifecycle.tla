------------------------- MODULE ContributionLifecycle -------------------------
(* Consent, review and withdrawal of contributed Card versions                *)
(* (contribution/lifecycle.py and contribution/consent.py): a ledger of       *)
(* per-version consent, contributions moving through review, and the          *)
(* controlled stores their copies are put in.                                 *)
(*                                                                            *)
(* The stores are ports the service calls one after the other; any call may   *)
(* raise.  Card content, reasons and audit lines are left out.  A store that  *)
(* is not recallable (the shipped core release) is skipped by every loop that *)
(* writes or recalls, so Store is the set of recallable ones.                 *)
EXTENDS FiniteSets

CONSTANTS
    Version,        \* immutable Card versions
    Contribution,   \* Contribution objects
    CardOf,         \* the version each of them envelopes
    Store,          \* controlled, recallable stores
    Grants,         \* the permission sets a contributor may grant
    CanFail         \* the store operations that may raise

Permission == {"review", "storage", "moderation", "attribution", "reuse", "distribution"}
StoreOperation == {"put", "withdraw", "quarantine"}

ASSUME LifecycleAssumption ==
    /\ CardOf \in [Contribution -> Version]
    /\ Grants \subseteq SUBSET Permission
    /\ CanFail \subseteq StoreOperation

VARIABLES
    ledger,         \* ConsentLedger: the consent recorded for each version
    permissions,    \* what that consent granted
    state,          \* the state of each contribution, "none" before its draft
    payloads,       \* the versions each store has a copy of
    withdrawn,      \* the versions each store has been told are withdrawn
    quarantined,    \* the versions each store has put out of use
    pending         \* stores whose withdrawal and quarantine both failed

consentVars == <<ledger, permissions>>
storeVars == <<payloads, withdrawn, quarantined>>
lifecycleVars == <<ledger, permissions, state, payloads, withdrawn, quarantined, pending>>

Consent == {"none", "granted", "withdrawn"}
ContributionState == {"draft", "submitted", "quarantined", "changes_requested",
                      "rejected", "reviewed", "eligible", "withdrawn"}

TypeOK ==
    /\ ledger \in [Version -> Consent]
    /\ permissions \in [Version -> SUBSET Permission]
    /\ state \in [Contribution -> ContributionState \cup {"none"}]
    /\ payloads \in [Store -> SUBSET Version]
    /\ withdrawn \in [Store -> SUBSET Version]
    /\ quarantined \in [Store -> SUBSET Version]
    /\ pending \in [Version -> SUBSET Store]

Init ==
    /\ ledger = [v \in Version |-> "none"]
    /\ permissions = [v \in Version |-> {}]
    /\ state = [c \in Contribution |-> "none"]
    /\ payloads = [s \in Store |-> {}]
    /\ withdrawn = [s \in Store |-> {}]
    /\ quarantined = [s \in Store |-> {}]
    /\ pending = [v \in Version |-> {}]

--------------------------------------------------------------------------------

(* The transition table. *)
Allowed(from) ==
    CASE from = "draft"       -> {"submitted", "withdrawn"}
      [] from = "submitted"   -> {"quarantined", "reviewed", "changes_requested",
                                  "rejected", "withdrawn"}
      [] from = "quarantined" -> {"submitted", "rejected", "withdrawn"}
      [] from = "reviewed"    -> {"eligible", "withdrawn"}
      [] from \in {"changes_requested", "rejected", "eligible"} -> {"withdrawn"}
      [] OTHER -> {}

Transition(c, target) ==
    /\ target \in Allowed(state[c])
    /\ state' = [state EXCEPT ![c] = target]

CanUse(s, v) == v \in payloads[s] \ (withdrawn[s] \cup quarantined[s])

(* The stores that raise in one pass of an operation over them. *)
Failing(operation) == IF operation \in CanFail THEN SUBSET Store ELSE {{}}

(* Every store in the target set is asked to withdraw; one that raises is     *)
(* asked to quarantine; one that raises both times keeps its copy in use.     *)
Owed(target, noWithdraw, noQuarantine) == target \cap noWithdraw \cap noQuarantine

Recall(v, target, noWithdraw, noQuarantine) ==
    LET told == target \ noWithdraw
        barred == (target \cap noWithdraw) \ noQuarantine
    IN  /\ withdrawn' = [s \in Store |->
               IF s \in told THEN withdrawn[s] \cup {v} ELSE withdrawn[s]]
        /\ quarantined' = [s \in Store |->
               IF s \in barred THEN quarantined[s] \cup {v} ELSE quarantined[s]]
        /\ payloads' = [s \in Store |->
               IF s \in told \cup barred THEN payloads[s] \ {v} ELSE payloads[s]]

(* A store already owed stays owed: only a retry clears it. *)
PropagateWithdrawal(v) ==
    \E noWithdraw \in Failing("withdraw"), noQuarantine \in Failing("quarantine") :
        /\ Recall(v, Store, noWithdraw, noQuarantine)
        /\ pending' = [pending EXCEPT ![v] = @ \cup Owed(Store, noWithdraw, noQuarantine)]

(* InMemoryStore.put: a store told of the withdrawal takes no copy. *)
PutIn(targets, v) ==
    payloads' = [s \in Store |->
        IF s \in targets /\ v \notin withdrawn[s] THEN payloads[s] \cup {v} ELSE payloads[s]]

--------------------------------------------------------------------------------

(* ConsentLedger.grant: once per version, never after a withdrawal. *)
Grant(v) ==
    /\ ledger[v] = "none"
    /\ \E granted \in Grants : permissions' = [permissions EXCEPT ![v] = granted]
    /\ ledger' = [ledger EXCEPT ![v] = "granted"]
    /\ UNCHANGED <<state, payloads, withdrawn, quarantined, pending>>

(* ConsentLedger.withdraw, called on the ledger alone. *)
WithdrawConsent(v) ==
    /\ ledger[v] # "withdrawn"
    /\ ledger' = [ledger EXCEPT ![v] = "withdrawn"]
    /\ UNCHANGED <<permissions, state, payloads, withdrawn, quarantined, pending>>

Draft(c) ==
    /\ state[c] = "none"
    /\ ledger[CardOf[c]] = "granted"
    /\ state' = [state EXCEPT ![c] = "draft"]
    /\ UNCHANGED <<consentVars, storeVars, pending>>

Active(c) == state[c] \notin {"none", "withdrawn"}

Granted(c, wanted) ==
    /\ ledger[CardOf[c]] = "granted"
    /\ wanted \subseteq permissions[CardOf[c]]

RevokeAndWithdraw(c) ==
    /\ ledger' = [ledger EXCEPT ![CardOf[c]] = "withdrawn"]
    /\ Transition(c, "withdrawn")
    /\ PropagateWithdrawal(CardOf[c])
    /\ UNCHANGED permissions

(* _require_active_consent: any handler that finds the consent gone withdraws *)
(* the contribution before it raises.                                         *)
ConsentLapsed(c) ==
    /\ Active(c)
    /\ ledger[CardOf[c]] # "granted"
    /\ RevokeAndWithdraw(c)

(* submit without the review permission, or with an unresolvable set (which   *)
(* takes the same branch): the contribution is withdrawn, not submitted.      *)
SubmitUnreviewable(c) ==
    /\ Active(c)
    /\ ledger[CardOf[c]] = "granted"
    /\ "review" \notin permissions[CardOf[c]]
    /\ RevokeAndWithdraw(c)

Submit(c) ==
    /\ Granted(c, {"review"})
    /\ Transition(c, "submitted")
    /\ PutIn(IF "storage" \in permissions[CardOf[c]] THEN Store ELSE {}, CardOf[c])
    /\ UNCHANGED <<consentVars, withdrawn, quarantined, pending>>

(* A put raises after some stores were written; the transition stands. *)
SubmitPutFails(c) ==
    /\ "put" \in CanFail
    /\ Granted(c, {"review", "storage"})
    /\ Transition(c, "submitted")
    /\ \E written \in SUBSET Store : PutIn(written, CardOf[c])
    /\ UNCHANGED <<consentVars, withdrawn, quarantined, pending>>

(* A store that raises keeps its copy in use; nothing is owed for it. *)
Quarantine(c) ==
    /\ Granted(c, {})
    /\ Transition(c, "quarantined")
    /\ \E noQuarantine \in Failing("quarantine") :
           Recall(CardOf[c], Store, Store, noQuarantine)
    /\ UNCHANGED <<consentVars, pending>>

(* The decisions below rest on a moderation attestation, read through the     *)
(* trust port: it may be refused at any time, and then nothing changes.       *)
MarkReviewed(c) ==
    /\ Granted(c, {"moderation"})
    /\ Transition(c, "reviewed")
    /\ UNCHANGED <<consentVars, storeVars, pending>>

RequestChanges(c) ==
    /\ Granted(c, {})
    /\ Transition(c, "changes_requested")
    /\ UNCHANGED <<consentVars, storeVars, pending>>

Reject(c) ==
    /\ Granted(c, {})
    /\ Transition(c, "rejected")
    /\ UNCHANGED <<consentVars, storeVars, pending>>

MarkEligible(c) ==
    /\ Granted(c, {"reuse", "distribution"})
    /\ Transition(c, "eligible")
    /\ UNCHANGED <<consentVars, storeVars, pending>>

Withdraw(c) ==
    /\ Active(c)
    /\ RevokeAndWithdraw(c)

\* Mutant of RetryPendingWithdrawals: the popped list is not put back.
RetryForgets(v) ==
    /\ pending[v] # {}
    /\ \E noWithdraw \in Failing("withdraw"), noQuarantine \in Failing("quarantine") :
           /\ Recall(v, pending[v], noWithdraw, noQuarantine)
           /\ pending' = [pending EXCEPT ![v] = {}]
    /\ UNCHANGED <<consentVars, state>>

RetryPendingWithdrawals(v) ==
    /\ pending[v] # {}
    /\ \E noWithdraw \in Failing("withdraw"), noQuarantine \in Failing("quarantine") :
           /\ Recall(v, pending[v], noWithdraw, noQuarantine)
           /\ pending' = [pending EXCEPT ![v] = Owed(@, noWithdraw, noQuarantine)]
    /\ UNCHANGED <<consentVars, state>>

--------------------------------------------------------------------------------

Review(c) == MarkReviewed(c) \/ RequestChanges(c) \/ Reject(c) \/ MarkEligible(c)

Unreviewed ==
    \/ \E v \in Version : Grant(v) \/ WithdrawConsent(v) \/ RetryPendingWithdrawals(v)
    \/ \E c \in Contribution :
          \/ Draft(c) \/ Submit(c) \/ SubmitPutFails(c) \/ SubmitUnreviewable(c)
          \/ ConsentLapsed(c) \/ Quarantine(c) \/ Withdraw(c)

Next == Unreviewed \/ \E c \in Contribution : Review(c)

Spec == Init /\ [][Next]_lifecycleVars

(* Someone keeps calling the explicit retry, and not every retry finds every  *)
(* owed store broken both ways.                                               *)
RetrySettles(v) == RetryPendingWithdrawals(v) /\ pending'[v] = {}

FairSpec == Spec /\ \A v \in Version : WF_lifecycleVars(RetrySettles(v))

--------------------------------------------------------------------------------

(* Once a contribution is withdrawn, no store has its version in use, except  *)
(* a store the service still owes a withdrawal - whichever contribution, or   *)
(* the ledger, withdrew it, and whatever failed on the way.                   *)
WithdrawnIsRecalled ==
    \A c \in Contribution, s \in Store :
        state[c] = "withdrawn" /\ CanUse(s, CardOf[c]) => s \in pending[CardOf[c]]

(* What is in use or on offer rests on the permissions of its own version: a  *)
(* copy on review and storage, an eligible contribution on the permission     *)
(* each of its three steps needed.                                            *)
UseWasPermitted ==
    /\ \A v \in Version, s \in Store : CanUse(s, v) => {"review", "storage"} \subseteq permissions[v]
    /\ \A c \in Contribution : state[c] = "eligible" =>
           {"review", "moderation", "reuse", "distribution"} \subseteq permissions[CardOf[c]]

(* Withdrawn consent is final: from then on no store gets the version back    *)
(* into use and no contribution of it moves towards use again.                *)
NoNewUse ==
    [][\A v \in Version : ledger[v] = "withdrawn" =>
          /\ ledger'[v] = "withdrawn"
          /\ \A s \in Store : CanUse(s, v)' => CanUse(s, v)
          /\ \A c \in Contribution : CardOf[c] = v /\ state'[c] # state[c] =>
                 state'[c] = "withdrawn"]_lifecycleVars

(* With someone retrying and stores that come back, a withdrawn version ends  *)
(* up in use nowhere.                                                         *)
WithdrawalSettles ==
    \A c \in Contribution :
        state[c] = "withdrawn" ~> \A s \in Store : ~ CanUse(s, CardOf[c])

================================================================================
