------------------------ MODULE AdaptationTransaction ------------------------
(***************************************************************************)
(* The journaled create-only transaction engine of                        *)
(* capability_exchange/adaptation: TransactionEngine with the recovery     *)
(* points, approvals, outcome evidence and receipts it drives.             *)
(*                                                                         *)
(* A call (prepare_recovery, execute, undo) is cut at every point where    *)
(* the process can die between two durable effects, so each file write,    *)
(* rename, create-only open and unlink is a step of its own.  The disk     *)
(* survives a crash; the engine, its approval authority and what the       *)
(* caller holds do not.  The engine is single-threaded: one call runs at a *)
(* time, while the owner of the machine edits the target at will.          *)
(***************************************************************************)

EXTENDS TargetFile, Naturals

CONSTANTS
  Token,        \* approval tokens the authority can draw (bounds the tokens)
  NoToken,      \* no approval
  Stamp,        \* values of the caller's clock (bounds time)
  Drill,        \* previews of the isolated recovery drill
  Declared,     \* previews whose Success Contract declares the signal passed
  Editor,       \* how the owner edits targets: "never", "betweenSteps", or
                \* "racing", also between a byte check and its unlink
  IOFaults,     \* may a file operation raise OSError?
  Tampering     \* may manifests and receipts be damaged or erased?

ASSUME EngineAssumption ==
  /\ NoToken \notin Token
  /\ Stamp \subseteq Nat \ {0}
  /\ Drill \subseteq Transaction
  /\ Declared \subseteq Transaction
  /\ Editor \in {"never", "betweenSteps", "racing"}
  /\ {IOFaults, Tampering} \subseteq BOOLEAN

VARIABLES
  \* On disk.
  file,        \* the target paths
  manifest,    \* recovery-<id>.json
  journal,     \* state field of transaction-<id>.json
  receiptRef,  \* is the journal's receipt_path filled in?
  approvalOf,  \* the journal's approval_id
  receipt,     \* receipt-<id>.json
  evidence,    \* does outcome-<digest>.json exist?
  \* In the session.
  hardStop,    \* TransactionEngine._hard_stopped
  proof,       \* does the caller hold the RecoveryPoint it prepared?
  approval,    \* the authority's records and consumed set
  \* In the running call.
  pc, tx, tok, now, verdict,
  result       \* what the last call returned or raised

disk    == <<file, manifest, journal, receiptRef, approvalOf, receipt, evidence>>
session == <<hardStop, proof, approval>>
call    == <<pc, tx, tok, now, verdict, result>>
vars    == <<disk, session, call>>

JournalState == {"recoveryReady", "applying", "applied", "verified",
                 "hardStopped", "rolledBack", "undone"}
Completed == {"verified", "hardStopped", "undone"}
InFlight  == {"recoveryReady", "applying", "applied"}

Manifest == {"none", "tmp", "valid", "invalid"}
Verdict  == {"working", "partial", "notDemonstrated", "unknown"}
NoVerdict == "none"

NoReceipt      == [status |-> "none", at |-> 0, verdict |-> NoVerdict]
PartialReceipt == [status |-> "partial", at |-> 0, verdict |-> NoVerdict]
Whole(s, v)    == [status |-> "whole", at |-> s, verdict |-> v]
Receipt == {NoReceipt, PartialReceipt} \cup {Whole(s, v) : s \in Stamp, v \in Verdict}

\* A token is drawn at most once; a restart forgets the ones drawn so far.
Undrawn == [status |-> "undrawn", bound |-> NoToken]
TokenStatus == {"undrawn", "live", "consumed", "forgotten"}
Approval == [status : TokenStatus, bound : Transaction \cup {NoToken}]

ExecuteStep == {"journal", "current", "reconcile", "discard", "open", "firstHalf",
                "secondHalf", "commit", "verify", "receipt", "receiptBytes",
                "terminal", "restore", "restoreUnlink", "rollback"}
UndoStep == {"undoUnlink", "undoJournal"}
Step == {"idle", "manifest"} \cup ExecuteStep \cup UndoStep
Result == {"none", "prepared", "applied", "replayed", "refused", "drift", "conflict",
           "unreadable", "rolledBack", "recoveryFailed", "undone", "alreadyUndone",
           "undoConflict", "error", "crashed"}

Target(t) == file[TargetOf[t]]
SetTarget(t, c) == file' = [file EXCEPT ![TargetOf[t]] = c]

TypeOK ==
  /\ file \in [Path -> Content]
  /\ manifest \in [Transaction -> Manifest]
  /\ journal \in [Transaction -> JournalState \cup {"none"}]
  /\ receiptRef \in [Transaction -> BOOLEAN]
  /\ approvalOf \in [Transaction -> Token \cup {NoToken}]
  /\ receipt \in [Transaction -> Receipt]
  /\ evidence \in [Transaction -> BOOLEAN]
  /\ hardStop \in BOOLEAN
  /\ proof \in [Transaction -> BOOLEAN]
  /\ approval \in [Token -> Approval]
  /\ pc \in Step /\ tx \in Transaction /\ tok \in Token \cup {NoToken}
  /\ now \in Stamp \cup {0} /\ verdict \in Verdict \cup {NoVerdict}
  /\ result \in Result

Init ==
  /\ file = [p \in Path |-> Absent]
  /\ manifest = [t \in Transaction |-> "none"]
  /\ journal = [t \in Transaction |-> "none"]
  /\ receiptRef = [t \in Transaction |-> FALSE]
  /\ approvalOf = [t \in Transaction |-> NoToken]
  /\ receipt = [t \in Transaction |-> NoReceipt]
  /\ evidence = [t \in Transaction |-> FALSE]
  /\ hardStop = FALSE
  /\ proof = [t \in Transaction |-> FALSE]
  /\ approval = [k \in Token |-> Undrawn]
  /\ pc = "idle" /\ tx \in Transaction /\ tok = NoToken /\ now = 0
  /\ verdict = NoVerdict /\ result = "none"

-----------------------------------------------------------------------------
(* The control of one call. *)

Enter(step, t, k, s) ==
  /\ pc = "idle"
  /\ pc' = step /\ tx' = t /\ tok' = k /\ now' = s
  /\ verdict' = NoVerdict /\ result' = "none"

At(step) == pc = step

Goto(step) == pc' = step /\ UNCHANGED <<tx, tok, now, verdict, result>>

Return(r) == /\ pc' = "idle" /\ tok' = NoToken /\ now' = 0
             /\ verdict' = NoVerdict /\ result' = r
             /\ UNCHANGED tx

\* A call that ends on its first look, having changed nothing on disk.
Answer(t, r) == /\ pc = "idle" /\ tx' = t /\ result' = r
                /\ UNCHANGED <<disk, pc, tok, now, verdict>>

HardStop == hardStop' = TRUE /\ UNCHANGED <<proof, approval>>

\* Conflicts and failed recoveries stop the session's automation.
StopWith(r) == Return(r) /\ HardStop /\ UNCHANGED disk
AnswerStop(t, r) == Answer(t, r) /\ HardStop

Advance(state) == /\ journal' = [journal EXCEPT ![tx] = state]
                  /\ UNCHANGED <<manifest, approvalOf, receipt, evidence>>

-----------------------------------------------------------------------------
(* prepare_recovery: create_recovery_point opens the .tmp create-only,     *)
(* renames it over the manifest and reads it back.                         *)

PrepareRefused(t) ==
  /\ hardStop \/ Target(t) # Absent \/ manifest[t] # "none" \/ IOFaults
  /\ Answer(t, "refused")
  /\ UNCHANGED session

Prepare(t) ==
  /\ ~hardStop
  /\ Target(t) = Absent
  /\ manifest[t] = "none"
  /\ Enter("manifest", t, NoToken, 0)
  /\ manifest' = [manifest EXCEPT ![t] = "tmp"]
  /\ UNCHANGED <<file, journal, receiptRef, approvalOf, receipt, evidence, session>>

\* The read-back requires the target to be absent still.
FinishPrepare ==
  /\ At("manifest")
  /\ manifest' = [manifest EXCEPT ![tx] = "valid"]
  /\ \/ /\ Target(tx) = Absent
        /\ proof' = [proof EXCEPT ![tx] = TRUE]
        /\ Return("prepared")
     \/ /\ Target(tx) # Absent
        /\ UNCHANGED proof
        /\ Return("refused")
  /\ UNCHANGED <<file, journal, receiptRef, approvalOf, receipt, evidence,
                 hardStop, approval>>

\* ApprovalAuthority.issue
Issue(t, k) ==
  /\ pc = "idle"
  /\ approval[k] = Undrawn
  /\ approval' = [approval EXCEPT ![k] = [status |-> "live", bound |-> t]]
  /\ UNCHANGED <<disk, hardStop, proof, call>>

-----------------------------------------------------------------------------
(* execute: what it does before it mutates anything.                       *)

\* Mutant of ExecuteReplay: an undone transaction answers without a receipt.
ReplayWithoutReceipt(t) ==
  /\ journal[t] \in Completed
  /\ Answer(t, "replayed")
  /\ hardStop' = (hardStop \/ journal[t] = "hardStopped")
  /\ UNCHANGED <<proof, approval>>

\* A completed transaction answers from its receipt.
ExecuteReplay(t) ==
  /\ journal[t] \in Completed /\ receiptRef[t] /\ receipt[t].status = "whole"
  /\ Answer(t, "replayed")
  /\ hardStop' = (hardStop \/ journal[t] = "hardStopped")
  /\ UNCHANGED <<proof, approval>>

\* ... unless the journal names no receipt, or one that cannot be read.
ExecuteBroken(t) ==
  /\ journal[t] \in Completed
  /\ \/ ~receiptRef[t] /\ AnswerStop(t, "conflict")
     \/ receiptRef[t] /\ receipt[t].status # "whole" /\ AnswerStop(t, "unreadable")

\* A rolled-back transaction is not retried, a hard-stopped session resumes
\* nothing, and without a journal a missing proof or an unknown, expired,
\* replayed or misdirected token refuses before anything is consumed.
ExecuteRefused(t) ==
  /\ \/ journal[t] \in {"none", "rolledBack"}
     \/ journal[t] \in InFlight /\ hardStop
  /\ Answer(t, "refused")
  /\ UNCHANGED session

\* Mutant of ExecuteFresh: the token is checked and not spent.
FreshWithoutSpending(t, k, s) ==
  /\ journal[t] = "none" /\ ~hardStop
  /\ proof[t] /\ manifest[t] = "valid" /\ Target(t) = Absent
  /\ approval[k] = [status |-> "live", bound |-> t]
  /\ Enter("journal", t, k, s)
  /\ UNCHANGED <<disk, session>>

\* A first execution proves the recovery point again, then spends the token.
ExecuteFresh(t, k, s) ==
  /\ journal[t] = "none" /\ ~hardStop
  /\ proof[t] /\ manifest[t] = "valid" /\ Target(t) = Absent
  /\ approval[k] = [status |-> "live", bound |-> t]
  /\ approval' = [approval EXCEPT ![k].status = "consumed"]
  /\ Enter("journal", t, k, s)
  /\ UNCHANGED <<disk, hardStop, proof>>

WriteJournal ==
  /\ At("journal")
  /\ journal' = [journal EXCEPT ![tx] = "recoveryReady"]
  /\ receiptRef' = [receiptRef EXCEPT ![tx] = FALSE]
  /\ approvalOf' = [approvalOf EXCEPT ![tx] = tok]
  /\ Goto("current")
  /\ UNCHANGED <<file, manifest, receipt, evidence, session>>

\* An interrupted transaction resumes where its journal says, with no token.
ExecuteResume(t, s) ==
  /\ journal[t] \in InFlight /\ ~hardStop
  /\ Enter(CASE journal[t] = "recoveryReady" -> "current"
             [] journal[t] = "applying" -> "reconcile"
             [] journal[t] = "applied" -> "verify", t, NoToken, s)
  /\ UNCHANGED <<disk, session>>

-----------------------------------------------------------------------------
(* _apply_or_reconcile *)

CheckCurrent ==
  /\ At("current")
  /\ Target(tx) = Absent
  /\ Advance("applying") /\ Goto("reconcile")
  /\ UNCHANGED <<file, receiptRef, session>>

\* PreviewDriftError: the journal stays where it is.
CheckDrifted ==
  /\ At("current")
  /\ Target(tx) # Absent
  /\ Return("drift")
  /\ UNCHANGED <<disk, session>>

\* The target tells how far an earlier run got.
ReconcileAbsent  == /\ At("reconcile") /\ Target(tx) = Absent
                    /\ Goto("open") /\ UNCHANGED <<disk, session>>
ReconcilePartial == /\ At("reconcile") /\ Target(tx) = Half(BodyOf[tx])
                    /\ Goto("discard") /\ UNCHANGED <<disk, session>>
ReconcileDone    == /\ At("reconcile") /\ Target(tx) = Full(BodyOf[tx])
                    /\ Advance("applied") /\ Goto("verify")
                    /\ UNCHANGED <<file, receiptRef, session>>
ReconcileConflict ==
  /\ At("reconcile")
  /\ Target(tx) \notin {Absent, Half(BodyOf[tx]), Full(BodyOf[tx])}
  /\ StopWith("conflict")

\* An unlink removes whatever is at the path by then; of nothing, it raises.
Unlink(next) ==
  /\ SetTarget(tx, Absent)
  /\ IF Target(tx) = Absent THEN Return("error") ELSE Goto(next)
  /\ UNCHANGED <<manifest, journal, receiptRef, approvalOf, receipt, evidence, session>>

DiscardPartial == At("discard") /\ Unlink("open")

\* Mutant of OpenTarget: opened for writing, not create-only.
OpenTruncating ==
  /\ At("open")
  /\ SetTarget(tx, Empty) /\ Goto("firstHalf")
  /\ UNCHANGED <<manifest, journal, receiptRef, approvalOf, receipt, evidence, session>>

\* Create-only: a file that appeared meanwhile raises FileExistsError.
OpenTarget ==
  /\ At("open")
  /\ IF Target(tx) = Absent
       THEN SetTarget(tx, Empty) /\ Goto("firstHalf")
       ELSE Return("error") /\ UNCHANGED file
  /\ UNCHANGED <<manifest, journal, receiptRef, approvalOf, receipt, evidence, session>>

\* A write through the open handle shows at the path only while the path
\* still names the file this run created.
WriteHalf(from, before, after, to) ==
  /\ At(from)
  /\ IF Target(tx) = before THEN SetTarget(tx, after) ELSE UNCHANGED file
  /\ Goto(to)
  /\ UNCHANGED <<manifest, journal, receiptRef, approvalOf, receipt, evidence, session>>

WriteFirstHalf  == WriteHalf("firstHalf", Empty, Half(BodyOf[tx]), "secondHalf")
WriteSecondHalf == WriteHalf("secondHalf", Half(BodyOf[tx]), Full(BodyOf[tx]), "commit")

Commit ==
  /\ At("commit")
  /\ Advance("applied") /\ Goto("verify")
  /\ UNCHANGED <<file, receiptRef, session>>

-----------------------------------------------------------------------------
(* Verification, receipt and terminal state. *)

\* What the drill's two checks, exact bytes and heading, can conclude.
Observed(t) ==
  CASE Target(t) = Full(BodyOf[t]) -> {"working"}
    [] Target(t) = Absent          -> {"unknown"}
    [] OTHER                       -> {"partial", "notDemonstrated", "unknown"}

\* verify_created_skill: only the isolated drill runs a procedure, and it
\* persists its evidence create-only, so a second run cannot conclude.
Verify ==
  /\ At("verify")
  /\ \/ /\ tx \notin Declared
        /\ verdict' = "notDemonstrated" /\ UNCHANGED evidence
     \/ /\ tx \in Declared
        /\ tx \notin Drill \/ evidence[tx] \/ IOFaults
        /\ verdict' = "unknown" /\ UNCHANGED evidence
     \/ /\ tx \in Declared \cap Drill /\ ~evidence[tx]
        /\ verdict' \in Observed(tx)
        /\ evidence' = [evidence EXCEPT ![tx] = TRUE]
  /\ pc' = "receipt"
  /\ UNCHANGED <<file, manifest, journal, receiptRef, approvalOf, receipt,
                 session, tx, tok, now, result>>

OpenReceipt ==
  /\ At("receipt")
  /\ receipt[tx].status = "none"
  /\ receipt' = [receipt EXCEPT ![tx] = PartialReceipt]
  /\ Goto("receiptBytes")
  /\ UNCHANGED <<file, manifest, journal, receiptRef, approvalOf, evidence, session>>

WriteReceipt ==
  /\ At("receiptBytes")
  /\ receipt' = [receipt EXCEPT ![tx] = Whole(now, verdict)]
  /\ Goto("terminal")
  /\ UNCHANGED <<file, manifest, journal, receiptRef, approvalOf, evidence, session>>

\* FileExistsError: only a receipt equal to this run's, applied_at included,
\* is adopted; a torn or unreadable one raises out of the call.
ReceiptExists ==
  /\ At("receipt")
  /\ \/ receipt[tx] = Whole(now, verdict) /\ Goto("terminal")
                                          /\ UNCHANGED <<disk, session>>
     \/ /\ receipt[tx].status = "whole" /\ receipt[tx] # Whole(now, verdict)
        /\ StopWith("conflict")
     \/ /\ receipt[tx].status = "partial" \/ (receipt[tx].status = "whole" /\ IOFaults)
        /\ Return("error") /\ UNCHANGED <<disk, session>>

\* The journal takes its final state and the receipt's path; an Unknown
\* verdict stops the session's automation.
Finish ==
  /\ At("terminal")
  /\ LET unknown == verdict = "unknown" IN
       /\ Advance(IF unknown THEN "hardStopped" ELSE "verified")
       /\ hardStop' = (hardStop \/ unknown)
  /\ receiptRef' = [receiptRef EXCEPT ![tx] = TRUE]
  /\ Return("applied")
  /\ UNCHANGED <<file, proof, approval>>

-----------------------------------------------------------------------------
(* Rollback after a receipt that could not be written. *)

ReceiptFails ==
  /\ IOFaults
  /\ At("receipt") \/ At("receiptBytes")
  /\ Goto("restore")
  /\ UNCHANGED <<disk, session>>

\* restore_absent_target takes back the exact applied bytes or nothing.
RestoreUnproven ==
  /\ At("restore")
  /\ \/ manifest[tx] # "valid" \/ IOFaults
     \/ Target(tx) \notin {Absent, Full(BodyOf[tx])}
  /\ StopWith("recoveryFailed")

RestoreCheck ==
  /\ At("restore") /\ manifest[tx] = "valid"
  /\ \/ Target(tx) = Absent /\ Goto("rollback")
     \/ Target(tx) = Full(BodyOf[tx]) /\ Goto("restoreUnlink")
  /\ UNCHANGED <<disk, session>>

RestoreUnlink == At("restoreUnlink") /\ Unlink("rollback")

RolledBack ==
  /\ At("rollback")
  /\ Advance("rolledBack") /\ Return("rolledBack")
  /\ UNCHANGED <<file, receiptRef, session>>

-----------------------------------------------------------------------------
(* undo *)

\* No journal, no valid manifest, or bytes that are not this change's.
UndoRefused(t) ==
  \/ journal[t] = "none" /\ AnswerStop(t, "recoveryFailed")
  \/ /\ journal[t] # "none" /\ ~(journal[t] = "undone" /\ Target(t) = Absent)
     /\ \/ manifest[t] # "valid" /\ AnswerStop(t, "recoveryFailed")
        \/ /\ manifest[t] = "valid"
           /\ Target(t) \notin {Absent, Full(BodyOf[t])} \/ IOFaults
           /\ AnswerStop(t, "undoConflict")

UndoAgain(t) ==
  /\ journal[t] = "undone" /\ Target(t) = Absent
  /\ Answer(t, "alreadyUndone")
  /\ UNCHANGED session

\* Mutants of Undo: the journal is updated with the bytes in place, any bytes
\* are removed, or a hard-stopped session refuses to undo.
UndoUnchecked(t) ==
  /\ journal[t] # "none" /\ manifest[t] = "valid"
  /\ \/ /\ Target(t) = Absent /\ journal[t] # "undone"
        /\ Enter("undoJournal", t, NoToken, 0)
     \/ Target(t) # Absent /\ Enter("undoUnlink", t, NoToken, 0)
  /\ UNCHANGED <<disk, session>>
UndoOnPaper(t) ==
  /\ journal[t] # "none" /\ manifest[t] = "valid"
  /\ Target(t) \in {Absent, Full(BodyOf[t])}
  /\ Enter("undoJournal", t, NoToken, 0)
  /\ UNCHANGED <<disk, session>>
UndoUnlessStopped(t) ==
  /\ journal[t] # "none" /\ manifest[t] = "valid" /\ ~hardStop
  /\ \/ /\ Target(t) = Absent /\ journal[t] # "undone"
        /\ Enter("undoJournal", t, NoToken, 0)
     \/ /\ Target(t) = Full(BodyOf[t])
        /\ Enter("undoUnlink", t, NoToken, 0)
  /\ UNCHANGED <<disk, session>>

Undo(t) ==
  /\ journal[t] # "none" /\ manifest[t] = "valid"
  /\ \/ /\ Target(t) = Absent /\ journal[t] # "undone"
        /\ Enter("undoJournal", t, NoToken, 0)
     \/ /\ Target(t) = Full(BodyOf[t])
        /\ Enter("undoUnlink", t, NoToken, 0)
  /\ UNCHANGED <<disk, session>>

UndoUnlink == At("undoUnlink") /\ Unlink("undoJournal")

\* The receipt path, if any, stays in the journal.
FinishUndo ==
  /\ At("undoJournal")
  /\ Advance("undone") /\ Return("undone")
  /\ UNCHANGED <<file, receiptRef, session>>

-----------------------------------------------------------------------------
(* What happens to the engine. *)

\* The process dies at any point of a call, or between calls, and a new
\* engine with a new authority starts on the same disk.
Crash ==
  /\ hardStop' = FALSE
  /\ proof' = [t \in Transaction |-> FALSE]
  /\ approval' = [k \in Token |->
       IF approval[k] = Undrawn THEN Undrawn
                                ELSE [approval[k] EXCEPT !.status = "forgotten"]]
  /\ Return("crashed")
  /\ UNCHANGED disk

\* An OSError nobody catches ends the call.  At the last step the session
\* was already stopped for an Unknown verdict.
Fault ==
  /\ IOFaults
  /\ pc \notin {"idle", "verify", "receipt", "receiptBytes", "restore"}
  /\ Return("error")
  /\ hardStop' = (hardStop \/ (At("terminal") /\ verdict = "unknown"))
  /\ UNCHANGED <<disk, proof, approval>>

\* The owner replaces or deletes a target between any two steps of the engine,
\* but between a byte check and its unlink only if the editor races.
OwnerEdits(p) ==
  /\ Editor # "never"
  /\ Editor = "racing" \/ pc \notin {"discard", "restoreUnlink", "undoUnlink"}
  /\ \E c \in OwnerContent : file' = [file EXCEPT ![p] = c]
  /\ UNCHANGED <<manifest, journal, receiptRef, approvalOf, receipt, evidence,
                 session, call>>

LoseManifest(t) ==
  /\ Tampering
  /\ manifest[t] = "valid"
  /\ \E m \in {"none", "invalid"} : manifest' = [manifest EXCEPT ![t] = m]
  /\ UNCHANGED <<file, journal, receiptRef, approvalOf, receipt, evidence,
                 session, call>>

LoseReceipt(t) ==
  /\ Tampering
  /\ receipt[t] # NoReceipt /\ pc # "receiptBytes"
  /\ receipt' = [receipt EXCEPT ![t] = NoReceipt]
  /\ UNCHANGED <<file, manifest, journal, receiptRef, approvalOf, evidence,
                 session, call>>

-----------------------------------------------------------------------------
Begin(t) ==
  \/ PrepareRefused(t) \/ Prepare(t)
  \/ ExecuteReplay(t) \/ ExecuteBroken(t) \/ ExecuteRefused(t)
  \/ \E s \in Stamp : ExecuteResume(t, s) \/ \E k \in Token : ExecuteFresh(t, k, s)
  \/ UndoRefused(t) \/ UndoAgain(t) \/ Undo(t)

Continue ==
  \/ FinishPrepare \/ WriteJournal
  \/ CheckCurrent \/ CheckDrifted
  \/ ReconcileAbsent \/ ReconcilePartial \/ ReconcileDone \/ ReconcileConflict
  \/ DiscardPartial \/ OpenTarget \/ WriteFirstHalf \/ WriteSecondHalf \/ Commit
  \/ Verify \/ OpenReceipt \/ WriteReceipt \/ ReceiptExists \/ Finish
  \/ ReceiptFails \/ RestoreUnproven \/ RestoreCheck \/ RestoreUnlink \/ RolledBack
  \/ UndoUnlink \/ FinishUndo

Engine == Continue \/ (\E t \in Transaction : Begin(t))

Environment ==
  \/ Crash \/ Fault
  \/ \E t \in Transaction : \/ LoseManifest(t) \/ LoseReceipt(t)
                           \/ \E k \in Token : Issue(t, k)
  \/ \E p \in Path : OwnerEdits(p)

Next == Engine \/ Environment

Spec == Init /\ [][Next]_vars

\* A call that runs is scheduled until it ends.
FairSpec == Spec /\ WF_vars(Continue)

\* ... and the owner who wants a change gone keeps asking for it.
RetryingOwner ==
  FairSpec /\ \A t \in Transaction : SF_vars(Undo(t) \/ UndoRefused(t) \/ UndoAgain(t))

-----------------------------------------------------------------------------
(* Safety. *)

OwnBytes(t) == {Half(BodyOf[t]), Full(BodyOf[t])}

\* Consent: bytes of a preview are on disk only if a journal of that preview
\* records an approval that was issued for it and is spent, also after any
\* number of crashes (execute consumes before it journals, and journals
\* before it opens the target).
BytesWereApproved ==
  \A p \in Path : file[p] \notin {Absent, Empty, Foreign} =>
    \E t \in Transaction :
      /\ TargetOf[t] = p /\ file[p] \in OwnBytes(t)
      /\ journal[t] # "none" /\ approvalOf[t] \in Token
      /\ approval[approvalOf[t]].bound = t
      /\ approval[approvalOf[t]].status \in {"consumed", "forgotten"}

\* T3, single use: no two transactions ever ran on one approval, replayed,
\* resumed or interrupted between consumption and journal as they may be.
OneApprovalOneChange ==
  \A t, u \in Transaction :
    approvalOf[t] = approvalOf[u] /\ approvalOf[t] # NoToken => t = u

\* T6: a transaction the journal calls finished has a complete receipt with
\* the verdict that finished it, whichever runs wrote the receipt and the
\* journal (the receipt adopted on FileExistsError included).
FinishedIsReceipted ==
  ~Tampering =>
    \A t \in Transaction : journal[t] \in {"verified", "hardStopped"} =>
      /\ receiptRef[t] /\ receipt[t].status = "whole"
      /\ receipt[t].verdict = "unknown" <=> journal[t] = "hardStopped"

\* T8: once the journal says rolled back or undone, none of the change's
\* bytes are on disk, then or after any later call (unless another preview
\* brings the same body to the same path).
ReversedLeavesNothing ==
  \A t \in Transaction :
    /\ journal[t] \in {"rolledBack", "undone"}
    /\ \A u \in Transaction \ {t} : TargetOf[u] = TargetOf[t] => BodyOf[u] # BodyOf[t]
    => Target(t) \notin OwnBytes(t)

\* The engine reports success only for what is on disk: an execute that
\* returns has a complete receipt, an undo that returns has removed the bytes.
ReportsAreProven ==
  /\ ~Tampering /\ result \in {"applied", "replayed"} =>
       journal[tx] \in Completed /\ receipt[tx].status = "whole"
  /\ result \in {"undone", "alreadyUndone"} =>
       journal[tx] = "undone" /\ Target(tx) \in OwnerContent

\* T8: whatever the owner's editor does, also between a check and its unlink,
\* an unlink is begun only on the change's own bytes, seen in place by that
\* step, and no other step of the engine, nor the unlink anywhere but at its own
\* target, takes bytes of the owner.  Later work is lost only if it was saved
\* after the check and before the unlink that is the call's very next step.
Unlinking == {"discard", "restoreUnlink", "undoUnlink"}

LaterWorkLostOnlyInTheWindow ==
  [][/\ pc \notin Unlinking /\ pc' \in Unlinking =>
          file' = file /\ file[TargetOf[tx']] \in OwnBytes(tx')
     /\ Engine => \A p \in Path : file[p] = Foreign /\ file'[p] # Foreign =>
          pc \in Unlinking /\ pc' \notin Unlinking /\ p = TargetOf[tx]]_vars

\* G3: after an incident the session writes no more bytes, begins and advances
\* no transaction except to undo one, and stays stopped until the process ends.
HardStopHolds ==
  [][hardStop /\ result' # "crashed" =>
       /\ hardStop'
       /\ \A t \in Transaction : journal'[t] \in {journal[t], "undone"}
       /\ \A p \in Path : file'[p] \in {file[p]} \cup OwnerContent]_vars

\* The engine implements its promise to the owner.
PhaseOf(state) ==
  CASE state = "none" -> "unapproved"
    [] state \in InFlight -> "live"
    [] state \in {"verified", "hardStopped"} -> "kept"
    [] state \in {"rolledBack", "undone"} -> "reversed"

Promise == INSTANCE AdaptationPromise
             WITH phase <- [t \in Transaction |-> PhaseOf(journal[t])]

KeepsPromise == Promise!PromiseSpec

-----------------------------------------------------------------------------
(* Liveness. *)

\* T8: however often the process dies on the way, an owner who keeps asking
\* gets a finished change undone, or is told of the conflict that forbids it.
UndoSettles ==
  <>[][~Crash]_vars =>
    \A t \in Transaction :
      journal[t] \in {"verified", "hardStopped"} ~>
        journal[t] = "undone" \/ (tx = t /\ result \in {"undoConflict", "recoveryFailed"})

=============================================================================
