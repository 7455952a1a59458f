# dex-lens in TLA+

This directory holds a TLA+ model of dex-lens, the TLC runs that check it on
small instances and the TLAPS proofs of its main theorems.  Paths below are
relative to the repository; `src/capability_exchange/` is written `ce/`.

## 1. The system and its components

dex-lens inspects one AI-assistant setup on the owner's machine, explains what
it found, and can make one reversible local change or share one capability
back.  It is one Python package; almost everything runs in the owner's
process, on local files.

| component | state it keeps | operations | what is hard |
|---|---|---|---|
| adaptation `ce/adaptation` | target file, recovery manifest, journal, receipt, evidence on disk; approvals, recovery proof and hard stop in memory | prepare_recovery, issue, execute, undo | a crash between any two file effects, retries, two previews on a path, the owner editing meanwhile |
| contribution `ce/contribution` | contribution states, consent ledger, pending withdrawals; copies in the stores behind the ports | draft, submit, quarantine, decide, withdraw, retry | two contributions under one consent, stores that fail part-way |
| moderation `ce/contribution/moderation.py` | attestations, abuse cases | scan, approve, report, resolve, the trust check | who is signed in and what the scanner says change between calls; a case reported around an approval |
| journey `ce/concierge/journey.py`, `ce/jobs`, `ce/evidence`, `ce/capmap` | stage of the walk, drafts and confirmed jobs, fallback claims, the map, the catalogue shelf, one adaptation; in stage nine the drafted contribution and its handle | one handler per page | handlers in any order, deletions that fail, two translations of a claim, each handler clearing another subset of the references a withdrawal needs |
| collection `ce/concierge/collection.py` | consent, cancel flag and event, published result | collect, cancel, result | cancel against a worker process, late answers, timeouts |
| session `ce/concierge/server.py`, `security.py` | credentials, closed flags of two objects with two locks, expiry timer, collection thread | authorised requests, begin, cancel, terminate, expiry | requests and the collection in flight while the session is discarded |
| inspection `ce/adapters/claude_code` | a confined child process, the survey, the bounded capture and its digests | survey, capture, recheck, kill, fingerprint | the owner edits, replaces and removes files meanwhile; an open that never returns |
| diagnosis `ce/diagnosis/orchestrator.py`, `store.py`, `work_queue.py` | one checkpoint per run, artifacts named by content, work queue with its receipts and response records, per-run lock file | prepare, advance, intake, focus, submit work, compare, save, close | two processes on one run, lost answers and retries, a kill between artifacts and checkpoint |
| comparison `ce/diagnosis/{specialists,comparison,families,significant_families,defaults}.py` | proposals of each packet, the reconciled positions, the ledger | submit, reconcile, compare | answers in any order, disputes, a sceptic who may only lower, a selection that must be covered |
| reports `ce/diagnosis/report.py`, `wow_gate.py`, `ce/reports` | report, ledger and result files in one directory | render, save, check and take back | writes that fail one by one, an assistant that rewrites both files |
| catalogue `ce/catalogue` | cached catalogue, subscription record, snapshot of what was seen | fetch, verify, subscribe, revoke, look, tell news | three files written in place by several processes without a lock |
| pilot `ce/pilot` | protocol, enrolment, plans, measurements, the evidence pack | enrol, withdraw, lock, measure, analyse, verify | consents that can be presented again, plans edited around measurements, files changed after sign-off |
| boundary `ce/boundary`, adaptation contract, taxonomy, evaluation, conformance, scripts, release, Convex | none beyond their inputs, or outside the owner's process | text work, offline tooling | see section 7 |

Interaction.  The server authorises a request and calls the journey under the
session's state lock; the journey starts the collection, reads evidence,
drives the adaptation engine (created lazily, one per session), shows the
catalogue and ends in the contribution stage.  The diagnosis runs in processes
of its own (command line and MCP server); it captures the folders in-process,
reads the cached catalogue, and leaves saved reports behind.  The catalogue's
files are the one thing the browser session and the commands share.

### What makes each component correct

* **Adaptation**: bytes only under a spent approval of their own preview; a
  reversed change leaves nothing; what a call reports is on disk; after an
  incident nothing but undo; an undo that is asked for again and again settles.
* **Contribution and moderation**: a withdrawn version is in use nowhere that
  is not owed a withdrawal; what was decided was attested by somebody else,
  over no open case; retrying settles.
* **Journey**: a confirmed job leaves no draft; hearsay is never Verified; one
  change at a time; every session ends.  In stage nine, what the intake may
  hold can always be revoked and what is reported withdrawn is withdrawn.
* **Session and collection**: a closed session holds nothing; only a whole,
  unrevoked read is published; every collection and every stop ends.
* **Inspection**: a file that lay open is never called absent, what is called
  observed was not written since it was opened, what is called loaded can be attributed, and the
  browser gets an answer.
* **Diagnosis**: no answer told to a caller is lost between processes or by a
  kill; a run only moves forward; a saved report is whole.
* **Comparison and report**: no dispute becomes a conclusion, no factor is
  invented, no claimed dive is empty; whatever is kept under a run's digest
  tells that run; a report has its ledger - up to an edit between two readings
  of one file and a clean-up that fails.
* **Catalogue**: nothing passes as seen that was neither shown nor left out by a
  narrowed call; a revoke stays a
  revoke; versions never go backwards - each up to the exact race that breaks it.
* **Pilot**: withdrawn stays withdrawn; a success counts everybody still enrolled; a
  complete pack is the one that was signed.

## 2. Modules

| module | models |
|---|---|
| `TargetFile` | previews and what a target path can hold |
| `AdaptationPromise` | abstract: what the adaptation engine promises the owner |
| `AdaptationTransaction` | the engine: every durable step, crash, restart, fault, owner |
| `ContributionLifecycle` | consent ledger, lifecycle service and stores |
| `Moderation` | attestations and abuse cases over `ContributionLifecycle` |
| `ContributionJourney` | stage nine of the journey over `ContributionLifecycle` and an intake (`INSTANCE`) |
| `Evidence` | evidence states, levels, the assessment of a capability, corrections (operators) |
| `JourneyWalk` | every stage of the journey before contribution, over `Evidence` |
| `CollectionSession` | the browser session, its threads and its one collection |
| `Discovery` | from captured files to probes and to a fingerprint (operators) |
| `ContainedInspection` | the confined child and the in-process capture, beside an owner at work, over `Discovery` |
| `DiagnosisRun` | the run store, the engine's stages and the work queue, driven by several processes |
| `FamilyMap` | from the signed catalogue and a fingerprint to lineage, matches, families, jobs and the early map (operators) |
| `Comparison` | the specialists' answers, their reconciliation and the ledger, over `FamilyMap` |
| `Report` | what a ledger is told as, saved as and taken back as, over `Comparison` |
| `CatalogueUpdates` | cache, subscription and snapshot shared by processes |
| `Pilot`, `PilotPack` | the study from protocol to verdict; the evidence pack over it |
| `AdaptationTransactionProofs`, `ModerationProofs`, `ContributionJourneyProofs`, `ReportProofs`, `DiagnosisRunProofs`, `CatalogueUpdatesProofs`, `JourneyWalkProofs`, `PilotProofs` | the theorems of section 5 |
| `MCAdaptation`, `MCModeration`, `MCContributionJourney`, `MCSession`, `MCInspection`, `MCDiagnosis`, `MCReport`, `MCCatalogue`, `MCJourneyWalk`, `MCPilot` | the instances TLC checks |

Composition: `Moderation` EXTENDS the lifecycle and is proved to implement it,
`ContributionJourney` INSTANCEs it, `AdaptationTransaction` is shown to
implement `AdaptationPromise`, `Report` EXTENDS `Comparison` EXTENDS
`FamilyMap`, `ContainedInspection` EXTENDS `Discovery`, `JourneyWalk` EXTENDS
`Evidence`, `PilotPack` EXTENDS `Pilot`.

Definitions whose comment says "Mutant of ..." are never part of a next-state
relation.  Each is the change a plausible bug would make to one
definition of the model; with it in place the property it is paired with in
`PROJECT.json` fails.

### 2.1 AdaptationTransaction

*State and code.*  `file`, `manifest`, `journal`, `receiptRef`, `approvalOf`,
`receipt` and `evidence` are the files the engine writes (target, recovery
manifest, transaction journal with its `state`, `receipt_path` and
`approval_id` fields, receipt, outcome evidence).  `hardStop`, `proof` and
`approval` are the engine object, the recovery point the caller holds and the
approval authority: `Crash` forgets them.  `pc`, `tx`, `tok`, `now`, `verdict`
are the locals of the one running call, `result` what the last one returned.

*Actions.*  A call is cut wherever the process can die between two durable
effects.  `prepare_recovery` is `Prepare`, `FinishPrepare`; `execute` starts
with one of `ExecuteReplay`, `ExecuteBroken`, `ExecuteRefused`,
`ExecuteFresh`, `ExecuteResume` and goes on through the journal, the current
check, reconciliation of what an earlier run left, the create-only write in
two halves, verification, receipt and terminal state; `undo` is `UndoRefused`,
`UndoAgain`, or `Undo`, `UndoUnlink`, `FinishUndo`.  `Fault` raises `OSError`
out of any durable step, `LoseManifest` and `LoseReceipt` damage files,
`OwnerEdits` replaces or removes a target.

*Abstractions.*  A write is cut once: "half" stands for every proper,
non-empty prefix.  The caller's clock is a member of `Stamp`; approvals may
expire at any moment before they are used.  The incident list is left out (it
is written next to the hard stop and read by nothing), and so are journals
that are damaged or belong to another preview, which every call refuses.  The
engine is single-threaded: `ce/concierge/server.py` calls it under its state
lock.

### 2.2 ContributionLifecycle and ContributionJourney

*State and code.*  `ledger` and `permissions` are the `ConsentLedger`, `state`
the contributions' states, the stores' variables what the ports hold,
`pending` the service's `_pending`.  The journey adds the stage,
the card version on the table and the references of `journey.py`:
`contribution`, `lifecycle` (the service it drafted with), `handle` (the
intake handle), `attempted`, `pendingFlag`, `retryVersion`; `receipted` and
`calledBack` are history.  The intake is a port to a hosted service: it may take a submission, err
before or after taking it, let go, or stay silent.

*Actions.*  One per public method of the service (`Draft`, `Submit`, ...,
`RetryPendingWithdrawals`), with the failing variants (`SubmitPutFails`,
`SubmitUnreviewable`, `ConsentLapsed`) apart because they leave other state
behind.  The methods run under the session's state lock and are one step; the
journey's calls to the intake are where a handler waits, so those handlers are
two steps (`calling` says which answer is awaited), nothing else running in
between.

*Abstractions.*  A store call may refuse whenever `CanFail` has its operation.
Stores that declare themselves non-recallable are refused by the service before
anything happens and are left out.  The moderation attestation is a port whose
answer may always be a refusal, so it is the absence of a step; 2.5 opens the port.
`retry_pending_withdrawal` has no caller in `src/capability_exchange`; the tests
call it, after a withdrawal or after the close.  Its only condition is the flag
`submit_contribution` sets, so the model offers it from the submission on; what it
calls complete before any withdrawal is the history `calledBack` (section 6).
Nothing of this is persisted: when the process ends, the ledger and the pending list are gone.

### 2.3 CollectionSession

*State and code.*  `secured` is `SessionSecurity.closed` negated, `closed` is
`ConciergeSession.closed`: two flags under two locks, because
`SessionSecurity.terminate` calls `_discard` after it released its own.
`stateLock` is `_state_lock` where it is held between two steps, `journey` the
stage as far as collecting goes, `controller`, `cancelled`, `cancelEvent`,
`result` the `CollectionController`, `readers` the contained child process,
`returned` what `terminate_and_wait` told each caller.

*Actions.*  `Admit` and `RefuseRequest` are the security check;
`BeginCollection`, `SpawnCollection` the approval; `CreateController`,
`EnterCollect`, `StartWorker`, `StopWorker`, `GraceEnds`, `WorkerReturned`,
`CheckCollected`, `PublishResult`, `RecheckScope`, `CompleteCollection`,
`CompleteFails`, `Abort` the collection thread; `Terminate`, `Discard`,
`WaitProven`, `WaitUnproven` closing, by a request, by the timer or by the
collection itself.

*Abstractions.*  The bootstrap exchange is over before the model starts.  Every
other handler is one step that holds the lock (`HoldLock`, `ReleaseLock`): what
matters to the others is that it is held.  Roots are compared at single
moments; a root that changed stays changed.

### 2.4 DiagnosisRun

*State and code.*  `head[r]` is the run's checkpoint together with what its
artifacts say: stage, mode, artifact names, intake answers, focus, receipts per
packet, how many receipts and response records are stored, proposals, ledger,
report number.  `whole` and `torn` are the files on disk, `approved` the scope
sidecar, `lock` the per-run `flock`, `at` and `job` each process's command,
`told` the history of what callers were told.

*Actions.*  A command begins (lock, load, validate, compute) as the action
named after the engine's method, and goes on with `Write` once per file,
`CompareHead`, `ReplaceHead` and `AnswerCaller`; `Kill` ends the process anywhere,
and the kernel drops its lock.  A file being written when the process dies is torn.
A refusal changes nothing on disk and is the absence of a step.  A selection can
be compared once every selected entry is cited in the answer to whatever packet
(`Covered`); what an answer cites is the constant `Cites`.

*Abstractions.*  An answer is any response that passes validation; everything
that does not is `"malformed"`, and `INSUFFICIENT` is an answer like
`COMPLETED`, as it is final in the code.  Work artifacts are named by version counts, which
identify their content within a run.  Of the payloads two runs may share, the
catalogue slice and the empty response log are modelled as shared; the others
carry the run's id or its evidence.  The approval's receipt is the fact that it
exists.  `prepare` takes no lock, and nobody else can know its run id yet.
Failures of the collector and of the catalogue are refusals.  The legacy
`submit` records a proposal once.  `MaxKills` bounds the kills.

### 2.5 Moderation

*State and code.*  `attestation`, `caseState` and `about` are the dictionaries of
`moderation.py`; `earlier` is history.  The people signed in, the scanner's
answer and the signatures are ports: each call asks anew and may be answered
differently.

*Actions.*  `Approve`, `ReportAbuse`, `ResolveAbuseCase`, and `ModeratedReview`,
which is the lifecycle's decision behind the trust check.  Everything else of
the lifecycle goes on as in `ContributionLifecycle`, which this module is
proved to implement: there the trust port is a guard that may always refuse,
here it is the attestation.

*Abstractions.*  Signatures verify.  A missed deadline only rewords a refusal,
so cases have no clock.  A case is what `report_abuse` derives its
identifier from, version, category and the caller's time: the same report made
again writes the same case anew, open, whatever state it was in.

### 2.6 Evidence and JourneyWalk

*State and code.*  `Evidence` translates the closed vocabulary, the ceiling of
each state, the assessment of one capability and its corrections, and the two
translations a fallback's claims go through.  `JourneyWalk` has the journey's
`stage`, the job drafts on disk (`drafts`), the confirmed jobs, the fallback's
`claims` and the `envelope` that will be assessed, the map, the catalogue as
fetched, ranked (`shelf`) and briefed, and one adaptation down to its receipt.

*Actions.*  One per handler of `journey.py` and `server.py` before stage nine,
with failing variants where a file operation fails half-way
(`CloseFails`, the refused saves and unlinks).

*Abstractions.*  The handlers run under the state lock, so each is one step.
Which job the proposal rules name per role, what inspections collect and what
fallbacks bring are constants; the shelf's ranking is left open.  The adaptation
is what its engine promises (`AdaptationPromise`), reduced to the target and the
receipt.  `HasOutcomeProcedure` is `FALSE` in the code, where the stages of the
adaptation can only be reached by patching it, as its tests do; the run does
the same.

### 2.7 CatalogueUpdates

*State and code.*  `cache`, `record` and `snapshot` are the three files; a file
being rewritten is `Torn`.  `version`, `checked`, `saving` are a process's
locals; `shown`, `leftOut` (what a narrowed call recorded as seen
without printing it), `wants`, `undone`, `overtaken`, `highest` are history.

*Actions.*  A fetch is download, verify against the cache, save; a look prints
news, records what was seen and writes the snapshot; subscribing, parking and
revoking load and save the record.  Each is cut at every read and at both ends
of every write, and `Kill` ends a process anywhere.  Two overlapping writes of
one file leave either text or neither.

*Abstractions.*  A download that fails signature, schema or expiry is version
`Bad`.  An entry is an identifier with a digest.

### 2.8 Discovery and ContainedInspection

*State and code.*  `Discovery` translates what the code concludes from
captured files: observations by kind, the upgrade of automations, folding by
slug, the limits, and presence of each probe.  `ContainedInspection` has the
owner's nodes on disk, the survey (which files exist and are admitted), the
capture with its budgets and digests, and the child's and the parent's state.

*Actions.*  The child: `Launch`, `Confine`, `Prove`, `ListDirectory`,
`Evaluate`, `EvaluateRaced`, `SurveyDone`, `SkipCaptured`, `LeaveUnread`,
`Open`, `Read`, `CaptureDone`, `Recheck`, `Report`; the parent: `Kill`,
`Collect`; a diagnosis in its own process: the same capture without recheck.
The owner: `Write`, `Replace` between any two of them.  A write moves the file's
modification time; moving it away and back, or linking it twice, need not.

*Abstractions.*  What a file says is the constant `Says`; redaction and the
seccomp program are external.  A named pipe stands for every special file.  The
code sorts the admitted files stably, diagnostic ones first; `queue` keeps the two
halves of that order apart, `first` and `rest`, and takes from `first` while it
can.

### 2.9 FamilyMap, Comparison and Report

*State and code.*  `FamilyMap` translates the pure derivations from catalogue
and fingerprint.  `Comparison` has the packets with their accepted proposals,
the fingerprint, the selection, what the answers came to and the ledger (the
record `Refused` in place of one that breaks a rule of its own).  `Report` adds
the save under way (`saving`: its path, what goes there, and the file that is
next), the directory, the pairs the command line kept and the kills.  A file is
`Absent`, `Torn` where its writing was interrupted, or what was written.

*Actions.*  `Submit` and `SubmitSceptical` (whole `submit_work`, refusal and
second attempt included), `FetchCatalogue`, `CompleteAnalysis`, `Compare`
(reconcile, coalesce, overlay the sceptic, the engine's own recommendations,
build and validate the ledger); `SaveResult`, `Write` and `WriteFails` per
file, `Undo`, `Kill` between any two of them, and `TakeBack` for a pair offered
to the command line, whose ledger is read twice: checked from the first reading,
stored from the second.  `Undo` may fail as the write before it did, and then
leaves the report alone.

*Abstractions.*  A factor tuple is a number in its ranking order, a reason's
words are left out (where they order proposals the choice is free), a report
is the record of the statements it makes.  Everything the catalogue says is a
constant, with `SignedTruth` and the other rules as assumptions only where the
catalogue's own validator enforces them.

### 2.10 Pilot and PilotPack

*State and code.*  Protocol with its gate and red-team reports, consents,
enrolment gates with their records and tombstones, one measurement plan,
baseline and follow-up per participant, the report.  `PilotPack` adds files on
disk, manifest, sign-off and the verifier's last verdict.

*Actions.*  One per public operation, `Tick` for the clock, and changes to
files and manifest by anybody at any time.  Locking a plan and recording its first
collection take any time the caller names, past or future (`backdated` remembers
a lock made after the baseline in the name of an earlier moment).

*Abstractions.*  A content hash is the content.  Of the 27 required artifacts
the ones a pilot produces are told apart and `Runbook` stands for the rest;
drills are their outcome.  A verification is one step: the verifier hashes each file
and later reads some of them again (`pilot/completeness.py:426-443,463-480`), and
an edit in between is not modelled.

## 3. Runs

| run | what it checks | instance | states |
|---|---|---|---|
| `adaptation_same_path` | `ReportsAreProven`, `KeepsPromise` (refinement of `AdaptationPromise`), `UndoSettles` | two previews with different contents for one path, two tokens, kills at every step, owner edits between steps | 116,876 |
| `adaptation_faults` | `BytesWereApproved`, `ReversedLeavesNothing`, `LaterWorkLostOnlyInTheWindow` | one drill, two stamps; any file operation may raise, manifests and receipts are damaged or erased; the owner may save between a check and its unlink | 160,974 |
| `moderated_stores` | `WithdrawnIsRecalled`, `DecidedByAnother`, `EarlierCasesAreClosed`, `WithdrawalSettles` | one version in two contributions, two stores that refuse any call, two people, one case | 58,488 |
| `journey_contribution` | `IntakeNeverOrphaned`, `CardIsRecalled`, `ReportedIsRecalled`, `ClosedSettles` | two card versions (one edit), two stores, an intake that may err or stay silent, retries from the submission on | 11,874 |
| `session_collection` | `ClosedLeavesNothing`, `PublishedIsWhole`, `CollectionSettles`, `StopSettles` | two requests, the timer, the collection, its worker | 11,692 |
| `diagnosis_resume` | `ToldIsKept`, `SavedReportIsWhole`, `OnlyForward` | one run in each of three modes, two processes, two normal packets and the sceptic, two answers that cite one entry each, two selections of one or both entries, one kill | 491,100 up to symmetry |
| `diagnosis_replay` | *violation* of `ReplayIsHarmless` | one process, one packet and the sceptic, no kill | - |
| `catalogue_updates` | `SeenWasShown`, `RevokeHolds`, `CacheMovesForward` | two versions, the browser's server and one command, called for the whole or the news, narrowed or not, one kill | 3,536,184 |
| `journey_walk` | `ConfirmedLeavesNoDraft`, `OneChangeAtATime`, `EverySessionEnds` | two jobs, two catalogue versions, three inspections, two fallbacks, every file operation may fail | 165,892 |
| `comparison_reported` | `PositionsAreSettled`, `MovesAreRankedAsProposed`, `AcceptedAnswersCompare`, `DeepDivesWereDeep`, `KeptTellsTheRun`, `ReportsHaveTheirLedger` | two roles and the sceptic, five catalogue entries in three families, three folders, three selections, one kill, one ledger rewritten between its readings | 147,220 |
| `contained_inspection` | `AbsentWasLookedFor`, `LoadedIsAttributable`, `ObservedIsStable`, `EveryInspectionAnswers` | three files in two folders, two edits, both callers | 1,318,490 |
| `pilot` | `WithdrawnStaysOut`, `SuccessIsAMajority`, `CompletePacksWereReviewed` | three people, two places, two clock values, two builds | 351,460 |

*Why the bounds are enough.*

* **Adaptation.**  Two previews on one path is the smallest instance in which a
  call meets another call's bytes, token or journal; more previews interact
  pairwise and the theorems of section 5 hold for any number.  One stamp
  suffices where receipts are only compared with their verdict; two tell a
  receipt of a first run from one of a retry.
* **Contribution.**  Two contributions of one version are needed for one to be
  withdrawn behind the other; nothing relates two versions, so one is enough in
  the lifecycle, and the journey has two because an edit makes a new one (a
  second edit meets the same clearing of references).  Two stores give every
  partial failure.  A case concerns one version and cases do not meet, so one
  case that comes before or after the attestation is all there is.
* **Session.**  One request approves, the other approves again, holds the lock or
  closes; a third could only do what one of these does.
* **Diagnosis.**  Two processes give every lost-update interleaving, two normal
  packets every order of answers with the sceptic waiting, two answers a changed
  response or another entry cited; processes are interchangeable, which the run uses as
  symmetry (it has no liveness property).  A killed process leaves its torn file
  for the rest of the run; the theorems hold for any `MaxKills`.
* **Catalogue.**  A newer version that changes one entry, drops one and adds one
  is every kind of delta; server and command are the two kinds of process, and
  what two of them can do to one file is done by one of each.  The command is
  called for the whole or for the news, narrowed to one entry or not, and for the
  news since a later version; two processes that both write the snapshot are left
  to the theorem.
* **Walk.**  Two jobs, one of which may be changed automatically, tell a draft
  from another's contract; two catalogue versions a ranking from a newer fetch.
  The inspections and claims are those whose assessments differ most.
* **Comparison and report.**  Two roles agree, dispute and leave out; each is
  offered its own strength and mapping besides the proposals both have.
  `MaxOffers = 2`, `MaxTokens = 2`, `MaxRecommendations = 2`, `MaxFactors = 2`
  are small values of the code's limits, small enough to be hit.  Every answer
  is compared; the ledgers followed to their report are those of runs with at most
  two proposals (`MaxTold`), which have every disposition a report tells apart.  One
  report exists per label and second (`MaxCopies`), and one pair is taken back
  (`MaxKept`): taking back only adds a pair, so pairs do not meet.
  A ledger is rewritten between its two readings into one other.  One kill
  (`MaxKills`) strikes the engine's save or the command line's; the theorem allows any number.
* **Inspection.**  Three files exceed the count of two and the total of two units,
  so every budget is hit; the second may be a link to the third.  Two edits
  (`MaxEdits`) put a file into a new state and back, with its modification time or
  without.
* **Pilot.**  Two people of one stratum compete for one place, one of the other has
  a place of their own; a strict majority of two is both of them.  The
  constraint `Bounded` in `MCPilot` fixes the order in which consents and
  contracts come, lets one person withdraw, drop out or come to harm and one plan be
  edited or locked late, with the true time or an earlier one (its first collection is
  then marked as of the lock; who withdraws has neither),
  and has the pack written only after a pilot that ended well, as the verifier
  reads nothing but the pack.

Apart from `pilot` no run uses a state constraint; the bounds are guards
of the modules (`MaxKills`, `MaxEdits`, `MaxTime`, `MaxVersion`, ...).

*Deadlock* is not checked where the system really stops: a withdrawn
contribution, a closed journey or session, a closed or wedged run, a ledger whose
reports are kept, an inspection that answered, a pilot that was analysed.

`FallbackNeverVerified` is proved and not run: the theorem speaks of every
envelope, the run of three.

Types (`TypeOK`, `InspectionTypeOK`) are proved in section 5 for every module with
proofs and are then in no run; `ContributionJourney` has its types as part of that
module's invariant.

## 4. Fairness

* **Adaptation** (`RetryingOwner`): a running call is scheduled until it ends
  (`WF` on `Continue`, the engine being sequential code); the owner who wants a change
  gone keeps asking (`SF` on undo).  `UndoSettles` speaks of behaviours with
  finitely many crashes; with endless crashes the code promises nothing.
* **Lifecycle and moderation**: someone keeps calling the retry and not every
  retry finds every owed store broken both ways (`WF` on a retry that settles).
  The code has no background retry: `WithdrawalSettles` is a statement about that caller.
* **Stage nine**: a handler that waits for the intake gets an answer or an error
  (`WF`, the port's call returns or raises); after the close someone retries,
  and stores and intake come back often enough (`SF`).
* **Walk**: the session's expiry timer fires (`WF` on `Close \/ CloseFails`);
  nothing is assumed of the person.
* **Session**: threads are scheduled and the state lock is obtained by a thread
  that keeps asking (`SF`, since others take it in between); the worker ends
  (`WF`), because `containment.py` bounds its time and kills it.  No request
  is assumed to arrive: `Admit`, `TimerFires`, `TimePasses` have no fairness.
* **Inspection**: the parent's deadline passes and its poll loop runs (`WF` on
  `Kill` and `Collect`).  The child is assumed nothing: it may be stuck in an
  `open` for ever, which is what `EveryInspectionAnswers` is about.
* **Diagnosis, catalogue, comparison, pilot**: none.  Host and person may stop
  calling at any time, so only safety is stated.

## 5. Proofs

Assumptions: the named `ASSUME` of each module, which only say that constants
have their sorts and are distinct.  No theorem bounds the number of previews, tokens,
stores, versions, requests, runs or processes, and `MaxKills` is any number.

**AdaptationTransactionProofs.**  The inductive core is `CallInv`: types, and
`StepMatchesJournal`, which says what the journal must hold at each point a
running call has reached; it is needed because the code reads the journal
once, at the start, and trusts it for the rest of the call.  On top of it come
`BytesHaveJournal` and `JournalIsApproved` (consent), `TokenInHand` (single use: the token a call
holds is in no journal yet), `GivingBack` and `CheckedBytes` (a reversal that has passed
its check), `ReceiptInHand` (receipt before terminal state).  From these:
`TypeCorrect`, `Consent`, `SingleUse`, `Reversal`, `Receipted`, `LaterWorkSafe`,
`HardStopped`, `ReportsProven` (a result is only there between calls, so it is
enough to look at the step that returns it) and `Refinement` (`Spec => KeepsPromise`).
The code compares bytes and then unlinks the path (`recovery.py:153-161`).
`LaterWorkSafe` holds for an owner who saves at any moment: an unlink begins only
where that very step saw the change's own bytes, and the one place where later
work can be lost is the unlink itself.  `Refinement` assumes
`Editor # "racing"`, as the promise has no such loss.

**ContributionJourneyProofs.**  `NeverOrphaned`, from `JInv`: `JourneyTypes`,
`Revocable` (from the submission on, and for as long as one counts as
attempted, handle, lifecycle and port are there, and a stage that can clear them
has nothing attempted) and the property itself, for any number of edits.
`ClosedRecallsTheCard` and `CompleteIsComplete` look into the stores: `StoreInv`
(a withdrawn version in use is owed its withdrawal, for the lifecycle as the
journey drives it) and `CardInv`, which says what each stage keeps of the card on the
table - the references are to it or to nothing, nothing newer is in use, a receipt
comes after a withdrawal.  A version in `calledBack` is not at the intake and has no
reference left, and nothing more is claimed of it.

**ReportProofs** holds three components' proofs.

*The collection session.*  `IInv` is `Shape` and `Promises`: one approval
begins the one collection; the controller exists while thread or worker run, and
only a thread on its way out sees the event without the flag; the worker has
ended before the thread goes on with what it read; and the four safety
properties themselves, which hold each other up.  Theorems `TypeCorrect`, `NothingLeft`, `ToldToStop`,
`WholeOrNothing`, `EndsAccountedFor`, for any number of requests.

*The comparison.*  `CompareInv` says what was given stands (`GivenInv`), that
every answer on record was accepted for its packet when it came, and the sceptic's
when the others were final (`AnswerInv`), that what they came to is `Overlaid` of
them (`ReconciledInv`), and that a ledger is what `Compare` builds from it
(`LedgerInv`).  A ledger is the last step of a comparison (`TheLedgerIsLast`), so
everything it was built from can still be looked at.  The rest is about the
operators.  `OverlaidIsSpoken`: a candidate is overlaid exactly once, with what
the sceptic or else all who spoke of it say, so an entry that says anything
says what every position on it says (`EntryTells`, `EntryStands`) and
`SettledOnly` follows.  A move's factors are the least of its candidate's
(`LeastIsThere`) and the sceptic keeps or lowers factors, which gives
`RankedAsProposed`.  For `AcceptedCompare` each rule of the ledger model is
derived from the rule an answer was accepted under: evidence is never empty
where it is owed (`EntriesAreEvidenced`), and the recommended entries are no
more than what the normal packets recommended between them, because each is
some candidate of theirs (`WhoRecommends`, `ClaimsAreFew`, `RecommendedAreFew`).

*The early map.*  These are about the operators of `FamilyMap`, for every fingerprint
and every set of active entries.  `EarlyMapsAreLawful`: none of the rules the code
refuses a map for can keep one from being made, because a release is only read off
records that are there (`ReleaseIsRecorded`) and what a family was given since was
introduced or changed, not both (`DeltaIsLawful`).  `AbsentIsProven` and `PresentIsSeen`
say what the two firm states of a family rest on.

*The report.*  `FilingInv` follows a save through its files: `Saving` says what
its path holds before each step, `EngineFiles` and `OthersFiles` what may lie
under which label, `Matching` and `Together` what is at rest.  A step disturbs
the path it is about and no other (`OnlyHere`), so each action is one case on
that path.  `KeptInv` remembers that a kept pair passed `Gate` against its own
ledger.  Theorems `ReportsKeepTheirLedger` for any number of copies, kills and failed
clean-ups, `KeptIsOfTheRun` for any rewriting an assistant may offer and any edit of
the ledger between its two readings, and `DivesWereDeep`.

These assume what the modules name: the catalogue keeps the rules its own
validator enforces (`CatalogueIsLawful`), who leads and takes its turn is a role
(`RolesAreTold`), an offered proposal has the shape the parser lets through
(`ProposalsAreShaped`), and the engine saves under a label (`TheEngineHasALabel`).
Nothing is assumed of how many roles, entries, families or proposals there are.

**DiagnosisRunProofs.**  `IInv` is `Shape`, `HeadsSound` (every checkpoint is one
the code's validation accepts), `CommandInv` (whoever is inside a command
holds the lock, its `base` is the current checkpoint until the head is
replaced, and its `next` is sound and follows from it) and `ToldInv`.  The lock makes the
loaded head the one that is replaced; each command then only has to compute a
sound head that follows.  Theorems `TypeCorrect`, `NothingToldIsLost`,
`RunsMoveForward`, `ScepticWaits`, `LedgerIsExact`, `SelectionIsCovered` and
`SavedReportsAreWhole`, from `ReportInv`: report files in a writer's to-do list
are of its run, whose head is still at "checked", so no kill cuts a file that a
saved head names.

**ModerationProofs.**  The lifecycle first: `IInv` is `TypeOK`, `WithdrawnIsRecalled`,
`UseWasPermitted`, `ReviewedUnderModeration` and `OnRecord` (a
contribution or a copy only exists under a consent on record, and a withdrawn
contribution's consent is withdrawn).  Theorems `TypeCorrect`,
`Recalled`, `Permitted`, `Final`.  Then `Implements`: `ModeratedSpec` implements
`ContributionLifecycle!Spec`, so `ModeratedRecalled`, `ModeratedPermitted` and
`ModeratedFinal` are corollaries of the lifecycle's theorems.  `MInv` adds
`Attested` (only `approve` makes an attestation, and only of somebody else) and
`EarlierReported` to the two properties; `IndependentReview` needs in addition
that a trusted version is attested, `CasesSettledFirst` that only a report opens a
case, the first time or again, and that whatever is reported counts as later than
the attestation in force.

**CatalogueUpdatesProofs.**  `IInv` is `TypeOK`, `CacheInv` and `RevokeInv`.
`Holding` and `Checked` say what a process knows between its read and its write;
`OneWriter`, that without an overtaken fetch a single process has the cache
open.  Theorems `TypeCorrect`, `CacheForward`, `RevokeStands`.  `SeenIsShown`
holds for every way of calling, any number of processes and any overlap of their
writes: what a call records beyond what it prints is what its narrowing left out.

**JourneyWalkProofs.**  Lemmas about `Evidence` first: the strongest item of some
evidence is reached and never exceeded (`StrongestReached`), without an
observation nothing is Verified (`UnobservedNotVerified`), hearsay stays hearsay
through both translations (`AccountLiftsToReported`, `FallbackIsHearsay`) and the
assessment never claims more than its evidence (`AssessmentIsHonest`).  `WalkInv`
adds `NothingYet` (what the early stages cannot have), `GuidedByHearsay` (a guided
envelope is made of claims) and `AfterReceipt` (no way leads from a receipt back to
an approval, so a change that stands meets no other).  Theorems `TypeCorrect`, `DraftsAreGone`,
`NeverVerifiedByHearsay`, `OneChange`.

The same module proves the inspection a walk starts from.  `InspectionInv` says
of every file that lay open all along what is still due to it (`Owed`): it is to
be walked, to be decided or waiting; or it was read; or the capture confesses to be
incomplete.  That is inductive because a file that lies open after a step lay open
before it (`PlainStands`), and because neither queue loses a file it was given
(`TailKeeps`, `AppendKeeps`, `DecidedWaits`).  `StampsTell` says that what was captured or
lies half read is no younger than its file, and older as soon as the file was
written after its opening; `HeldIsNext` that the open file is the next one, and
`Answers` that an answer is the last thing that happens and tells what was captured.
`AbsentIsLookedFor` is `Owed` at the answer; `ObservedStaysStable` is `StampsTell` at
the second look; `LoadedIsAttributed` needs `Answers` and then only the operators of
`Discovery`: nothing but `Upgrade` calls a job loaded (`LoadedIsAJob`), and a job
without a rival has one source (`LoadedIs`, `FewAreOne`).  `FoldLosesNothing` adds that
folding drops duplicates only.  `FoldersAreShaped` gives the
constants their sorts and the first files stamp 0; limits, roles, links, folder
states and declarations are any.

**PilotProofs.**  `EnrolInv`: whoever is enrolled consented to the protocol the
gate stands for and has not withdrawn; and the enrolled are finitely many,
which is invariant because one person is added at a time, so nothing is assumed of
`People`.  `StaysOut` follows.  `PlanInv` (a baseline that its times
place at or after its lock holds the threshold that was locked, unless the lock is in
`backdated`) and the lemma `MajorityOf` (a verdict
computed from the measured ones is about the whole cohort) give `MajorityOfAll`.
`PackInv` orders manifest, what the reviewer saw, and disk by revision: files
are only ever edited, so equal hashes at both ends leave nothing different in
between (`SameBetween`), which gives `ReviewedAsSigned`.

**What the proofs changed.**  A `CASE` with overlapping arms is any of them in
TLA+; four such definitions (`Verdict` of the pilot, `CapabilityState` and
`SafetyBoundary`, `Refusal` of the inspection, `Entry` of the comparison) had been
checked in the order TLC tries them, which is the code's, and could not be
reasoned about.  They are written as the code's chain of conditions now.  The inspection's stable
sort, which filtered a sequence, is written as two queues for the same reason.

The proofs of the comparison and the report changed more.  Kills are counted
where one failure had stood for all (a report without its ledger needs a kill, not
a failing write); a pair is only taken back when report and ledger are both there
and whole, as the command line's reading of them demands; the engine saves again
after a save that failed; a refused ledger and a torn file are records, so that no
ledger or report can be mistaken for one; and a family's profile is one of the
table the code looks it up in (`significant_families.py:636`), without which a family
could be assessed from nothing.

**Proved and not run.**  Every `TypeCorrect`; `SingleUse`, `Receipted`,
`HardStopped` of the adaptation; `NeverVerifiedByHearsay` of the walk; `Permitted` and `Final` of the
lifecycle; `ToldToStop` and `EndsAccountedFor` of the session; `ScepticWaits`,
`LedgerIsExact`, `SelectionIsCovered` of the diagnosis.  TLC agreed with each
before it was proved; a proof makes the run redundant.

**Model-checked only.**  Liveness (`UndoSettles`, `WithdrawalSettles`,
`ClosedSettles`, `CollectionSettles`, `StopSettles`, `EverySessionEnds`,
`EveryInspectionAnswers`) is out of the prover's reach, as is `ENABLED`.  Every
safety property of a passing run is proved.

## 6. Findings and observations

**Finding: malformed replay** (`diagnosis_replay`).  A third malformed response
leaves the queue alone but appends a response record (`orchestrator.py:1558`);
afterwards the run's work no longer loads.  The docstring at
`orchestrator.py:1347` calls exact replays idempotent.  `PROJECT.json` quotes
both sides.

Reading and modelling met more places where code, documents and tests part, or
where a reader may be surprised.  They are no runs; the models contain the
code's behaviour, and the properties of section 3 are stated so as to hold
despite them.  Paths under `ce/` as above.

*Adaptation and contribution.*
* A kill between the create-only open and the first write leaves an empty file
  that every restart calls a conflict (`adaptation/transaction.py:296`;
  `docs/handoff/HANDOFF.md:314` promises the pre-change state or a completed change).
* The code compares bytes, then unlinks (`adaptation/recovery.py:153-161`); an
  owner who saves in between loses the new file, where `gates.md:189` says undo never
  silently destroys later work.  `LaterWorkLostOnlyInTheWindow` says that this is the
  only such place.
* `retry_pending_withdrawal` asks for the pending flag alone
  (`concierge/journey.py:1967`), which `submit_contribution` sets (1920).  Called straight
  after a submission it revokes at the intake, reports the card withdrawn and drops
  the lifecycle; the stores keep the card under granted consent, a withdrawal then
  raises, and the close has nothing left to recall through, although the comment at
  the close says consent is revoked at every exit.  `CardIsRecalled`,
  `ReportedIsRecalled` and `ClosedSettles` exempt exactly these cards.
* A store that refuses both the withdrawal and the quarantine keeps its copy
  usable until a retry (`contribution/lifecycle.py:394`;
  `docs/handoff/sources/gates.md:43` wants it unavailable).
* Editing the card after a store's `put` raised drops the only service that
  knows the copies already made (`concierge/journey.py:1752`; `gates.md:39`).
* An abuse case reported after the attestation does not stop `mark_eligible`; a
  closed case can be closed again the other way, and a report made again with the
  same time reopens it (`contribution/moderation.py:429-440`); `INVESTIGATING` is never set.

*Session, journey and catalogue.*
* A worker that outlasts its half second of grace ends the collection thread
  with an error, and the stop that joined it reports the collector stopped
  while the worker reads on (`server.py:301-309`, `collection.py:414`; `gates.md:87`).
* The docstring at `concierge/journey.py:1426` allows a second selection once the
  transaction was undone; after an undo no handler leads back to the map, so a session
  selects once.  `OneChangeAtATime` claims what docstring and code agree on.
* `has_outcome_procedure` is always false, so the adaptation stages are reached
  only where tests patch it; journals and receipts live in the session's
  temporary directory and vanish at its close.
* The Evidence Level is derived from everything linked, boundary probes included
  (`diagnosis/engine.py:242-248`), so an outcome the person only reported is
  Verified where its boundary was observed (`src/README.md:235`).  A working
  claim with a conflicting boundary item is Unknown.
* The brief may combine a newly fetched catalogue with the ranking of the older
  one; the shelf has no way back to the map; an unknown capability in the brief
  form raises `KeyError`; an `OSError` of an unlink escapes `_discard`.
* `record_seen` can undo a concurrent revoke; a torn cache makes every later fetch
  refuse, a torn record every later save fail.
* A look narrowed by `--jobs` or `--only`, and `--since N` above the version last
  seen, record as seen entries they did not print (`catalogue/cli.py:382,437,450`),
  where `cli.py:209` and `subscription.py:168` speak of what was shown.
  `SeenWasShown` exempts exactly the entries such a call left out.

*Diagnosis, comparison and report.*
* Artifacts are rewritten in place: a kill while a second run rewrites a shared
  catalogue slice leaves the first run unreadable until it is written again
  (`orchestrator.py:2817`).
* A newer catalogue strands a run; a focused run in which no answer cites some
  entry of the selection cannot compare (`orchestrator.py:1031-1057`).
* When the engine itself recommends a restore test the comparison may break its
  own rule and raise at every attempt (`defaults.py:725`, `specialists.py:236`);
  the instance of the run has such a folder and `AcceptedAnswersCompare` says
  when it can happen.
* The dive of a job-focused run follows the fallback role and reports no
  findings (`orchestrator.py:1128`).
* A strength the sceptic lowered is still listed among the report's strengths;
  the sceptic may combine one proposal's disposition with another's factors; an
  engine position is worded "Specialist proposals disagreed".
* `reports check` compares digest, coverage block and job axis only
  (`reports/cli.py:178`), so a kept report may state other facts than its
  ledger; the digest leaves `reserved_for_person_review` and the intake out.
* The engine's own reports carry no quotations, so the check refuses them until
  somebody adds some; the free path is looked up and then written to.
* A kill between the Markdown and the ledger leaves a report alone, and so does the
  clean-up after a failed ledger when its unlink raises (`store.py:280,354-355`); a write
  of the Markdown that fails leaves an empty or torn file nobody removes, and an empty one
  is what `store.py:237-239` calls worse than no file.
* The command line checks a ledger from one reading and stores a second one
  (`reports/cli.py:383,397`): an edit in between is kept unchecked.
* The gate scores an honest ABSENT as an unsupported claim, and as no report names
  a workflow edge its score stays at 80 of the 90 it asks for; job-focused runs put
  job ids among the selected families, which the gate calls a sampled selection.
* A report may name two first moves (`report.py:585-640`), where the gate's
  design asks for one.

*Inspection.*
* A hard-linked file, or one in an unlistable directory, is reported absent
  (`collector.py:212`, `allowlist.py:450,496`; `evidence/states.py:36`).
* A file that grows between `fstat` and read exceeds the total budget; a pipe
  blocks the capture a diagnosis makes in its own process, which has no recheck
  either; skills whose names normalise equal are folded into one.

*Pilot.*
* Re-enrolment after a withdrawal is blocked within one `EnrollmentGate` only,
  and a withdrawal removes the person from the records a roster is taken from,
  which shrinks the denominator (`gates.md:47,205`): `SuccessIsAMajority` counts who is
  enrolled by then.
* Callers supply the time of a lock, and the analysis refuses only a baseline earlier
  than it (`analysis.py:381`): a plan locked after its baseline in the name of that
  moment or an earlier one passes, and its threshold may have been chosen knowing the
  baseline (`gates.md:47` wants it fixed before any result is seen).
* The verifier compares the file hash of a runbook with the executor's hash of
  its model, so the drills the engine produces do not complete a pack as shipped.

## 7. Not modelled

* **Session and session security** (partly).  Admission, approve, terminate/discard/wait, the expiry timer, the state lock and the collection thread. The one-use bootstrap exchange, the text of the header checks and page rendering are not modelled; the other handlers are one lock-holding step each.
* **Contained inventory adapter** (partly).  The child with its proofs, deadline and cancellation, the survey, the bounded capture, the recheck, the probes and the fingerprint are modelled, over an owner who edits and replaces files. The text each kind of file declares, redaction, the seccomp program and mounts grafted during the walk are data or external; so are the contract and envelope schemas.
* **Inventory command** (not modelled).  One capture printed for the terminal: its state is the snapshot of ContainedInspection, the rest is argument checks and wording.
* **Pilot study** (partly).  Gate and red-team reports, protocol, enrolment, withdrawal, measurement plans, analysis and the completeness verifier are modelled; the drills, which run the adaptation engine once in a temporary directory, and the learning output, which only recodes a report, are not.
* **Capability map pages, cards and their validation** (not modelled).  Immutable values, validators of text and HTML. No state; which card is shown is JourneyWalk's and ContributionJourney's business.
* **Catalogue bridge to the shelf, release tooling** (not modelled).  The order of the shelf is a pure function whose outcome JourneyWalk leaves open; release acceptance runs when a release is built.
* **Report, its gate and the report command line** (partly).  The statements a report makes, its saving file by file, the check of a pair offered back and the hard failures of the gate. Wording, the listing of saved reports and the memory of earlier selections are left out.
* **Diagnosis front ends** (partly).  Each call is one engine command, so DiagnosisRun's processes are these front ends; argument parsing and answer formatting are left out.
* **Engine receipts, payload guard and provenance** (not modelled).  Scanners and validators of text and immutable receipts; no state and no order of events.
* **Share-back command line** (not modelled).  Prints a brief; keeps nothing.
* **Deletion registry, data inventory, serialization boundary, crash log** (not modelled).  One pass over a list of paths, and text work. A deletion that meets a run in progress is DiagnosisRun with its files gone: every later load fails, and nothing is claimed of it.
* **Adaptation contract, eligibility, hosts and allowlist** (not modelled).  Decides which change may be previewed; stateless, its outcome is the constant set of previews of AdaptationTransaction and the choice of JourneyWalk.
* **Taxonomy, evaluation, conformance** (not modelled).  Offline tooling: pure classification, scoring and check running over files.
* **Concierge pages, consent and folder picker** (partly).  persist_offered_scope_approval is DiagnosisRun's Approve; pages and dialogs are presentation.
* **Convex intake, scripts and release files** (not modelled).  A hosted table and build tooling, not part of the local program.

Hazards that no property covers carry a note in `PROJECT.json` saying why.

## 8. Plan

What is done is in the tables above.  What is left, in order:

1. More about the pure operators: what the deltas of `CatalogueUpdates` and the gate of
   `Report` conclude, for every catalogue and every report.
