----------------------------- MODULE DiagnosisRun -----------------------------
(* One durable diagnosis run: the engine's stages, the specialist work queue, *)
(* and the store that keeps them, driven by several host processes.           *)
(*                                                                            *)
(* Every mutating call holds the run's flock for load -> validate -> write    *)
(* artifacts -> replace the checkpoint (the head).  The head is replaced      *)
(* atomically; an artifact is written in place, so a process killed inside    *)
(* the write leaves it torn.  A command is three or more steps here: it       *)
(* begins (lock, load, validate, compute), writes its files one by one,       *)
(* compares the head, replaces it and answers its caller.  A refusal changes  *)
(* nothing and is the absence of a step.                                      *)
EXTENDS Naturals, Sequences

CONSTANTS
  Run,        \* diagnosis runs sharing one artifact directory
  Proc,       \* host processes: one command line, one MCP call, one local page
  Normal,     \* the packets of the normal specialist roles
  Sceptic,    \* the packet of the sceptical reconciler
  Answer,     \* responses that pass validation
  Choice,     \* what a person may answer at intake, or select as focus
  Entry,      \* catalogue members and jobs that specialists may judge
  Selected,   \* Selected[c]: the entries the selection c asks about
  Cites,      \* Cites[k][x]: the entries on which the answer x to the packet k
              \* gives a verdict
  Mode,       \* the analysis modes a run may be prepared in
  None,       \* nobody, nothing
  MaxKills    \* bound: processes that die inside a command

Packet == Normal \union {Sceptic}

ASSUME ConstantAssumption ==
  /\ Sceptic \notin Normal
  /\ None \notin Proc \union Choice \union Answer
  /\ "malformed" \notin Answer
  /\ "intake" \notin Packet /\ "focus" \notin Packet
  /\ Selected \in [Choice -> SUBSET Entry]
  /\ Cites \in [Packet -> [Answer -> SUBSET Entry]]
  /\ Mode \subseteq {"inventoryOnly", "guided", "focused"}
  /\ MaxKills \in Nat

VARIABLES
  head,     \* the persisted checkpoint of each run, with what its artifacts say
  whole,    \* files on disk, completely written
  torn,     \* files on disk, cut short by a kill
  approved, \* runs with a scope approval kept beside them
  lock,     \* holder of each run's flock
  at,       \* where each process is in its command
  job,      \* the command each process is carrying out
  kills,    \* processes killed so far
  told      \* history: what callers were told is recorded

vars == <<head, whole, torn, approved, lock, at, job, kills, told>>

Response == Answer \union {"malformed"}

NextStage ==
  [created |-> "scopeApproved", scopeApproved |-> "intakeRecorded",
   intakeRecorded |-> "captured", captured |-> "catalogueVerified",
   catalogueVerified |-> "familyMapped", familyMapped |-> "jobsConfirmed",
   jobsConfirmed |-> "analysisPlanned", analysisPlanned |-> "analysisCompleted",
   analysisCompleted |-> "compared", compared |-> "rendered",
   rendered |-> "checked", checked |-> "saved", saved |-> "closed"]

Stage == DOMAIN NextStage \union {"unknown", "closed"}
Unknown ==
  [stage |-> "unknown", mode |-> None, artifacts |-> {},
   intake |-> None, focus |-> None,
   receipts |-> [k \in Packet |-> <<>>], receiptCount |-> 0, recordCount |-> 0,
   proposals |-> {}, ledger |-> None, report |-> 0]

NoJob == [run |-> None, base |-> Unknown, next |-> Unknown, todo |-> <<>>, reply |-> {}]

Init ==
  /\ head = [r \in Run |-> Unknown]
  /\ whole = {}
  /\ torn = {}
  /\ approved = {}
  /\ lock = [r \in Run |-> None]
  /\ at = [p \in Proc |-> "idle"]
  /\ job = [p \in Proc |-> NoJob]
  /\ kills = 0
  /\ told = {}
-----------------------------------------------------------------------------
(* Files.  A file is named by its content, here by its kind, its run and a    *)
(* version: two runs that store the same payload share the file.  The         *)
(* catalogue slice and the empty response log carry nothing of the run.       *)
Shared(kind) == <<kind, None, None>>
Own(kind, r, content) == <<kind, r, content>>
ReportFile(r, n, part) == <<part, r, n>>
ReportParts == {"markdown", "ledgerJson", "resultJson"}

\* _find_kind reads the newest artifacts first; only the close of a run that is
\* not focused stops before it reaches the catalogue.
Readable(h) ==
  \A f \in h.artifacts :
    \/ f \in whole
    \/ h.stage = "saved" /\ h.mode # "focused" /\ f = Shared("catalogue")

\* _free_path: n is the first report name of this run that is not taken.
FreeReport(r, n) ==
  /\ ReportFile(r, n, "markdown") \notin whole \union torn
  /\ \A m \in 1 .. n - 1 : ReportFile(r, m, "markdown") \in whole \union torn
-----------------------------------------------------------------------------
(* The work queue, read from a checkpoint.                                    *)
LastOf(s) == s[Len(s)]
Attempted(h, k) == h.receipts[k] # <<>>
Answered(h, k) == Attempted(h, k) /\ LastOf(h.receipts[k]) \in Answer
Final(h, k) == Attempted(h, k) /\ (Answered(h, k) \/ Len(h.receipts[k]) = 2)

\* require_pending: not final, and the sceptical packet only after the others.
Pending(h, k) == ~Final(h, k) /\ (k = Sceptic => \A n \in Normal : Final(h, n))

Complete(h) == \A k \in Packet : Final(h, k)

\* _validate_work_records: one response record per receipt; a packet's attempt
\* that is recorded twice does not load.
RecordsMatch(h) == h.recordCount = h.receiptCount

QueueFiles(r, h) ==
  <<Own("work-queue", r, h.receiptCount),
    IF h.recordCount = 0 THEN Shared("work-responses")
    ELSE Own("work-responses", r, h.recordCount),
    Own("work-audit", r, h.receiptCount)>>

\* _require_focus_coverage: every entry of the selection has a verdict, in the
\* answer to whatever packet.  Reconciling merges verdicts and drops no entry.
CitedBy(h, k) == IF Answered(h, k) THEN Cites[k][LastOf(h.receipts[k])] ELSE {}
Covered(h) ==
  h.mode = "focused" =>
    \A e \in Selected[h.focus] : \E k \in Packet : e \in CitedBy(h, k)

\* What comparison takes into the ledger: the final answers of the packets, or
\* the stored proposals of an inventory-only run, which has no packets.
LedgerOf(h) ==
  [answers |-> [k \in Packet |-> IF Answered(h, k) THEN LastOf(h.receipts[k]) ELSE None],
   proposals |-> h.proposals]
-----------------------------------------------------------------------------
(* The steps every command shares.                                            *)

\* Mutant of Loads: the section is entered without waiting for the flock.
LoadsUnlocked(p, r) ==
  /\ at[p] = "idle"
  /\ head[r].stage \notin {"unknown", "closed"}
  /\ Readable(head[r])

\* exclusive() can be entered, and the checkpoint and its artifacts load.
Loads(p, r) ==
  /\ at[p] = "idle"
  /\ lock[r] = None
  /\ head[r].stage \notin {"unknown", "closed"}
  /\ Readable(head[r])

SetOf(s) == {s[i] : i \in DOMAIN s}

\* The command is validated: it will write reports, then artifacts, then next.
Begin(p, r, reports, artifacts, next, reply) ==
  /\ lock' = [lock EXCEPT ![r] = p]
  /\ at' = [at EXCEPT ![p] = "writing"]
  /\ job' = [job EXCEPT ![p] =
       [run |-> r, base |-> head[r],
        next |-> [next EXCEPT !.artifacts = @ \union SetOf(artifacts)],
        todo |-> reports \o artifacts, reply |-> reply]]
  /\ UNCHANGED <<head, whole, torn, approved, kills, told>>

\* A replay of what is recorded is answered from the checkpoint.
Confirm(entry) ==
  /\ told' = told \union {entry}
  /\ UNCHANGED <<head, whole, torn, approved, lock, at, job, kills>>

\* _put, or one file of save_result: written in place.
Write(p) ==
  /\ at[p] = "writing"
  /\ job[p].todo # <<>>
  /\ whole' = whole \union {Head(job[p].todo)}
  /\ torn' = torn \ {Head(job[p].todo)}
  /\ job' = [job EXCEPT ![p].todo = Tail(@)]
  /\ UNCHANGED <<head, approved, lock, at, kills, told>>

\* save: refuse a head that moved since it was loaded.
CompareHead(p) ==
  /\ at[p] = "writing"
  /\ job[p].todo = <<>>
  /\ IF head[job[p].run] = job[p].base
     THEN /\ at' = [at EXCEPT ![p] = "replacing"]
          /\ UNCHANGED lock
     ELSE /\ at' = [at EXCEPT ![p] = "idle"]
          /\ lock' = [lock EXCEPT ![job[p].run] = None]
  /\ UNCHANGED <<head, whole, torn, approved, job, kills, told>>

ReplaceHead(p) ==
  /\ at[p] = "replacing"
  /\ head' = [head EXCEPT ![job[p].run] = job[p].next]
  /\ at' = [at EXCEPT ![p] = "answering"]
  /\ UNCHANGED <<whole, torn, approved, lock, job, kills, told>>

AnswerCaller(p) ==
  /\ at[p] = "answering"
  /\ told' = told \union job[p].reply
  /\ lock' = [lock EXCEPT ![job[p].run] = None]
  /\ at' = [at EXCEPT ![p] = "idle"]
  /\ job' = [job EXCEPT ![p] = NoJob]
  /\ UNCHANGED <<head, whole, torn, approved, kills>>

\* The process dies; the kernel drops its flock; a file it was writing is cut.
Kill(p) ==
  /\ at[p] # "idle"
  /\ kills < MaxKills
  /\ kills' = kills + 1
  /\ lock' = [r \in Run |-> IF lock[r] = p THEN None ELSE lock[r]]
  /\ at' = [at EXCEPT ![p] = "idle"]
  /\ job' = [job EXCEPT ![p] = NoJob]
  /\ \/ UNCHANGED <<whole, torn>>
     \/ /\ at[p] = "writing"
        /\ job[p].todo # <<>>
        /\ whole' = whole \ {Head(job[p].todo)}
        /\ torn' = torn \union {Head(job[p].todo)}
  /\ UNCHANGED <<head, approved, told>>
-----------------------------------------------------------------------------
(* The person's commands.                                                     *)

\* prepare.  Nobody else knows the new run id, so the lock it does not take
\* and the head it does not compare make no difference.
Prepare(p, r, m) ==
  /\ at[p] = "idle"
  /\ lock[r] = None
  /\ head[r] = Unknown
  /\ Begin(p, r, <<>>, <<Own("run-identity", r, m)>>,
           [Unknown EXCEPT !.stage = "created", !.mode = m], {})

\* persist_offered_scope_approval, or the local page: the sidecar is replaced
\* atomically and outside the lock; the run itself advances later.
Approve(p, r) ==
  /\ at[p] = "idle"
  /\ head[r] # Unknown
  /\ r \notin approved
  /\ approved' = approved \union {r}
  /\ UNCHANGED <<head, whole, torn, lock, at, job, kills, told>>

\* _intake_locked: once, right after the scope approval.
Intake(p, r, c) ==
  /\ Loads(p, r)
  /\ head[r].stage = "scopeApproved"
  /\ head[r].intake = None
  /\ Begin(p, r, <<>>, <<Own("intake-receipt", r, c)>>,
           [head[r] EXCEPT !.stage = "intakeRecorded", !.intake = c],
           {<<r, "intake", c>>})

IntakeReplay(p, r, c) ==
  /\ Loads(p, r)
  /\ head[r].intake = c
  /\ Confirm(<<r, "intake", c>>)

\* _focus_locked: once, on a focused run, while the map is the newest fact.
Focus(p, r, c) ==
  /\ Loads(p, r)
  /\ head[r].mode = "focused"
  /\ head[r].stage = "familyMapped"
  /\ head[r].focus = None
  /\ Begin(p, r, <<>>, <<Own("focus-receipt", r, c)>>,
           [head[r] EXCEPT !.focus = c], {<<r, "focus", c>>})

FocusReplay(p, r, c) ==
  /\ Loads(p, r)
  /\ head[r].focus = c
  /\ Confirm(<<r, "focus", c>>)
-----------------------------------------------------------------------------
(* The host's commands: specialist responses.                                 *)

\* _submit_work_locked up to the response: a packet of a planned run.
WorkOpen(p, r) ==
  /\ Loads(p, r)
  /\ head[r].mode # "inventoryOnly"
  /\ head[r].stage = "analysisPlanned"
  /\ RecordsMatch(head[r])

\* The head after one more receipt and its response record.
Recorded(h, k, x) ==
  [h EXCEPT !.receipts[k] = Append(@, x),
            !.receiptCount = @ + 1, !.recordCount = @ + 1]

\* Mutant of SubmitWork: a later answer takes the place of the earlier ones.
SubmitLatestWins(p, r, k, x) ==
  /\ WorkOpen(p, r)
  /\ k = Sceptic => \A n \in Normal : Final(head[r], n)
  /\ LET next == [head[r] EXCEPT !.receipts[k] = <<x>>]
     IN  Begin(p, r, <<>>, QueueFiles(r, next), next, {})

\* A response is recorded: an answer is final, the first malformed response
\* leaves one retry and the second is final too.
SubmitWork(p, r, k, x) ==
  /\ WorkOpen(p, r)
  /\ Pending(head[r], k)
  /\ LET next == Recorded(head[r], k, x)
     IN  Begin(p, r, <<>>, QueueFiles(r, next), next,
               IF x \in Answer THEN {<<r, k, x>>} ELSE {})

\* The answer that is already final, again.
ReplayAnswer(p, r, k, x) ==
  /\ WorkOpen(p, r)
  /\ Answered(head[r], k)
  /\ LastOf(head[r].receipts[k]) = x
  /\ Confirm(<<r, k, x>>)

\* A malformed response to a packet that is already unresolved.  WorkQueue.record
\* takes the receipt for a replay and keeps the queue; the response record is
\* appended all the same.
ReplayMalformed(p, r, k) ==
  /\ WorkOpen(p, r)
  /\ Final(head[r], k)
  /\ ~Answered(head[r], k)
  /\ LET next == [head[r] EXCEPT !.recordCount = @ + 1]
     IN  Begin(p, r, <<>>, QueueFiles(r, next), next, {})

\* _submit_locked: the legacy port of inventory-only runs, open until the close.
\* A repeated proposal would only lengthen the stored list.
Submit(p, r, x) ==
  /\ Loads(p, r)
  /\ head[r].mode = "inventoryOnly"
  /\ head[r].stage \in {"catalogueVerified", "familyMapped", "jobsConfirmed",
                        "compared", "rendered", "checked", "saved"}
  /\ x \notin head[r].proposals
  /\ LET next == [head[r] EXCEPT !.proposals = @ \union {x}]
     IN  Begin(p, r, <<>>, <<Own("proposals", r, next.proposals)>>, next, {})
-----------------------------------------------------------------------------
(* The host's commands: advance, one action per handler.                      *)

\* The handler of the stage after from.
Handler(p, r, from) ==
  /\ Loads(p, r)
  /\ head[r].stage = from

Moved(h) == [h EXCEPT !.stage = NextStage[h.stage]]

ApproveScope(p, r) ==
  /\ Handler(p, r, "created")
  /\ r \in approved
  /\ Begin(p, r, <<>>, <<Own("scope-receipt", r, None)>>, Moved(head[r]), {})

Capture(p, r) ==
  /\ Handler(p, r, "intakeRecorded")
  /\ Begin(p, r, <<>>, <<Own("fingerprint", r, None)>>, Moved(head[r]), {})

VerifyCatalogue(p, r) ==
  /\ Handler(p, r, "captured")
  /\ Begin(p, r, <<>>, <<Shared("catalogue")>>, Moved(head[r]), {})

MapFamilies(p, r) ==
  /\ Handler(p, r, "catalogueVerified")
  /\ Begin(p, r, <<>>, <<Own("family-map", r, None)>>, Moved(head[r]), {})

ConfirmJobs(p, r) ==
  /\ Handler(p, r, "familyMapped")
  /\ head[r].mode = "focused" => head[r].focus # None
  /\ Begin(p, r, <<>>, <<Own("diagnosis-input", r, None)>>, Moved(head[r]), {})

PlanAnalysis(p, r) ==
  /\ Handler(p, r, "jobsConfirmed")
  /\ head[r].mode # "inventoryOnly"
  /\ Begin(p, r, <<>>, QueueFiles(r, head[r]), Moved(head[r]), {})

CompleteAnalysis(p, r) ==
  /\ Handler(p, r, "analysisPlanned")
  /\ RecordsMatch(head[r])
  /\ Complete(head[r])
  /\ Begin(p, r, <<>>, <<Own("reconciled-proposals", r, None)>>, Moved(head[r]), {})

\* _compare_ledger: after the analysis, or straight from the confirmed jobs of
\* an inventory-only run.
CompareLedger(p, r) ==
  /\ Loads(p, r)
  /\ head[r].stage = IF head[r].mode = "inventoryOnly"
                     THEN "jobsConfirmed" ELSE "analysisCompleted"
  /\ head[r].mode # "inventoryOnly" => RecordsMatch(head[r])
  /\ Covered(head[r])
  /\ Begin(p, r, <<>>, <<Own("ledger", r, None)>>,
           [head[r] EXCEPT !.stage = "compared", !.ledger = LedgerOf(head[r])], {})

\* _render and _check store nothing but the stage.
RenderOrCheck(p, r) ==
  /\ \/ Handler(p, r, "compared")
     \/ Handler(p, r, "rendered")
  /\ Begin(p, r, <<>>, <<>>, Moved(head[r]), {})

\* Mutant of Save: a report that is already there is taken for this run's.
SaveKeepsReport(p, r) ==
  /\ Handler(p, r, "checked")
  /\ Begin(p, r,
           IF ReportFile(r, 1, "markdown") \in whole THEN <<>>
           ELSE <<ReportFile(r, 1, "markdown"), ReportFile(r, 1, "ledgerJson"),
                  ReportFile(r, 1, "resultJson")>>,
           <<Own("saved-report", r, 1)>>,
           [Moved(head[r]) EXCEPT !.report = 1], {})

\* _save: the report's three files first, under a name that is free.
Save(p, r) ==
  /\ Handler(p, r, "checked")
  /\ \E n \in 1 .. MaxKills + 1 :
       /\ FreeReport(r, n)
       /\ Begin(p, r,
               <<ReportFile(r, n, "markdown"), ReportFile(r, n, "ledgerJson"),
                 ReportFile(r, n, "resultJson")>>,
               <<Own("saved-report", r, n)>>,
               [Moved(head[r]) EXCEPT !.report = n], {})

Close(p, r) ==
  /\ Handler(p, r, "saved")
  /\ head[r].mode = "focused" => RecordsMatch(head[r]) /\ Covered(head[r])
  /\ Begin(p, r, <<>>, <<>>, Moved(head[r]), {})
-----------------------------------------------------------------------------
PersonStep(p, r) ==
  \/ \E m \in Mode : Prepare(p, r, m)
  \/ Approve(p, r)
  \/ \E c \in Choice : Intake(p, r, c) \/ IntakeReplay(p, r, c)
  \/ \E c \in Choice : Focus(p, r, c) \/ FocusReplay(p, r, c)

HostStep(p, r) ==
  \/ \E k \in Packet, x \in Response : SubmitWork(p, r, k, x)
  \/ \E k \in Packet, x \in Answer : ReplayAnswer(p, r, k, x)
  \/ \E k \in Packet : ReplayMalformed(p, r, k)
  \/ \E x \in Answer : Submit(p, r, x)

AdvanceStep(p, r) ==
  \/ ApproveScope(p, r) \/ Capture(p, r) \/ VerifyCatalogue(p, r)
  \/ MapFamilies(p, r) \/ ConfirmJobs(p, r) \/ PlanAnalysis(p, r)
  \/ CompleteAnalysis(p, r) \/ CompareLedger(p, r) \/ RenderOrCheck(p, r)
  \/ Save(p, r) \/ Close(p, r)

StoreStep(p) ==
  Write(p) \/ CompareHead(p) \/ ReplaceHead(p) \/ AnswerCaller(p) \/ Kill(p)

Next ==
  \E p \in Proc :
    \/ \E r \in Run : PersonStep(p, r) \/ HostStep(p, r) \/ AdvanceStep(p, r)
    \/ StoreStep(p)

Spec == Init /\ [][Next]_vars
-----------------------------------------------------------------------------
(* Properties.                                                                *)

\* Checkpoints whose artifacts are among the given files.
HeadsOver(files) ==
  [stage : Stage, mode : Mode \union {None}, artifacts : SUBSET files,
   intake : Choice \union {None}, focus : Choice \union {None},
   receipts : [Packet -> {<<>>} \union {<<x>> : x \in Response}
                         \union {<<"malformed", x>> : x \in Response}],
   receiptCount : Nat, recordCount : Nat, proposals : SUBSET Answer,
   ledger : {None} \union [answers : [Packet -> Answer \union {None}],
                           proposals : SUBSET Answer],
   report : 0 .. MaxKills + 1]

\* Every checkpoint is one the models of run.py and work.py accept: at most one
\* malformed attempt before the last, and only artifacts that were written.
TypeOK ==
  /\ head \in [Run -> HeadsOver(whole \union torn)]
  /\ whole \intersect torn = {}
  /\ approved \subseteq Run
  /\ lock \in [Run -> Proc \union {None}]
  /\ at \in [Proc -> {"idle", "writing", "replacing", "answering"}]
  /\ kills \in 0 .. MaxKills

\* What a caller was told is recorded, stays recorded: an accepted answer, the
\* intake answers and the focus selection survive other processes and kills.
Holds(h, item, v) ==
  CASE item = "intake" -> h.intake = v
    [] item = "focus" -> h.focus = v
    [] OTHER -> Answered(h, item) /\ LastOf(h.receipts[item]) = v

ToldIsKept == \A e \in told : Holds(head[e[1]], e[2], e[3])

\* A checkpoint only ever follows from the one it replaces: one stage on or the
\* same stage, answers final once given, receipts and artifacts only added.
Follows(old, new) ==
  /\ \/ new.stage = old.stage
     \/ old.stage = "unknown" /\ new.stage = "created"
     \/ old.stage \in DOMAIN NextStage /\ new.stage = NextStage[old.stage]
     \/ /\ old.mode = "inventoryOnly"
        /\ old.stage = "jobsConfirmed"
        /\ new.stage = "compared"
  /\ old.intake # None => new.intake = old.intake
  /\ old.focus # None => new.focus = old.focus
  /\ old.artifacts \subseteq new.artifacts
  /\ \A k \in Packet :
       IF Final(old, k) THEN new.receipts[k] = old.receipts[k]
       ELSE \E s \in {<<>>} \union {<<x>> : x \in Response} :
              new.receipts[k] = old.receipts[k] \o s

OnlyForward == [][\A r \in Run : Follows(head[r], head'[r])]_vars

\* The sceptical reconciler only ever reviews finished normal work.
ScepticLast ==
  \A r \in Run :
    Attempted(head[r], Sceptic) => \A n \in Normal : Final(head[r], n)

\* A saved run names a report whose three files are complete.
SavedReportIsWhole ==
  \A r \in Run :
    head[r].stage \in {"saved", "closed"} =>
      \A part \in ReportParts : ReportFile(r, head[r].report, part) \in whole

\* The ledger of a run with specialist work is exactly the answers of a finished
\* queue: no packet is left out of it, none is answered after it.
LedgerIsTheAnswers ==
  \A r \in Run :
    head[r].ledger # None /\ head[r].mode # "inventoryOnly" =>
      /\ \A k \in Packet : Final(head[r], k)
      /\ head[r].ledger = LedgerOf(head[r])

\* "No selected member may hold a silent not-assessed row": the ledger of a
\* focused run has, for every entry of the recorded selection, an answer that
\* gives a verdict on it, to whatever packet.
FocusIsCovered ==
  \A r \in Run :
    LET ledger == head[r].ledger IN
    ledger # None /\ head[r].mode = "focused" =>
      /\ head[r].focus \in Choice
      /\ \A e \in Selected[head[r].focus] : \E k \in Packet :
           ledger.answers[k] # None /\ e \in Cites[k][ledger.answers[k]]

\* submit_work's promise about replays: a response that changes nothing leaves
\* the run usable, so the records of a planned run match its receipts.
ReplayIsHarmless ==
  \A r \in Run : head[r].stage = "analysisPlanned" => RecordsMatch(head[r])

=============================================================================
