------------------------------- MODULE Report -------------------------------
(***************************************************************************)
(* What a finished comparison is told as, kept as and taken back as         *)
(* (diagnosis/report.py, wow_gate.py, reports/store.py, ledger.py, cli.py): *)
(* the engine renders the ledger into a report and saves it with its ledger *)
(* file by file; the person's assistant may rewrite either file and ask the *)
(* command line to keep the pair; the gate grades the ledger.               *)
(*                                                                         *)
(* A report is a record of the statements it makes; the wording is left     *)
(* out.  A ledger on disk carries no reservation for a person's own review: *)
(* the canonical payload, and so the digest, does not hold that flag.       *)
(***************************************************************************)
EXTENDS Comparison, SequencesExt

CONSTANTS
  Intakes,     \* what the person may have answered about Dex; None: not asked
  Labels,      \* {EngineLabel} and the labels a person saves under
  EngineLabel,
  MaxCopies,   \* bound: reports of one label in one second
  MaxKept,     \* bound: pairs taken back
  MaxKills,    \* bound: processes killed
  MaxTold,     \* bound: proposals of a run whose report is followed
  Rewritten(_, _), \* the pairs the assistant may make of a report and its ledger
  Overwritten(_)   \* what it may put in the place of a ledger

VARIABLES
  disk,      \* [Paths -> [md, ledger, result]], the report directory
  saving,    \* Idle, or the report being written and how far it is
  kept,      \* the pairs the command line took back, and the ledger it stored
  kills,     \* how many saves were cut short by a kill
  left       \* history: the paths whose last save left what it had written

filing == <<disk, saving, kept, kills, left>>
reportVars == <<comparisonVars, filing>>

Paths == Labels \X (1 .. MaxCopies)
Absent == [file |-> "absent"]
Torn == [file |-> "torn"]   \* a file whose writing was interrupted
NoFile == [md |-> Absent, ledger |-> Absent, result |-> Absent]
Idle == [next |-> "idle"]

Readable(p, part) == disk[p][part] \notin {Absent, Torn}
Whole(p) == Readable(p, "md") /\ Readable(p, "ledger")

ASSUME TheEngineHasALabel == EngineLabel \in Labels

---------------------------------------------------------------------------
(* The ledger as the report reads it.                                      *)
Typed ==
  [entries |-> ledger.entries, moves |-> ledger.moves, jobs |-> ledger.jobs,
   insights |-> ledger.insights, distance |-> ledger.distance,
   rows |-> [f \in Families |-> ledger.families[f].state],
   matched |-> [f \in Families |-> Cardinality(DOMAIN ledger.families[f].matched)],
   unresolved |-> [f \in Families |-> Cardinality(ledger.families[f].unresolved)],
   local |-> ledger.local, unique |-> ledger.unique,
   reserved |-> {f \in Families : Profile[f] = "manual-only"},
   selected |-> IF selection = None THEN {} ELSE selection,
   installed |-> ~IsNonLineage(fingerprint),
   support |-> [c \in Entries |-> Cardinality(Cited({p \in Positions : p.cap = c}))]]

(* The one payload that is digested and stored.                            *)
Payload(d) == [d EXCEPT !.reserved = {}]

Standing(d, disposition) == {x \in Entries : d.entries[x].disp = disposition}
Unexamined(d) == Standing(d, "not-assessed")

(* The coverage-first voice needs every area assessed or reserved, and      *)
(* every member of every selected area examined.                           *)
MapCovered(d) ==
  /\ Families # {}
  /\ \A f \in Families : d.rows[f] = "not-assessed" => f \in d.reserved
  /\ d.selected \subseteq Families
  /\ \A f \in d.selected : Members[f] \cap Unexamined(d) = {}

AreasAssessed(d) ==
  /\ Families # {}
  /\ \A f \in Families : d.rows[f] = "not-assessed" => f \in d.reserved

Confession(d) ==
  [voice |-> "not examined", entries |-> Unexamined(d),
   areas |-> {f \in Families : Members[f] \cap Unexamined(d) # {}},
   outside |-> Unexamined(d) \ UNION {Members[f] : f \in Families}]

Told(d, covered) ==
  CASE covered ->
         [voice |-> "covered", reserved |-> d.reserved, dives |-> d.selected,
          everyEntry |-> Unexamined(d) = {}]
    [] ~covered /\ Unexamined(d) = {} -> [voice |-> "all assessed"]
    [] OTHER -> Confession(d)

\* Mutant of Coverage: the members of the selected areas are not looked at.
CoverageOfAreas(d) == Told(d, AreasAssessed(d))
Coverage(d) == Told(d, MapCovered(d))

(* How far the install is behind, or why nothing is claimed.                *)
ReleaseGap(d) ==
  CASE d.distance # None ->
         [claim |-> "behind", atLeast |-> Cardinality(d.distance.newer), areas |-> d.distance.families]
    [] d.distance = None /\ ~d.installed -> [claim |-> "not-installed"]
    [] OTHER -> [claim |-> IF Families = {} THEN "no-families" ELSE "unknown"]

(* The person's own answer beside the files, when the two disagree.         *)
Disagreement(d, intake) ==
  \/ intake = "no" /\ d.installed
  \/ intake = "yes" /\ ~d.installed

(* The two first moves of a report: the one its recommendations open with,  *)
(* by rank, and the one its close names, by the observations behind it.     *)
Ahead(m, n) == m.factors > n.factors

BestMove(d) ==
  LET best == {m \in d.moves : \A n \in d.moves : ~Ahead(n, m)}
  IN IF best = {} THEN None ELSE (CHOOSE m \in best : TRUE).id

ClosingMove(d) ==
  LET borrowed == Standing(d, "worth-borrowing")
      seen(x) == d.support[d.entries[x].cap]
      cited(x) == Cardinality(d.entries[x].tokens)
      better(x, y) == seen(x) > seen(y) \/ (seen(x) = seen(y) /\ cited(x) > cited(y))
      best == {x \in borrowed : \A y \in borrowed : ~better(y, x)}
  IN IF Cardinality(best) = 1 THEN CHOOSE x \in best : TRUE ELSE None

(* The sections that judge, each with the entries and insights it names: an  *)
(* entry already told as a ranked move is not told again.                   *)
Praised(d) ==
  [strong |-> Strengths(d.insights), working |-> Standing(d, "strong-here") \cup Standing(d, "shared")]

Learned(d) == [lessons |-> Lessons(d.insights), reviewed |-> Standing(d, "dex-should-learn")]

Borrowed(d) ==
  LET ranked == {m.id : m \in d.moves}
  IN [ranked |-> ranked, told |-> Standing(d, "worth-borrowing") \ ranked]

Judged(d) ==
  [rejected |-> Standing(d, "not-relevant"), fragile |-> Standing(d, "fragile-or-contradictory"),
   connections |-> Connections(d.insights)]

Dispositions == Scored \cup {"not-relevant", "not-assessed"}

(* The facts a report states in numbers, and the rows it lists them from.    *)
Facts(d) ==
  LET all(counts) == MapThenSumSet(LAMBDA f : counts[f], Families)
      local(Kept(_)) == Cardinality({o \in DOMAIN d.local : Kept(d.local[o])})
  IN [dispositions |-> [a \in Dispositions |-> Cardinality(Standing(d, a))],
      seen |-> Cardinality(DOMAIN d.local),
      mapped |-> local(LAMBDA row : row.mapped # {}),
      open |-> local(LAMBDA row : row.disp = "not-assessed"),
      components |-> <<all(d.matched), all(d.unresolved)>>]

Appendix(d) ==
  [entries |-> d.entries, families |-> <<d.rows, d.matched, d.unresolved>>, jobs |-> d.jobs,
   changes |-> d.distance, local |-> d.local]

(* What is said of each area: that what is missing cannot be there, that it   *)
(* is unknown, or that nothing is missing.                                  *)
FamilyCoverage(d) ==
  [f \in Families |->
     [matched |-> d.matched[f],
      missing |-> CASE d.rows[f] = "postdates-install" -> "cannot be installed"
                    [] d.rows[f] # "postdates-install" /\ d.unresolved[f] > 0 -> "unknown"
                    [] OTHER -> "none"]]

(* What was given to each area since, and what nobody at Dex signed; where   *)
(* the install is behind, that may be an older Dex.                         *)
Changes(d) ==
  IF d.distance = None THEN <<>>
  ELSE [f \in d.distance.families |->
          [new |-> Introduced(f, d.distance.inspected), changed |-> Changed(f, d.distance.inspected),
           offered |-> Availability(f, Active[1])]]

UniqueToYou(d) == [items |-> d.unique, mayBeOlderDex |-> d.unique # {} /\ d.distance # None]

(* What the prose of a report shows, apart from its statements.  The engine *)
(* quotes nothing from a file.                                             *)
RequiredSections ==
  <<"read", "working", "learn", "borrow", "fragile", "limits", "next">>

Unquoted ==
  [sections |-> RequiredSections, praise |-> FALSE, method |-> FALSE, hunt |-> FALSE,
   quoted |-> FALSE, bare |-> 1, borrowed |-> 0, rejections |-> TRUE, since |-> FALSE]

Render(d, intake) ==
  [digest |-> Payload(d), coverage |-> Coverage(d), gap |-> ReleaseGap(d), jobs |-> d.jobs,
   praised |-> Praised(d), learned |-> Learned(d), borrowed |-> Borrowed(d), judged |-> Judged(d),
   disagrees |-> Disagreement(d, intake),
   facts |-> Facts(d), appendix |-> Appendix(d), areas |-> FamilyCoverage(d), changes |-> Changes(d),
   unique |-> UniqueToYou(d),
   best |-> BestMove(d), closing |-> ClosingMove(d), decided |-> d.selected,
   behind |-> FALSE, prose |-> Unquoted]

(* A report is rendered only of insights that cite what the ledger holds, and *)
(* saved only when its facts and its rows are those of the ledger.           *)
Held(d) ==
  CitedIn(d.entries) \cup CitedIn(d.local) \cup CitedIn(d.jobs)
    \cup UNION {FamilyEvidence(f, fingerprint) : f \in Families}

Grounded(d) == \A i \in d.insights : i.tokens \subseteq Held(d)

TellsItsLedger(md, d) ==
  md.digest = Payload(d) /\ md.facts = Facts(d) /\ md.appendix = Appendix(d)

---------------------------------------------------------------------------
(* Taking a report back: everything the command line asks of a report, the  *)
(* ledger beside it and the report saved before it.                        *)
Digested(md, d) == md.digest # None /\ md.digest = Payload(d)

OwnsUp(md, d) ==
  \/ Unexamined(d) = {} /\ ~MapCovered(d)
  \/ md.coverage = Coverage(d)

KeepsJobs(md, d) == DOMAIN d.jobs # {} => md.jobs = d.jobs /\ ~md.behind

Previous(label) == {n \in 1 .. MaxCopies : disk[<<label, n>>].md # Absent}

(* The ledger must be one the signed catalogue allows: it belongs to the    *)
(* cached catalogue, and claims no reservation that one does not make.      *)
Rebinds(d) ==
  /\ cached = 1
  /\ d.reserved \subseteq {f \in Families : Profile[f] = "manual-only"}
  /\ LawfulLedger([entries |-> d.entries, moves |-> d.moves, jobs |-> d.jobs, distance |-> d.distance])

(* No quotation, no claim.                                                  *)
InOrder(prose) ==
  SelectSeq(prose.sections, LAMBDA t : t \in ToSet(RequiredSections)) = RequiredSections

Quotes(prose) == prose.quoted /\ prose.praise /\ prose.method /\ prose.bare = 0

Compares(prose) ==
  prose.borrowed <= MaxRecommendations /\ (prose.borrowed > 0 => prose.rejections)

Accounts(prose, label) == Previous(label) # {} => prose.since

ShowsItsWork(prose, label) ==
  InOrder(prose) /\ Quotes(prose) /\ prose.hunt /\ Compares(prose) /\ Accounts(prose, label)

\* Mutant of Gate: the digest is asked for and not compared.
GateUnbound(md, d, label) ==
  /\ ShowsItsWork(md.prose, label)
  /\ Rebinds(d) /\ md.digest # None /\ OwnsUp(md, d) /\ KeepsJobs(md, d)

Gate(md, d, label) ==
  /\ ShowsItsWork(md.prose, label)
  /\ Rebinds(d) /\ Digested(md, d) /\ OwnsUp(md, d) /\ KeepsJobs(md, d)

---------------------------------------------------------------------------
(* Saving: the first path of this second and label that holds no report;    *)
(* then the report, its ledger and, for the engine's own, its result.       *)
FreePath(label, n) == n \notin Previous(label) /\ 1 .. (n - 1) \subseteq Previous(label)

Start(label, md, d) ==
  /\ saving = Idle
  /\ \E n \in 1 .. MaxCopies :
       /\ FreePath(label, n)
       /\ saving' = [path |-> <<label, n>>, md |-> md, ledger |-> d, next |-> "md"]
       /\ left' = left \ {<<label, n>>}

SaveResult(intake) ==
  /\ HasLedger /\ Cardinality(UNION {answers[r] : r \in Packets}) <= MaxTold
  /\ \A n \in 1 .. MaxCopies : ~Readable(<<EngineLabel, n>>, "result")
  /\ Grounded(Typed) /\ TellsItsLedger(Render(Typed, intake), Typed)
  /\ Start(EngineLabel, Render(Typed, intake), Payload(Typed))
  /\ UNCHANGED <<comparisonVars, disk, kept, kills>>

Put(part, content) == disk' = [disk EXCEPT ![saving.path] = [@ EXCEPT ![part] = content]]

Following(part) ==
  CASE part = "md" -> [saving EXCEPT !.next = "ledger"]
    [] part = "ledger" /\ saving.path[1] = EngineLabel -> [saving EXCEPT !.next = "result"]
    [] OTHER -> Idle

Content(part) ==
  CASE part = "md" -> saving.md [] part = "ledger" -> saving.ledger [] part = "result" -> saving.ledger

Write ==
  /\ saving.next \in {"md", "ledger", "result"}
  /\ Put(saving.next, Content(saving.next))
  /\ saving' = Following(saving.next)
  /\ UNCHANGED <<comparisonVars, kept, kills, left>>

(* A write that fails leaves a torn file.  The report, and after a result    *)
(* also the ledger, are then removed so that no report stands alone; a torn  *)
(* report itself nobody removes.                                           *)
WriteFails ==
  /\ saving.next \in {"md", "ledger", "result"}
  /\ Put(saving.next, Torn)
  /\ saving' = CASE saving.next = "md" -> Idle
                 [] saving.next = "ledger" -> [saving EXCEPT !.next = "undo-ledger"]
                 [] saving.next = "result" -> [saving EXCEPT !.next = "undo-result"]
  /\ left' = IF saving.next = "md" THEN left \cup {saving.path} ELSE left
  /\ UNCHANGED <<comparisonVars, kept, kills>>

\* Mutant of Undo: a report whose ledger was not written stays.
KeepReport ==
  /\ saving.next \in {"undo-ledger", "undo-result", "undo-both"}
  /\ IF saving.next = "undo-both" THEN Put("ledger", Absent) ELSE UNCHANGED disk
  /\ saving' = IF saving.next = "undo-result" THEN [saving EXCEPT !.next = "undo-both"] ELSE Idle
  /\ UNCHANGED <<comparisonVars, kept, kills, left>>

Undo ==
  /\ saving.next \in {"undo-ledger", "undo-result", "undo-both"}
  /\ IF saving.next = "undo-both" THEN Put("ledger", Absent) ELSE Put("md", Absent)
  /\ saving' = IF saving.next = "undo-result" THEN [saving EXCEPT !.next = "undo-both"] ELSE Idle
  /\ UNCHANGED <<comparisonVars, kept, kills, left>>

(* The removal itself fails: its error takes the place of the first one.     *)
UndoFails ==
  /\ saving.next \in {"undo-ledger", "undo-result", "undo-both"}
  /\ saving' = Idle /\ left' = left \cup {saving.path}
  /\ UNCHANGED <<comparisonVars, disk, kept, kills>>

(* The process ends at any point of a save.                                 *)
Kill ==
  /\ saving # Idle /\ kills < MaxKills
  /\ saving' = Idle /\ kills' = kills + 1 /\ left' = left \cup {saving.path}
  /\ UNCHANGED <<comparisonVars, disk, kept>>

(* The assistant offers a pair, its own or made of a saved one.  What is      *)
(* wrong with it is asked of one reading of the ledger file; what is stored   *)
(* beside the report is what a second reading finds, another ledger or half   *)
(* of one if the assistant was still writing.                               *)
TakeBack(label, p) ==
  /\ saving = Idle /\ Cardinality(kept) < MaxKept /\ Whole(p)
  /\ \E pair \in Rewritten(disk[p].md, disk[p].ledger) :
       /\ {pair.md, pair.ledger} \cap {Absent, Torn} = {} /\ Gate(pair.md, pair.ledger, label)
       /\ \E again \in {pair.ledger} \cup (Overwritten(pair.ledger) \ {Absent}) :
            /\ Start(label, pair.md, again)
            /\ kept' = kept \cup {[path |-> saving'.path, md |-> pair.md, ledger |-> pair.ledger, stored |-> again]}
  /\ UNCHANGED <<comparisonVars, disk, kills>>

(* History: the ledger was rewritten between the two readings.               *)
Altered(p) == \E k \in kept : k.path = p /\ k.stored # k.ledger

---------------------------------------------------------------------------
ReportInit ==
  /\ CompareInit
  /\ disk = [p \in Paths |-> NoFile]
  /\ saving = Idle /\ kept = {} /\ kills = 0 /\ left = {}

ReportNext ==
  \/ CompareNext /\ UNCHANGED filing
  \/ \E intake \in Intakes : SaveResult(intake)
  \/ Write \/ WriteFails \/ Undo \/ UndoFails \/ Kill
  \/ \E label \in Labels \ {EngineLabel}, p \in Paths : TakeBack(label, p)

ReportSpec == ReportInit /\ [][ReportNext]_reportVars

---------------------------------------------------------------------------
(* The grade of a ledger: what is claimed must cite what is held, and the    *)
(* members of what was selected must not be silent.                         *)
Determinate == {"present", "partial", "absent", "not-relevant", "not-currently-available"}

Claimed(d) ==
  {i.tokens : i \in d.insights} \cup {m.tokens : m \in d.moves}
    \cup {FamilyEvidence(f, fingerprint) :
            f \in {g \in Families : MapState(g, fingerprint, Active[1]) \in Determinate}}

Sampled(d) ==
  /\ d.selected # {}
  /\ \/ ~(d.selected \subseteq Families)
     \/ \E f \in d.selected : \E x \in Members[f] :
          d.entries[x].disp = "not-assessed" /\ d.entries[x].tokens = {}

HardFailures(d) ==
  (IF Audit.closed < Audit.packets THEN {"incomplete-packets"} ELSE {})
  \cup (IF Sampled(d) THEN {"sampled-selection"} ELSE {})
  \cup (IF Cardinality(d.moves) > MaxRecommendations THEN {"too-many-recommendations"} ELSE {})
  \cup (IF \E c \in Claimed(d) : c = {} \/ ~(c \subseteq Held(d)) THEN {"unsupported-claim"} ELSE {})

---------------------------------------------------------------------------
OwnReports == {disk[p].md : p \in {q \in Paths : q[1] = EngineLabel /\ Readable(q, "md")}}

(* A report that says every capability inside the chosen areas was examined  *)
(* one by one says so of what the person chose, and of every member somebody *)
(* gave an answer that nobody disputes and the sceptic left standing; and     *)
(* neither the gate that grades a comparison of areas nor the status told     *)
(* while its packets were answered finds a dive without an answer (jobs are   *)
(* looked up among the areas, so nothing is said of them).                   *)
DeepDivesWereDeep ==
  /\ \A r \in OwnReports :
       r.coverage.voice = "covered" /\ r.coverage.dives # {} =>
         /\ r.coverage.dives = selection /\ selection \subseteq Families
         /\ \A f \in selection : \A x \in Members[f] :
              \/ \E c \in Candidates(x) : Stands(c) \notin {"disputed", "not-assessed"}
              \/ x \in {SkillScore, BackupRestore}
  /\ HasLedger /\ ~IsNonLineage(fingerprint) => "sampled-selection" \notin HardFailures(Typed)
  /\ selection # None /\ ~IsNonLineage(fingerprint) /\ Status.progress # None =>
       \A f \in selection : status[Leads[f]] = "completed" => Status.progress.dives[f].findings > 0

(* Whatever the assistant makes of a report and its ledger, a report that is  *)
(* kept under the digest of this run tells the jobs and the coverage of this  *)
(* run, with its reservations or with fewer of them; and the ledger stored    *)
(* beside it tells the dispositions of this run, if nobody rewrote it after   *)
(* it was checked (cli.py, _save reads it a second time).                    *)
KeptTellsTheRun ==
  \A k \in kept : LET d == Typed IN
    k.md.digest = Payload(d) =>
      /\ k.stored = k.ledger => Payload(k.stored) = Payload(d)
      /\ Unexamined(d) # {} =>
           \E fs \in SUBSET d.reserved : k.md.coverage = Coverage([d EXCEPT !.reserved = fs])
      /\ DOMAIN d.jobs # {} => k.md.jobs = d.jobs /\ ~k.md.behind

(* A report at rest, kept from a ledger nobody rewrote between its two         *)
(* readings, is whole and has its own ledger beside it, whatever write failed: *)
(* unless its save was killed, the write of the report itself failed, or the  *)
(* clean-up after a failed ledger failed as well.  None of the three leaves it *)
(* beside another's ledger.                                                  *)
ReportsHaveTheirLedger ==
  \A p \in Paths :
    disk[p].md # Absent /\ ~Altered(p) /\ (saving = Idle \/ saving.path # p) =>
      /\ Whole(p) => disk[p].md.digest = Payload(disk[p].ledger)
      /\ Whole(p) \/ p \in left

===========================================================================
