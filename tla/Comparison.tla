---------------------------- MODULE Comparison ----------------------------
(***************************************************************************)
(* A guided or focused run from its first specialist answer to its ledger  *)
(* (orchestrator.submit_work, _complete_analysis and _compare_ledger;      *)
(* specialists.py; UnknownUntilProposedComparer.compare and the validators *)
(* of ComparisonLedger).  Answers arrive in any order; a refused answer    *)
(* may be tried once more; the sceptic answers last and may only keep or    *)
(* lower what the others proposed; the ledger is then built from the       *)
(* answers and refused when it breaks one of its own rules.                *)
(*                                                                         *)
(* A proposal is [kind, id, cap, disp, factors, verdict, tokens].  A factor *)
(* tuple is a number: the larger one ranks first.  Tokens are numbers in    *)
(* their sorting order.  The words of a reason are left out: where they     *)
(* order proposals the choice is free.                                     *)
(***************************************************************************)
EXTENDS FamilyMap, FiniteSetsExt

CONSTANTS
  Roles, Sceptic,   \* the packets answered in any order, and the last one
  Offers,           \* [Roles -> SUBSET proposals]: what a specialist may write
  Views,            \* the proposals the sceptic may write
  Fingerprints,     \* what the approved folders may hold
  Selections,       \* what a focused run may select; None is a guided run
  Leads,            \* [Families \cup Jobs -> Roles]: who must cover a selection
  Turn, Fallback,   \* [Roles -> Nat]: the order of the queue; the role of an
                    \* unknown family in the table of families
  JobMembers,       \* [Jobs -> SUBSET Entries]
  Active,           \* [catalogue versions -> SUBSET Entries]
  SkillScore, BackupRestore, BackupFamily,
  EngineFactors,    \* the factors of the engine's own recommendations
  MaxOffers,        \* MAX_PROPOSALS_PER_PACKET
  MaxTokens,        \* MAX_EVIDENCE_IDS
  MaxRecommendations,
  MaxFactors        \* MAX_FACTOR_TUPLES_PER_CANDIDATE

ASSUME VersionsAreNumbered == 1 \in DOMAIN Active

(* The sceptic is the eighth of the packets and leads nothing; a selection is  *)
(* led by one of the others, and a job of the catalogue names its entries.     *)
ASSUME RolesAreTold ==
  /\ IsFiniteSet(Roles) /\ Sceptic \notin Roles
  /\ \A f \in Families : Leads[f] \in Roles
  /\ \A j \in Jobs : JobMembers[j] \subseteq Entries

Refused == [refused |-> TRUE]   \* in place of a ledger that breaks one of its rules

(* What the schema of a proposal admits, in finitely many forms: factors that  *)
(* can be compared, or none, and a disposition of the closed list.            *)
ASSUME ProposalsAreShaped ==
  /\ None \notin Nat \cup {Refused} /\ EngineFactors \in Nat
  /\ MaxTokens \in Nat \ {0} /\ MaxRecommendations \in Nat
  /\ \A r \in Roles : IsFiniteSet(Offers[r])
  /\ \A p \in (UNION {Offers[r] : r \in Roles}) \cup Views :
       p.factors \in Nat \cup {None} /\ p.disp # "disputed"
  /\ \A fp \in Fingerprints : \A o \in fp : o.token \in Nat

VARIABLES
  fingerprint, selection,  \* fixed before the first packet is issued
  cached,                  \* the version of the last verified catalogue
  status, answers,         \* per packet: its last receipt and what it proposed
  reconciled,              \* the stored proposals, once analysis is complete
  ledger                   \* None, a refusal, or the ledger

given == <<fingerprint, selection>>
comparisonVars == <<fingerprint, selection, cached, status, answers, reconciled, ledger>>

Packets == Roles \cup {Sceptic}
Final == {"completed", "unresolved"}
Scored == {"strong-here", "shared", "worth-borrowing", "dex-should-learn", "fragile-or-contradictory"}
Downgrades == {"not-assessed", "not-relevant", "fragile-or-contradictory"}
Verdicts == {"serves", "partially-serves", "does-not-serve"}
MethodBound == {"shared", "dex-should-learn"}
MethodReviews == {"method-comparison", "reciprocal"}

Candidate(p) == <<p.kind, p.id, p.cap>>
IsRecommendation(p) == p.kind = "recommendation" \/ p.disp = "worth-borrowing"
Group(ps, c) == {p \in ps : Candidate(p) = c}
FactorsOf(ps) == {p.factors : p \in ps} \ {None}
FirstOf(tokens) == {t \in tokens : Cardinality({s \in tokens : s < t}) < MaxTokens}
Cited(ps) == UNION {p.tokens : p \in ps}

---------------------------------------------------------------------------
(* What this run may cite, rebuilt every time an answer is read.  The       *)
(* stored catalogue facts must be those of the cached catalogue: once a     *)
(* newer one was fetched nothing of this run can go on.                     *)
Pinned == cached = 1

Slice ==
  IF selection = None THEN Entries
  ELSE IF IsNonLineage(fingerprint) THEN UNION {JobMembers[j] : j \in selection}
  ELSE UNION {Members[f] : f \in selection}

HeldBack == Slice \ Active[1]

JobsInScope ==
  IF ~IsNonLineage(fingerprint) THEN {} ELSE IF selection = None THEN Jobs ELSE selection

Context ==
  [tokens |-> Tokens(fingerprint), authored |-> AuthoredTokens(fingerprint),
   entries |-> Slice, held |-> HeldBack, jobs |-> JobsInScope, distances |-> Families # {}]

(* The packet a role is given: one shared context and one shared limit, so   *)
(* that packets differ in their question alone.                             *)
Packet(role) ==
  [role |-> role, tokens |-> Tokens(fingerprint), entries |-> Slice, families |-> Families,
   limit |-> MaxOffers]

(* The stored queue is taken only when it is the one this run would issue    *)
(* again, and the sceptic answered nothing before the others were closed.   *)
LawfulQueue == status[Sceptic] # "pending" => \A r \in Roles : status[r] \in Final

QueueLoads == Pinned /\ LawfulQueue

Audit ==
  [packets |-> Cardinality(Packets),
   closed |-> Cardinality({r \in Packets : status[r] \in Final}),
   unresolved |-> Cardinality({r \in Packets : status[r] = "unresolved"})]

(* What a proposal must be whatever the run: evidence, and factors on a      *)
(* recommendation and nowhere else.                                         *)
WellFormed(p) ==
  /\ p.tokens # {} /\ Cardinality(p.tokens) <= MaxTokens
  /\ IsRecommendation(p) <=> p.factors # None

(* A verdict on a job names the job twice and disposes of no entry.         *)
JobShaped(p) ==
  IF p.kind = "job-coverage"
  THEN p.id = p.cap /\ p.disp = "not-assessed" /\ p.verdict \in Verdicts
  ELSE p.verdict = None

(* validate_proposal, for every packet: what is cited belongs to this run.   *)
Admissible(p) ==
  LET c == Context
  IN /\ WellFormed(p) /\ JobShaped(p)
     /\ p.tokens \subseteq c.tokens
     /\ p.kind \in {"strength", "reciprocal"} => p.tokens \cap c.authored # {}
     /\ IsRecommendation(p) => p.id \notin c.held
     /\ IF p.kind = "job-coverage" THEN p.id \in c.jobs ELSE {p.id, p.cap} \subseteq c.entries
     /\ p.kind = "release-distance" /\ p.disp # "not-assessed" => c.distances

(* Every selected family, or job, is covered by the packet that leads it.   *)
Required(role) ==
  LET mine == IF selection = None THEN {} ELSE {s \in selection : Leads[s] = role}
  IN IF IsNonLineage(fingerprint) THEN mine ELSE UNION {Members[f] : f \in mine}

Covers(ps, required) ==
  required \subseteq
    {p.id : p \in {q \in ps : IsNonLineage(fingerprint) => q.kind = "job-coverage"}}

Earlier(role) == UNION {answers[r] : r \in Roles \ {role}}

Accepted(role, ps) ==
  LET all == Earlier(role) \cup ps
  IN /\ Cardinality(ps) <= Packet(role).limit
     /\ \A p \in ps : Admissible(p)
     /\ Covers(ps, Required(role))
     /\ Cardinality({Candidate(p) : p \in {q \in all : IsRecommendation(q)}}) <= MaxRecommendations
     /\ \A p \in all : Cardinality(FactorsOf(Group(all, Candidate(p)))) <= MaxFactors

---------------------------------------------------------------------------
(* Answers to one candidate agree on everything or are a dispute, which no  *)
(* answer wins.                                                            *)
SameAnswer(p, q) == p.disp = q.disp /\ p.factors = q.factors /\ p.verdict = q.verdict

Agreed(group) == group # {} /\ \A p, q \in group : SameAnswer(p, q)

\* Mutant of Coalesce: whichever answer comes first wins a dispute.
CoalesceToAny(group) ==
  LET one == CHOOSE p \in group : TRUE
  IN [kind |-> one.kind, id |-> one.id, cap |-> one.cap, disp |-> one.disp,
      factors |-> one.factors, verdict |-> one.verdict, tokens |-> FirstOf(Cited(group)),
      disputed |-> FALSE, packet |-> TRUE, named |-> TRUE]

Coalesce(group) ==
  LET one == CHOOSE p \in group : TRUE
      agreed == Agreed(group)
  IN [kind |-> one.kind, id |-> one.id, cap |-> one.cap,
      disp |-> IF agreed THEN one.disp ELSE "not-assessed",
      factors |-> IF agreed THEN one.factors ELSE None,
      verdict |-> IF agreed THEN one.verdict ELSE None,
      tokens |-> FirstOf(Cited(group)),
      disputed |-> ~agreed, packet |-> TRUE, named |-> TRUE]

Reconcile(ps) == {Coalesce(Group(ps, Candidate(p))) : p \in ps}

(* What the normal packets claimed, of those that answered at all, and what  *)
(* it comes to: every candidate once, agreed or disputed.                   *)
Normal == UNION {answers[r] : r \in Roles}
NormalReconciled == Reconcile(Normal)

(* What the sceptic is given: what was claimed, and what was disputed.      *)
Baselines ==
  {b \in NormalReconciled :
     b.disp # "not-assessed" \/ (b.disputed /\ b.kind # "job-coverage")}

\* Mutant of KeepsOrLowers: the factors need nobody's proposal.
KeepsOrInvents(v, b) ==
  LET offered == Group(Normal, Candidate(b))
      kept == IF b.disputed THEN {p.disp : p \in offered} ELSE {b.disp}
  IN Candidate(v) = Candidate(b) /\ v.disp \in kept \cup Downgrades

(* The sceptic keeps or lowers a claim, and settles a dispute only for a    *)
(* disposition, and factors, that somebody proposed.                       *)
KeepsOrLowers(v, b) ==
  LET offered == Group(Normal, Candidate(b))
      kept == IF b.disputed THEN {p.disp : p \in offered} ELSE {b.disp}
  IN /\ Candidate(v) = Candidate(b)
     /\ v.disp \in kept \cup Downgrades
     /\ IsRecommendation(v) => v.factors \in FactorsOf(offered)
     /\ ~b.disputed /\ v.disp = b.disp => v.tokens = b.tokens

AcceptedView(vs) ==
  /\ Cardinality(vs) <= Packet(Sceptic).limit
  /\ \A v \in vs : Admissible(v) /\ \E b \in Baselines : KeepsOrLowers(v, b)

Overlaid ==
  LET last == Reconcile(answers[Sceptic])
  IN last \cup {p \in NormalReconciled : \A s \in last : Candidate(s) # Candidate(p)}

---------------------------------------------------------------------------
(* What the engine adds on its own when the answers leave room for it: the  *)
(* grading of skills found in differing copies, and a restore test when a   *)
(* backup is at work and no restore was ever proved.                       *)
Engine(x, factors, tokens, named) ==
  [kind |-> "recommendation", id |-> x, cap |-> x, disp |-> "worth-borrowing",
   factors |-> factors, verdict |-> None, tokens |-> FirstOf(tokens),
   disputed |-> FALSE, packet |-> FALSE, named |-> named]

HasRoom(ps) == Cardinality({p \in ps : IsRecommendation(p)}) < MaxRecommendations

DifferingCopies == {o \in fingerprint : o.kind = "skill" /\ o.copies}

WithSkillCopies(ps) ==
  IF /\ SkillScore \in Entries \cap Active[1] /\ DifferingCopies # {}
     /\ \A p \in ps : p.id # SkillScore
     /\ HasRoom(ps)
  THEN ps \cup {Engine(SkillScore, EngineFactors, Tokens(DifferingCopies), FALSE)}
  ELSE ps

AutomaticFires(ps) ==
  /\ BackupRestore \in Entries \cap Active[1]
  /\ BackupFamily \in Families /\ FamilyEvidence(BackupFamily, fingerprint) # {}
  /\ \A o \in fingerprint : o.kind # "recovery-proof"
  /\ \A p \in ps : p.id = BackupRestore => p.disp # "worth-borrowing"
  /\ HasRoom(ps)

WithAutomatic(ps) ==
  IF AutomaticFires(ps)
  THEN ps \cup {Engine(BackupRestore, EngineFactors, FamilyEvidence(BackupFamily, fingerprint), TRUE)}
  ELSE ps

Claims == {p \in reconciled : p.kind # "job-coverage"}
Positions == WithAutomatic(WithSkillCopies(Claims))

(* A candidate identity belongs to a proposal bound to a packet, and to no  *)
(* other (_validate_model_bindings).                                       *)
LawfulPosition(p) == p.named <=> p.packet

---------------------------------------------------------------------------
(* The rows of the ledger.                                                 *)
KindOrder(kind) ==
  CASE kind = "mapping" -> 2 [] kind = "method-comparison" -> 3 [] kind = "recommendation" -> 5
    [] kind = "reciprocal" -> 4 [] kind = "fragility" -> 1 [] kind = "release-distance" -> 6
    [] kind = "strength" -> 7

Leading(group) == {p \in group : \A q \in group : KindOrder(p.kind) <= KindOrder(q.kind)}

(* One of the leading proposals on every entry anybody spoke of.            *)
Firsts(first, ps) ==
  /\ {p.id : p \in first} = {p.id : p \in ps}
  /\ \A p \in first : p \in Leading({q \in ps : q.id = p.id})
  /\ \A p, q \in first : p.id = q.id => p = q

Unknown(p, tokens) == [disp |-> "not-assessed", cap |-> p.cap, tokens |-> tokens, method |-> FALSE]

\* Mutant of Entry: neither a dispute nor a missing review of the method counts.
EntryUnreviewed(x, group, first) ==
  LET p == CHOOSE q \in group : q \in first
  IN IF group = {} \/ Cardinality({q.disp : q \in group}) > 1
     THEN [disp |-> "not-assessed", cap |-> x, tokens |-> {}, method |-> FALSE]
     ELSE [disp |-> p.disp, cap |-> p.cap, tokens |-> p.tokens,
           method |-> p.kind \in MethodReviews]

(* One signed entry: a dispute comes first, then the disposition everybody  *)
(* agrees on, unless it needs a review of the method that nobody made.      *)
Entry(x, group, first) ==
  LET lead == CHOOSE p \in group : p \in first
      disputed == {p \in group : p.disputed}
      chosen == IF disputed = {} THEN lead ELSE CHOOSE p \in disputed : TRUE
      reviewed == \E p \in group : p.disp = chosen.disp /\ p.kind \in MethodReviews
  IN IF group = {} THEN [disp |-> "not-assessed", cap |-> x, tokens |-> {}, method |-> FALSE]
     ELSE IF disputed = {} /\ \E p, q \in group : p.disp # q.disp
          THEN Unknown(lead, FirstOf(Cited(group)))
     ELSE IF chosen.disp \in MethodBound /\ ~reviewed THEN Unknown(chosen, chosen.tokens)
     ELSE [disp |-> chosen.disp, cap |-> chosen.cap, tokens |-> chosen.tokens, method |-> reviewed]

LocalRow(o, ps) ==
  LET group == {p \in ps : o.token \in p.tokens}
  IN [disp |-> IF Cardinality({p.disp : p \in group}) = 1
               THEN (CHOOSE p \in group : TRUE).disp ELSE "not-assessed",
      mapped |-> {p.id : p \in group},
      tokens |-> IF group = {} THEN {o.token} ELSE Cited(group)]

(* Every observation gets a row, and a claim cites no other observation.     *)
LocalRows(ps) == [o \in fingerprint |-> LocalRow(o, ps)]
CitesOnlyWhatWasSeen(ps) == Cited(ps) \subseteq Tokens(fingerprint)

LawfulLocal(row) == row.disp \in Scored => row.tokens # {}

(* One signed job, only where Dex is not installed.                         *)
JobRow(j) ==
  LET own == {p \in reconciled : p.kind = "job-coverage" /\ p.id = j}
      seen == FirstOf(JobEvidence(j, fingerprint))
  IN IF own = {}
     THEN [state |-> IF seen = {} THEN "unknown" ELSE "supported", tokens |-> seen]
     ELSE LET p == CHOOSE q \in own : TRUE
          IN [state |-> IF p.disputed THEN "unknown" ELSE p.verdict, tokens |-> p.tokens]

(* The moves, each with the factors that rank it worst; withheld altogether *)
(* when one of them has none.                                              *)
Moves(entries, ps) ==
  LET borrowed == {x \in Entries : entries[x].disp = "worth-borrowing"}
      options(x) == FactorsOf({p \in ps : p.id = x /\ p.cap = entries[x].cap})
  IN IF \E x \in borrowed : options(x) = {} THEN {}
     ELSE {[id |-> x, cap |-> entries[x].cap, tokens |-> entries[x].tokens,
            factors |-> Min(options(x))] : x \in borrowed}

Strengths(ps) == {p \in ps : p.kind = "strength"}
Lessons(ps) ==
  {p \in ps \ Strengths(ps) : p.kind = "reciprocal" \/ p.disp = "dex-should-learn"}
Connections(ps) ==
  {p \in ps \ (Strengths(ps) \cup Lessons(ps)) :
     ~IsRecommendation(p) /\ Cardinality(p.tokens) >= 2}

Insights(ps, held) ==
  {[p EXCEPT !.tokens = @ \cap held] :
     p \in {q \in Strengths(ps) \cup Lessons(ps) \cup Connections(ps) : q.tokens \cap held # {}}}

(* A family's row, from the catalogue and the fingerprint alone.            *)
FamilyRow(f) ==
  [state |-> Assessment(f, fingerprint, Active[1]),
   recommendable |-> Members[f] \cap Active[1],
   matched |-> [c \in Matched(f, fingerprint) |->
                  {o.token : o \in MatchesOf(c, Profile[f], fingerprint)}],
   unresolved |-> Components[f] \ Matched(f, fingerprint),
   tokens |-> FamilyEvidence(f, fingerprint)]

FamilyRows == [f \in Families |-> FamilyRow(f)]

JobRows == [j \in IF IsNonLineage(fingerprint) THEN Jobs ELSE {} |-> JobRow(j)]

CitedIn(rows) == UNION {rows[x].tokens : x \in DOMAIN rows}

Built(ps, first) ==
  LET entries == [x \in Entries |-> Entry(x, {p \in ps : p.id = x}, first)]
      held == CitedIn(entries) \cup CitedIn(LocalRows(ps)) \cup CitedIn(FamilyRows) \cup CitedIn(JobRows)
  IN [entries |-> entries, local |-> LocalRows(ps), families |-> FamilyRows, jobs |-> JobRows,
      moves |-> Moves(entries, ps), insights |-> Insights(ps, held),
      distance |-> VersionDistance(fingerprint), unique |-> AuthoredTokens(fingerprint)]

(* The rules a ledger puts to itself: at most so many moves, each for an     *)
(* entry worth borrowing and no such entry without one; evidence behind every *)
(* claim; and never the axis of jobs beside anything about a release.         *)
Recommended(l) == {x \in Entries : l.entries[x].disp = "worth-borrowing"}

LawfulDistance(d) == d.proof # {} /\ d.newer # {} /\ d.families # {} /\ d.families \subseteq Families

(* A component counts as matched by the observations that match it.          *)
LawfulMatches(row) == \A c \in DOMAIN row.matched : row.matched[c] # {}

SelfConsistent(l) ==
  /\ Cardinality(Recommended(l)) <= MaxRecommendations
  /\ l.moves # {} => {m.id : m \in l.moves} = Recommended(l)
  /\ \A m \in l.moves : m.cap = l.entries[m.id].cap /\ m.tokens = l.entries[m.id].tokens
  /\ DOMAIN l.jobs # {} => l.distance = None /\ ReleaseRecords(fingerprint) = {}
  /\ l.distance # None => LawfulDistance(l.distance)

Evidenced(l) ==
  /\ \A x \in Entries :
       /\ l.entries[x].disp \in Scored => l.entries[x].tokens # {}
       /\ l.entries[x].disp \in MethodBound => l.entries[x].method
  /\ \A j \in DOMAIN l.jobs : l.jobs[j].state # "unknown" => l.jobs[j].tokens # {}

(* The rules the signed catalogue puts to it: every entry and every job once, *)
(* nothing recommended that is not active, and the exact release distance.   *)
SignedTruth(l) ==
  /\ DOMAIN l.entries = Entries /\ DOMAIN l.jobs \in {{}, Jobs}
  /\ Recommended(l) \subseteq Active[1]
  /\ l.distance # None =>
       /\ l.distance.families = Deltas(l.distance.inspected)
       /\ l.distance.newer = NewerReleases(l.distance.inspected)

LawfulLedger(l) == SelfConsistent(l) /\ Evidenced(l) /\ SignedTruth(l)

(* The signed families, each once, with the components and the members the   *)
(* catalogue gives it and the evidence of its components.                    *)
SignedFamilies(l) ==
  /\ DOMAIN l.families = Families
  /\ \A f \in Families :
       LET row == l.families[f]
       IN /\ LawfulMatches(row) /\ row.recommendable = Members[f] \cap Active[1]
          /\ DOMAIN row.matched \cup row.unresolved = Components[f]
          /\ DOMAIN row.matched \cap row.unresolved = {}
          /\ row.tokens = UNION {row.matched[c] : c \in DOMAIN row.matched}

(* The rules the fingerprint puts to it: every observation once, and the     *)
(* family rows derived again.                                               *)
BoundToFolders(l) ==
  /\ DOMAIN l.local = fingerprint /\ l.unique \subseteq Tokens(DOMAIN l.local)
  /\ \A o \in fingerprint : LawfulLocal(l.local[o]) /\ l.local[o].mapped \subseteq Entries
  /\ l.families = FamilyRows /\ SignedFamilies(l)

---------------------------------------------------------------------------
(* What status says of a focused run under way: a dive into each selection,   *)
(* done once the packet that leads it is closed, with the answers of that    *)
(* packet on the members of the family.  The selection is looked up among    *)
(* the families, whatever it names.                                          *)
DiveLead(s) == IF s \in Families THEN Leads[s] ELSE Fallback

Issuable == {r \in Roles : status[r] \notin Final}

Dive(s) ==
  LET role == DiveLead(s)
  IN IF status[role] \in Final
     THEN [state |-> "done",
           findings |-> IF s \in Families
                        THEN Cardinality({p \in answers[role] : p.id \in Members[s]}) ELSE 0]
     ELSE [state |-> IF \A r \in Issuable : Turn[role] <= Turn[r] THEN "running" ELSE "queued",
           findings |-> None]

Progress ==
  [done |-> Audit.closed, pending |-> Audit.packets - Audit.closed,
   dives |-> [s \in IF selection = None THEN {} ELSE selection |-> Dive(s)]]

LawfulProgress(p) ==
  /\ p.done + p.pending = Cardinality(Packets)
  /\ \A s \in DOMAIN p.dives : p.dives[s].state = "done" <=> p.dives[s].findings # None

(* The axis a selection is made on, and the receipt of the selection: what   *)
(* was chosen and what was left, of the map the choice was made from.       *)
Axis(map) == IF map.nonLineage THEN DOMAIN map.jobs ELSE DOMAIN map.rows

Map == EarlyMap(fingerprint, Active[1])

FocusReceipt == [map |-> Map, selected |-> selection, unselected |-> Axis(Map) \ selection]

(* A stored receipt is taken only for the map that is derived now.           *)
FocusStands ==
  LET now == EarlyMap(fingerprint, Active[cached])
  IN /\ FocusReceipt.map = now
     /\ FocusReceipt.selected \cup FocusReceipt.unselected = Axis(now)

(* Status shows what can be proved without advancing: the map, the selection *)
(* and the progress are left out, each for itself, when they cannot.        *)
Status ==
  LET shown(holds, value) == IF holds THEN value ELSE None
      focus == Pinned /\ selection # None /\ FocusStands
  IN [map |-> shown(Pinned /\ LawfulMap(Map), Map),
      focus |-> IF focus THEN FocusReceipt ELSE None,
      progress |-> shown(reconciled = None /\ QueueLoads /\ LawfulProgress(Progress), Progress)]

---------------------------------------------------------------------------
(* A selection names families of the early map, or jobs where the map has    *)
(* them, and leaves no role with more verdicts than one answer may hold.    *)
Selectable(s) ==
  LET load(role) == LET mine == {x \in s : Leads[x] = role}
                    IN IF Map.nonLineage THEN mine ELSE UNION {Members[f] : f \in mine}
  IN /\ LawfulMap(Map) /\ s # {} /\ s \subseteq Axis(Map)
     /\ \A role \in Roles : Cardinality(load(role)) <= MaxOffers

CompareInit ==
  /\ fingerprint \in Fingerprints
  /\ selection \in {s \in Selections : s = None \/ Selectable(s)}
  /\ cached = 1
  /\ status = [r \in Packets |-> "pending"]
  /\ answers = [r \in Packets |-> {}]
  /\ reconciled = None /\ ledger = None

(* An answer that breaks a rule may be corrected once; after that the packet *)
(* is closed without it.                                                   *)
Receive(role, ps, accepted) ==
  /\ QueueLoads /\ status[role] \in {"pending", "retry"}
  /\ IF accepted
     THEN /\ status' = [status EXCEPT ![role] = "completed"]
          /\ answers' = [answers EXCEPT ![role] = ps]
     ELSE /\ status' = [status EXCEPT ![role] = IF @ = "retry" THEN "unresolved" ELSE "retry"]
          /\ UNCHANGED answers
  /\ UNCHANGED <<given, cached, reconciled, ledger>>

Submit(role, ps) == role \in Roles /\ Receive(role, ps, Accepted(role, ps))

SubmitSceptical(vs) ==
  /\ \A r \in Roles : status[r] \in Final
  /\ Receive(Sceptic, vs, AcceptedView(vs))

(* Another process stores a newer verified catalogue.                       *)
FetchCatalogue ==
  /\ ledger = None /\ cached + 1 \in DOMAIN Active
  /\ cached' = cached + 1
  /\ UNCHANGED <<given, status, answers, reconciled, ledger>>

CompleteAnalysis ==
  /\ QueueLoads /\ reconciled = None
  /\ \A r \in Packets : status[r] \in Final
  /\ reconciled' = Overlaid
  /\ UNCHANGED <<given, cached, status, answers, ledger>>

AllSelected == IF IsNonLineage(fingerprint) THEN selection ELSE Slice

(* A ledger is kept when it breaks none of these rules.                     *)
Keeps(ps, l) ==
  /\ \A p \in ps : LawfulPosition(p)
  /\ CitesOnlyWhatWasSeen(ps) /\ LawfulLedger(l) /\ BoundToFolders(l)

Compare ==
  /\ Pinned /\ reconciled # None /\ ledger = None
  /\ selection # None => Covers(reconciled, AllSelected)
  /\ LET ps == Positions
     IN \E first \in SUBSET ps :
          /\ Firsts(first, ps)
          /\ ledger' = IF Keeps(ps, Built(ps, first)) THEN Built(ps, first) ELSE Refused
  /\ UNCHANGED <<given, cached, status, answers, reconciled>>

CompareNext ==
  \/ \E role \in Roles : \E ps \in SUBSET Offers[role] : Submit(role, ps)
  \/ \E vs \in SUBSET Views : SubmitSceptical(vs)
  \/ FetchCatalogue
  \/ CompleteAnalysis
  \/ Compare

CompareSpec == CompareInit /\ [][CompareNext]_comparisonVars

---------------------------------------------------------------------------
HasLedger == ledger \notin {None, Refused}

(* What the candidate c comes to: the sceptic's answer, else the answer of all *)
(* who spoke of it, or a dispute.                                          *)
Spoken(c) ==
  IF Group(answers[Sceptic], c) # {} THEN Group(answers[Sceptic], c) ELSE Group(Normal, c)

Stands(c) ==
  IF Agreed(Spoken(c)) THEN (CHOOSE p \in Spoken(c) : TRUE).disp ELSE "disputed"

Candidates(x) ==
  {Candidate(p) : p \in {q \in Normal \cup answers[Sceptic] : q.id = x /\ q.kind # "job-coverage"}}

(* Nobody's dispute and nobody's withdrawn claim becomes a conclusion: an   *)
(* entry is given a disposition only when every candidate on it stands with  *)
(* that disposition, and only the engine's two recommendations are nobody's  *)
(* answer and reach outside what a focused run selected; a job is judged     *)
(* only in the one verdict of all who spoke of it (_coalesce_group,          *)
(* _overlaid, _entry_for, _job_axis_entries).                               *)
PositionsAreSettled ==
  HasLedger =>
    /\ \A x \in Entries : LET d == ledger.entries[x].disp IN
         d \in Scored =>
           /\ \A c \in Candidates(x) : Stands(c) = d
           /\ Candidates(x) = {} => d = "worth-borrowing" /\ x \in {SkillScore, BackupRestore}
           /\ x \notin Slice => Candidates(x) = {}
    /\ \A j \in DOMAIN ledger.jobs :
         LET spoken == {p.verdict : p \in {q \in Normal : q.kind = "job-coverage" /\ q.id = j}}
             state == ledger.jobs[j].state
         IN /\ state \in Verdicts => spoken = {state}
            /\ state = "supported" => spoken = {}

(* A move shown to the person carries factors somebody proposed for exactly  *)
(* that entry and capability (or the engine's), and never better than the   *)
(* worst of those the answers left standing; unavailable things are no moves.*)
MovesAreRankedAsProposed ==
  HasLedger =>
    \A m \in ledger.moves :
      /\ m.id \in Active[1] /\ ledger.entries[m.id].disp = "worth-borrowing"
      /\ \/ \E p \in Normal : p.id = m.id /\ p.cap = m.cap /\ p.factors = m.factors
         \/ m.id \in {SkillScore, BackupRestore} /\ m.factors = EngineFactors
      /\ \A p \in answers[Sceptic] :
           p.id = m.id /\ p.cap = m.cap /\ p.disp = "worth-borrowing" => m.factors <= p.factors

(* Whatever the specialists and the sceptic were allowed to answer, the     *)
(* ledger built from it is one the ledger model takes - except when the     *)
(* engine's own restore recommendation fires.                              *)
AcceptedAnswersCompare ==
  ledger = Refused => AutomaticFires(WithSkillCopies(Claims))

===========================================================================
