---------------------------- MODULE MCReport ----------------------------
(* Instance of Report for TLC: the comparison of two specialists' answers, and *)
(* the sceptic's, on Dex with one skill of the person's own, on the same       *)
(* without Dex, and on Dex with a backup; a guided run, a focus on one family  *)
(* and a focus on one job; a family the catalogue reserves for the person's    *)
(* own review; and an assistant that adds the quotations the command line asks *)
(* for and may also drop or rewrite what it keeps.                             *)
EXTENDS Report

CONSTANTS r1, r2

EntryIds == {"meeting-prep", "work-server", "backup-now", "backup-restore", "skill-score"}
ClassOf == [e \in EntryIds |-> IF e = "work-server" THEN "mcp-server" ELSE "skill"]
NamesOf == [e \in EntryIds |-> {e}]
ToolsOf == [e \in EntryIds |-> IF e = "work-server" THEN {"list_tasks"} ELSE {}]
SinceOf == [e \in EntryIds |-> IF e = "meeting-prep" THEN 3 ELSE 1]
ChangedInOf == [e \in EntryIds |-> IF e = "skill-score" THEN {3} ELSE {}]
FamilyIds == {"meetings", "backup", "taste"}
MembersOf == [f \in FamilyIds |-> CASE f = "meetings" -> {"meeting-prep", "work-server"}
                                    [] f = "backup" -> {"backup-now", "backup-restore"}
                                    [] f = "taste" -> {"skill-score"}]
ComponentsOf == [f \in FamilyIds |-> {[type |-> "capability", ref |-> e] : e \in MembersOf[f]}]
ProfileOf == [f \in FamilyIds |-> IF f = "taste" THEN "manual-only" ELSE "catalogue"]
JobIds == {"prepare", "recover"}
KindsOf == [j \in JobIds |-> IF j = "prepare" THEN {"skill"} ELSE {"recovery-proof"}]
MembersOfJob == [j \in JobIds |-> IF j = "prepare" THEN {"meeting-prep"} ELSE {"backup-restore"}]
LeadOf == [x \in FamilyIds \cup JobIds |-> r1]
TurnOf == [r \in {r1, r2} |-> IF r = r1 THEN 1 ELSE 2]
Activity == <<EntryIds, EntryIds \ {"work-server"}>>

Seen(kind, identity, release, copies, token) ==
  [kind |-> kind, identity |-> identity, supports |-> TRUE, present |-> TRUE,
   release |-> release, shipped |-> FALSE, copies |-> copies, token |-> token]

Dex == Seen("release", "dex-core", 2, FALSE, 1)
Prep == Seen("skill", "meeting-prep", None, FALSE, 2)
Mine == Seen("skill", "my-routine", None, TRUE, 3)
Backup == Seen("skill", "backup-now", None, FALSE, 4)
InFolders == {{Dex, Prep, Mine}, {Prep, Mine}, {Dex, Mine, Backup}}

Chosen == {None, {"meetings"}, {"prepare"}}

Proposal(kind, id, disp, factors, verdict, tokens) ==
  [kind |-> kind, id |-> id, cap |-> id, disp |-> disp, factors |-> factors,
   verdict |-> verdict, tokens |-> tokens]

Own(id, disp) == Proposal("strength", id, disp, None, None, {3})
Borrow(factors) == Proposal("recommendation", "work-server", "worth-borrowing", factors, None, {3})
Job(verdict) == Proposal("job-coverage", "prepare", "not-assessed", None, verdict, {3})

Offered ==
  [r \in {r1, r2} |->
     {Borrow(2), Proposal("method-comparison", "meeting-prep", "shared", None, None, {3}),
      Job("serves")}
     \cup IF r = r1 THEN {Own("meeting-prep", "strong-here"),
                          Proposal("mapping", "meeting-prep", "shared", None, None, {2, 3})}
          ELSE {Borrow(5), Job("does-not-serve")}]

Viewed ==
  {Own("meeting-prep", "not-assessed"), Borrow(4), Borrow(5),
   [Borrow(2) EXCEPT !.disp = "not-assessed"]}

Answered == {"no"}
Under == {"run", "mine"}

(* What the assistant makes of a pair: it quotes what the report cites, and   *)
(* may drop or rewrite a statement, a row of the ledger, or both alike.       *)
Quoting(md) ==
  [md EXCEPT !.prose = [@ EXCEPT !.praise = TRUE, !.method = TRUE, !.hunt = TRUE,
                                 !.quoted = TRUE, !.bare = 0, !.since = TRUE]]

Lifted(d) == [d EXCEPT !.entries["work-server"] = [@ EXCEPT !.disp = "not-relevant"]]
Reserved(d, fs) == [d EXCEPT !.reserved = fs]

Agreeing(md, d) == [md EXCEPT !.digest = Payload(d), !.coverage = Coverage(d), !.jobs = d.jobs]

Offering(md, d) ==
  LET ledgers == {d, Lifted(d), Reserved(d, {"taste"}), Reserved(d, {"taste", "meetings"})}
      reports(l) == {md, [md EXCEPT !.coverage = Coverage(l)], [md EXCEPT !.digest = None],
                     [md EXCEPT !.behind = DOMAIN d.jobs # {}], Agreeing(md, l)}
  IN UNION {{[md |-> Quoting(m), ledger |-> l] : m \in reports(l)} : l \in ledgers}

(* Between the two readings the assistant lifts an entry, or is still writing. *)
Overwriting(d) == IF d.reserved = {} THEN {Lifted(d)} ELSE {Torn}
=============================================================================
