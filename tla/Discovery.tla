---------------------------- MODULE Discovery ----------------------------
(***************************************************************************)
(* From captured files to a fingerprint (adapters/claude_code/discovery.py) *)
(* and from captured files to the five probes of the deep adapter           *)
(* (collector.py).  Reading a manifest, a plist or a skill is data: what a  *)
(* file says is the set Says[file, body] of facts                           *)
(*   [kind, name, config]                                                   *)
(* and everything here is what the code concludes from such facts.          *)
(* A captured file is a record [file, body, ...]; files are numbered in the *)
(* order of their canonical paths.                                          *)
(***************************************************************************)
EXTENDS Naturals, FiniteSets

CONSTANTS
  Source,       \* [files -> approved source ids]
  SourceClass,  \* [source ids -> {"vault-authored", "working-copy", "harness-bundled"}]
  Says,         \* [files \X bodies -> SUBSET [kind, name, config]]
  Slug          \* [names -> identities]: the normalised spelling of a name

First(S) == CHOOSE e \in S : \A o \in S : e.file <= o.file

(* One observation; a working copy is never assessed on any axis.          *)
Observe(e, kind, name, config) ==
  LET src == Source[e.file] IN
  [kind |-> kind, id |-> Slug[name], source |-> src, file |-> e.file,
   config |-> IF SourceClass[src] = "working-copy" THEN "not-assessed" ELSE config,
   runtime |-> "not-assessed", ambiguous |-> FALSE]

Facts(e, kind) == {f \in Says[e.file, e.body] : f.kind = kind}

(* The copies of one skill in one source become one observation, and copies *)
(* that disagree about being enabled make it conflicting.                  *)
SkillObservations(captured) ==
  LET named == UNION {{<<f.name, Source[e.file]>> : f \in Facts(e, "skill")} : e \in captured}
      copies(g) == {e \in captured : Source[e.file] = g[2] /\ \E f \in Facts(e, "skill") : f.name = g[1]}
      states(g) == UNION {{f.config : f \in {h \in Facts(e, "skill") : h.name = g[1]}} : e \in copies(g)}
  IN {Observe(First(copies(g)), "skill", g[1],
              IF Cardinality(states(g)) = 1 THEN CHOOSE s \in states(g) : TRUE ELSE "conflicting")
      : g \in named}

(* One observation per declaration.                                        *)
Declared(captured, kind) ==
  UNION {{Observe(e, kind, f.name, f.config) : f \in Facts(e, kind)} : e \in captured}

(* Servers, hooks, health checks and recovery proofs are nothing more.     *)
PlainObservations(captured) ==
  UNION {Declared(captured, k) : k \in {"mcp-server", "hook", "health-check", "recovery-proof"}}

(* Integrations: each provider once per source, at its first registry, and  *)
(* one registry record for the source.                                     *)
IntegrationObservations(captured) ==
  LET registries == {e \in captured : Facts(e, "provider") # {}}
      of(s) == {e \in registries : Source[e.file] = s}
      providers(s) == UNION {{f.name : f \in Facts(e, "provider")} : e \in of(s)}
      naming(s, n) == {e \in of(s) : \E f \in Facts(e, "provider") : f.name = n}
  IN UNION {{Observe(First(naming(s, n)), "provider", n, "declared") : n \in providers(s)}
            \cup {Observe(First(of(s)), "registry", "local-integrations", "implemented")}
            : s \in {Source[e.file] : e \in registries}}

(* Adapters to outside task systems: one registry record per source, at the *)
(* first file that declares one.                                           *)
AdapterObservations(captured) ==
  LET adapters == {e \in captured : Facts(e, "adapter") # {}}
  IN {Observe(First({e \in adapters : Source[e.file] = s}), "registry", "external-task-sync", "implemented")
      : s \in {Source[e.file] : e \in adapters}}

(* A release record is Dex's own file, the first of each source.           *)
ReleaseObservations(captured) ==
  LET lineage == {e \in captured : Facts(e, "release") # {}}
  IN {Observe(First({e \in lineage : Source[e.file] = s}), "release", "dex-core", "installed")
      : s \in {Source[e.file] : e \in lineage}}

---------------------------------------------------------------------------
(* Scheduled jobs.  What the operating system says of a job carries no      *)
(* source: it belongs to a declaration only if one approved source declares *)
(* a job of that name, and never to a working copy.                        *)

Rivals(o, jobs) == {p.source : p \in {q \in jobs : q.id = o.id}}

\* Mutant of Upgrade: whichever source is asked first.
UpgradeAny(o, jobs, live) ==
  IF o.id \in live /\ SourceClass[o.source] # "working-copy"
    THEN [o EXCEPT !.runtime = "loaded"] ELSE o

Upgrade(o, jobs, live) ==
  IF o.id \notin live THEN o
  ELSE IF Cardinality(Rivals(o, jobs)) > 1 THEN [o EXCEPT !.ambiguous = TRUE]
  ELSE IF SourceClass[o.source] = "working-copy" THEN o
  ELSE [o EXCEPT !.runtime = "loaded"]

AutomationObservations(captured, live) ==
  LET jobs == Declared(captured, "automation") IN {Upgrade(o, jobs, live) : o \in jobs}

(* One observation per kind, identity and source: the first one stands.    *)
Fold(obs) ==
  {o \in obs : \A p \in obs :
     (p.kind = o.kind /\ p.id = o.id /\ p.source = o.source) => o.file <= p.file}

Limits(complete, live) ==
  (IF complete THEN {} ELSE {"partly-captured"})
  \cup (IF live = {} THEN {"live-state-not-assessed"} ELSE {})

(* Everything the readers conclude, before the fold.                       *)
Observations(captured, live) ==
  ReleaseObservations(captured) \cup SkillObservations(captured)
  \cup PlainObservations(captured)
  \cup IntegrationObservations(captured) \cup AdapterObservations(captured)
  \cup AutomationObservations(captured, live)

(* discover_fingerprint; "consented" is the receipt's include_live_state.  *)
Fingerprint(captured, complete, live, consented) ==
  LET used == IF consented THEN {Slug[n] : n \in live} ELSE {}
  IN [observations |-> Fold(Observations(captured, used)), limits |-> Limits(complete, used)]

---------------------------------------------------------------------------
(* The probes.  "changed" are the files whose live identity no longer       *)
(* matches the capture.                                                    *)

DegradedIfChanged(f, changed) == IF f \in changed THEN "conflicting" ELSE "observed"

(* Presence of one declared file name.                                     *)
Presence(found, complete, changed) ==
  IF found # {} THEN [state |-> "present",
                      evidence |-> {<<f, DegradedIfChanged(f, changed)>> : f \in found}]
  ELSE [state |-> IF complete THEN "absent" ELSE "blocked", evidence |-> {}]

(* The shape of the installation is read off the same presence and is not   *)
(* tied to a file, so it is never degraded and never blocked.              *)
InstallationShape(configured, instructed) ==
  [state |-> IF configured \/ instructed THEN "present" ELSE "absent", evidence |-> {}]
===========================================================================
