---------------------------- MODULE FamilyMap ----------------------------
(***************************************************************************)
(* What the engine derives from the signed catalogue and one fingerprint   *)
(* before anybody gives an opinion: which release of Dex is installed,     *)
(* which signed components are present, what a family's members were given *)
(* since, and which job has evidence of the right shape (families.py,      *)
(* significant_families.py, defaults._version_distance).                   *)
(*                                                                         *)
(* A fingerprint is a set of observations                                  *)
(*   [kind, identity, supports, present, release, shipped, copies, token].  *)
(* "supports" is the evidence state, "present" the three operational axes, *)
(* "release" the release-id attribute of a release record, "copies" that a  *)
(* skill was found in copies that differ.  A release is a number; Garbled   *)
(* is a value that has no release shape.                                   *)
(***************************************************************************)
EXTENDS Naturals, FiniteSets

CONSTANTS
  Entries,      \* signed capability ids
  Class,        \* [Entries -> {"skill", "mcp-server", "automation", "engine"}]
  Names,        \* [Entries -> SUBSET identities]: id, signed aliases, server name
  Tools,        \* [Entries -> SUBSET tool names]: the complete inventory of a server
  Since,        \* [Entries -> Nat]: since_release, read of skills only
  ChangedIn,    \* [Entries -> SUBSET Nat]
  Families,     \* signed family ids
  Members,      \* [Families -> SUBSET Entries]
  Components,   \* [Families -> SUBSET [type, ref]]
  Profile,      \* [Families -> profile name, or "manual-only"]
  Jobs,         \* signed job ids
  JobKinds,     \* [Jobs -> SUBSET observation kinds], JOB_OBSERVATION_RULES
  CoreRelease,  \* the release the catalogue was signed for, or None
  Garbled, None

(* What the schema of a signed catalogue guarantees: a name leads to no other *)
(* entry's id, a family is none of the entries it names and has members, and *)
(* each of its components is one of them or a tool of one.                  *)
ReferencesAreClosed ==
  /\ \A d, e \in Entries : d # e => d \notin Names[e]
  /\ Families \cap Entries = {}
  /\ \A f \in Families : Members[f] \subseteq Entries

FamiliesAreShaped == \A f \in Families : Members[f] # {} /\ Components[f] # {}

ComponentsAreMembers ==
  \A f \in Families : \A c \in Components[f] :
    /\ c.type = "capability" => c.ref \in Members[f]
    /\ c.type = "mcp-tool" => \E e \in Members[f] : Class[e] = "mcp-server" /\ c.ref \in Tools[e]

(* The closed table of profiles; a family with another one is refused.       *)
Profiles ==
  {"catalogue", "mcp", "mcp-tool", "provider", "scheduled-automation", "filesystem",
   "source-component", "health", "doctor"}

ProfilesAreKnown == \A f \in Families : Profile[f] \in Profiles \cup {"manual-only"}

ASSUME CatalogueIsLawful ==
  /\ Jobs # {} /\ ReferencesAreClosed /\ FamiliesAreShaped /\ ComponentsAreMembers
  /\ ProfilesAreKnown

(* The kinds of observation a signed source component may be seen as.       *)
SourceKinds == {"automation", "health-check", "integration-registry", "recovery-proof"}

(* What a profile looks at: component types, and the observation kinds that  *)
(* may stand for a source component.                                       *)
Admits(profile) ==
  LET reads(types, kinds) == [types |-> types, kinds |-> kinds]
      proofs == {"health-check", "recovery-proof"}
  IN CASE profile = "catalogue" -> reads({"capability", "mcp-tool"}, {})
       [] profile = "mcp" -> reads({"capability", "mcp-tool", "source"}, {"integration-registry"})
       [] profile = "mcp-tool" -> reads({"mcp-tool"}, {})
       [] profile = "provider" -> reads({"capability", "provider", "source"}, {"integration-registry"})
       [] profile = "scheduled-automation" -> reads({"capability", "mcp-tool", "source"}, {"automation"})
       [] profile = "filesystem" -> reads({"capability", "source"}, {"recovery-proof"})
       [] profile = "source-component" -> reads({"source"}, SourceKinds)
       [] profile = "health" -> reads({"capability", "mcp-tool", "source"}, proofs)
       [] profile = "doctor" -> reads({"capability", "source"}, proofs)

Supporting(fp) == {o \in fp : o.supports /\ o.present}

(* One kind of observation may stand for each class of capability; nothing  *)
(* in a fingerprint stands for an engine.                                  *)
ExpectedKind(e) ==
  CASE Class[e] = "skill" -> "skill"
    [] Class[e] = "mcp-server" -> "mcp-server"
    [] Class[e] = "automation" -> "automation"
    [] Class[e] = "engine" -> None

---------------------------------------------------------------------------
(* The release that is installed.                                          *)
ReleaseRecords(fp) == {o \in fp : o.kind = "release" /\ o.identity = "dex-core"}

IsNonLineage(fp) == ReleaseRecords(fp) = {}

ReleaseIds(fp) == {o.release : o \in ReleaseRecords(fp)} \ {None}

ObservedRelease(fp) ==
  IF Cardinality(ReleaseIds(fp)) = 1 /\ Garbled \notin ReleaseIds(fp)
  THEN CHOOSE r \in ReleaseIds(fp) : TRUE
  ELSE None

LineageProof(fp) ==
  IF ObservedRelease(fp) = None THEN {} ELSE {o.token : o \in ReleaseRecords(fp)}

PostdatesInstall(e, installed) ==
  /\ Class[e] = "skill"
  /\ installed # None
  /\ Since[e] > installed

---------------------------------------------------------------------------
(* Which signed components are present, by exact identity.                  *)
MatchesOf(c, profile, fp) ==
  LET near(kinds, names) == {o \in Supporting(fp) : o.kind \in kinds /\ o.identity \in names}
  IN IF c.type \notin Admits(profile).types THEN {}
     ELSE CASE c.type = "capability" ->
                 IF PostdatesInstall(c.ref, ObservedRelease(fp)) THEN {}
                 ELSE near({ExpectedKind(c.ref)}, Names[c.ref])
            [] c.type = "mcp-tool" -> near({"mcp-tool"}, {c.ref})
            [] c.type = "provider" -> near({"integration-provider"}, {c.ref})
            [] c.type = "source" -> near(Admits(profile).kinds, {c.ref})

Matched(f, fp) ==
  IF Profile[f] = "manual-only" THEN {}
  ELSE {c \in Components[f] : MatchesOf(c, Profile[f], fp) # {}}

Postdating(f, fp) ==
  {c \in Components[f] : c.type = "capability" /\ PostdatesInstall(c.ref, ObservedRelease(fp))}

FamilyEvidence(f, fp) ==
  {o.token : o \in UNION {MatchesOf(c, Profile[f], fp) : c \in Matched(f, fp)}}

(* The members of a family that may be recommended are the active ones.     *)
Availability(f, active) ==
  IF Members[f] \subseteq active THEN "available"
  ELSE IF Members[f] \cap active # {} THEN "partial" ELSE "unavailable"

Assessment(f, fp, active) ==
  LET unresolved == Components[f] \ Matched(f, fp)
  IN IF Profile[f] = "manual-only" THEN "not-assessed"
     ELSE IF Availability(f, active) = "unavailable" THEN "not-recommendable"
     ELSE IF Matched(f, fp) # {} THEN IF unresolved = {} THEN "overlap-observed" ELSE "partial-overlap"
     ELSE IF unresolved # {} /\ Postdating(f, fp) = unresolved THEN "postdates-install"
     ELSE "unresolved"

(* The state the early map shows for a family: absent only when the release *)
(* proves it, never because nothing was found.                             *)
MapState(f, fp, active) ==
  LET found == Matched(f, fp)
  IN IF Availability(f, active) = "unavailable" THEN "not-currently-available"
     ELSE IF found # {} THEN IF found = Components[f] THEN "present" ELSE "partial"
     ELSE IF Assessment(f, fp, active) = "postdates-install" THEN "absent" ELSE "unknown"

---------------------------------------------------------------------------
(* What has been given to the members of a family since, from the signed    *)
(* release fields of skills only.  A delta needs one introduced or changed.  *)
ChangedAfter(r, inspected) == inspected < r /\ r <= CoreRelease

Skills == {e \in Entries : Class[e] = "skill"}

Introduced(f, inspected) == {e \in Members[f] \cap Skills : ChangedAfter(Since[e], inspected)}

Changed(f, inspected) ==
  {e \in (Members[f] \cap Skills) \ Introduced(f, inspected) :
     \E r \in ChangedIn[e] : ChangedAfter(r, inspected)}

Deltas(inspected) ==
  {f \in Families : Introduced(f, inspected) \cup Changed(f, inspected) # {}}

NewerReleases(inspected) ==
  {r \in {CoreRelease} \cup UNION {{Since[e]} \cup ChangedIn[e] : e \in Skills} :
     ChangedAfter(r, inspected)}

VersionDistance(fp) ==
  LET inspected == ObservedRelease(fp)
  IN IF \/ CoreRelease = None \/ inspected = None \/ inspected = CoreRelease
        \/ Deltas(inspected) = {}
     THEN None
     ELSE [inspected |-> inspected, proof |-> LineageProof(fp), families |-> Deltas(inspected),
           newer |-> NewerReleases(inspected)]

---------------------------------------------------------------------------
(* Evidence of the right shape for a job: by kind, never by name.           *)
JobEvidence(j, fp) == {o.token : o \in {q \in Supporting(fp) : q.kind \in JobKinds[j]}}

(* The early map, from which a person picks what a focused run looks into:  *)
(* every family with what was given to it since, and where Dex is missing   *)
(* every job, with no verdict on it yet.  It is derived again at every read. *)
Delta(f, inspected) ==
  IF inspected = None \/ CoreRelease \in {None, inspected} \/ f \notin Deltas(inspected) THEN None
  ELSE [newer |-> Introduced(f, inspected), changed |-> Changed(f, inspected), from |-> inspected]

JobMapRow(j, fp) ==
  LET seen == JobEvidence(j, fp)
  IN [state |-> IF seen = {} THEN "unknown" ELSE "supported", tokens |-> seen]

EarlyMap(fp, active) ==
  LET inspected == ObservedRelease(fp)
  IN [rows |-> [f \in Families |->
                  [state |-> MapState(f, fp, active), since |-> Delta(f, inspected)]],
      inspected |-> inspected, proof |-> LineageProof(fp), nonLineage |-> IsNonLineage(fp),
      jobs |-> [j \in IF IsNonLineage(fp) THEN Jobs ELSE {} |-> JobMapRow(j, fp)]]

(* What the map and its rows demand of themselves; a map that breaks a rule   *)
(* is not made, and the run cannot go on.                                   *)
LawfulDelta(delta, map) ==
  /\ delta.newer \cup delta.changed # {} /\ delta.newer \cap delta.changed = {}
  /\ delta.from = map.inspected /\ delta.from # CoreRelease

LawfulJobRow(row) ==
  row.state \in {"supported", "unknown"} /\ (row.state = "supported" => row.tokens # {})

LawfulMap(map) ==
  /\ map.inspected = None <=> map.proof = {}
  /\ \A f \in DOMAIN map.rows : LET delta == map.rows[f].since IN
       delta # None => LawfulDelta(delta, map)
  /\ \A j \in DOMAIN map.jobs : LawfulJobRow(map.jobs[j])
  /\ map.nonLineage <=> DOMAIN map.jobs # {}
  /\ map.nonLineage => map.inspected = None

(* The origin of an observation: the assistant came with it, Dex signed a   *)
(* thing of that kind and name, or the person wrote it.                    *)
Signed(o) ==
  \/ o.kind = "release" /\ o.identity = "dex-core"
  \/ \E e \in Entries : o.kind = ExpectedKind(e) /\ o.identity \in Names[e]
  \/ \E f \in Families : \E c \in Components[f] :
       /\ o.identity = c.ref
       /\ \/ c.type = "mcp-tool" /\ o.kind = "mcp-tool"
          \/ c.type = "provider" /\ o.kind = "integration-provider"
          \/ c.type = "source" /\ o.kind \in SourceKinds

Origin(o) == IF o.shipped THEN "harness-shipped" ELSE IF Signed(o) THEN "dex-stock" ELSE "authored"

AuthoredTokens(fp) == {o.token : o \in {q \in fp : Origin(q) = "authored"}}

Tokens(fp) == {o.token : o \in fp}
===========================================================================
