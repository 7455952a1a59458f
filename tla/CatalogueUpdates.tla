----------------------------- MODULE CatalogueUpdates -----------------------------
(* The public catalogue on one machine: fetched and verified                  *)
(* (catalogue/fetch.py, v2.py), subscribed to (catalogue/subscription.py) and *)
(* read as news (catalogue/cli.py, delta.py).                                 *)
(*                                                                            *)
(* Three files are shared, without a lock, by the browser session's server    *)
(* and any number of commands.  Each is read whole and rewritten in place, so *)
(* it is Torn between truncation and write, and stays so after a kill there.  *)
(* Signature, schema and expiry decide whether a download is good: one that   *)
(* fails them is version Bad.  A published entry is a pair <<id, digest>>.    *)
EXTENDS Naturals

CONSTANTS
    MaxVersion,     \* bound: the last catalogue version published
    Catalogue,      \* the entries each version publishes
    Browser,        \* the server of the browser session
    Command,        \* the command line processes
    Way,            \* the ways a command may be called
    Missing,        \* no file
    Torn,           \* a file nothing can be read from
    MaxKills        \* bound: processes killed

Process == Command \cup {Browser}
Version == 1..MaxVersion
None == 0
Bad == MaxVersion + 1
Entry == UNION { Catalogue[v] : v \in Version }
Subscription == [subscribed : BOOLEAN, seen : Version \cup {None}, parked : Version \cup {None}]
Unsubscribed == [subscribed |-> FALSE, seen |-> None, parked |-> None]

ASSUME CatalogueAssumption ==
    /\ MaxVersion \in Nat \ {0} /\ MaxKills \in Nat
    /\ Browser \notin Command
    /\ \A w \in Way : w.since \in Nat /\ w.last \in BOOLEAN
    /\ \A v \in Version \cup Subscription \cup {None} : v \notin {Missing, Torn}
    /\ \A s \in SUBSET Entry : s \notin {Missing, Torn}
    /\ Missing # Torn

VARIABLES
    published,      \* the newest version on the server
    cache,          \* the cached envelope's version
    record,         \* the subscription record
    snapshot,       \* the entries last recorded as seen
    pc,             \* where each process is
    version,        \* the version it holds
    checked,        \* the cached version it verified against
    saving,         \* the record it is about to write
    display,        \* the browser's catalogue_fetch_result
    shown,          \* history: the entries printed to the person
    leftOut,        \* history: those only ever left out by a call's narrowing
    wants,          \* history: subscribed, by the person's last word
    undone,         \* history: a revoke met a save in flight
    overtaken,      \* history: the cache changed during a fetch
    highest,        \* history: the newest version accepted
    kills

history == <<shown, leftOut, wants, undone, overtaken, highest>>
local == <<pc, version, checked, saving>>
vars == <<published, cache, record, snapshot, local, display, history, kills>>

Step == {"idle", "downloaded", "verified", "checked", "cache_open", "accepted",
         "printed", "record_read", "record_open", "recorded", "snapshot_open"}

TypeOK ==
    /\ published \in Version
    /\ cache \in Version \cup {Missing, Torn}
    /\ record \in Subscription \cup {Missing, Torn}
    /\ snapshot \in {Missing, Torn} \/ snapshot \subseteq Entry
    /\ pc \in [Process -> Step]
    /\ version \in [Process -> Version \cup {None, Bad}]
    /\ checked \in [Process -> Version \cup {Missing, Torn, None}]
    /\ saving \in [Process -> Subscription]
    /\ display \in Version \cup {None}
    /\ shown \in SUBSET Entry /\ leftOut \in SUBSET Entry
    /\ wants \in BOOLEAN /\ undone \in BOOLEAN /\ overtaken \in BOOLEAN
    /\ highest \in Version \cup {None}
    /\ kills \in 0..MaxKills

Init ==
    /\ published = 1
    /\ cache = Missing /\ record = Missing /\ snapshot = Missing
    /\ pc = [p \in Process |-> "idle"]
    /\ version = [p \in Process |-> None]
    /\ checked = [p \in Process |-> None]
    /\ saving = [p \in Process |-> Unsubscribed]
    /\ display = None
    /\ shown = {} /\ leftOut = {}
    /\ wants = FALSE /\ undone = FALSE /\ overtaken = FALSE
    /\ highest = None
    /\ kills = 0

--------------------------------------------------------------------------------

At(p, step) == pc[p] = step
Go(p, step) == pc' = [pc EXCEPT ![p] = step]

(* A process's locals are forgotten when it ends or its call returns. *)
Return(p) ==
    /\ Go(p, "idle")
    /\ version' = [version EXCEPT ![p] = None]
    /\ checked' = [checked EXCEPT ![p] = None]
    /\ saving' = [saving EXCEPT ![p] = Unsubscribed]

(* What a write to an open file leaves: when another write landed since this  *)
(* one truncated it, the two texts may overlap.                               *)
Written(file, value) == IF file = Torn THEN {value} ELSE {value, Torn}

Display(p, v) == display' = IF p = Browser THEN v ELSE display

Publish ==
    /\ published < MaxVersion
    /\ published' = published + 1
    /\ UNCHANGED <<cache, record, snapshot, local, display, history, kills>>

(* The one GET: any published version may come back, or bytes no check accepts. *)
Download(p) ==
    /\ At(p, "idle")
    /\ \E v \in (1..published) \cup {Bad} : version' = [version EXCEPT ![p] = v]
    /\ Go(p, "downloaded")
    /\ UNCHANGED <<published, cache, record, snapshot, checked, saving, display, history, kills>>

(* The GET failed: the cached catalogue is offered, labelled stale.  Only the *)
(* browser keeps it; the command ends.                                        *)
Offline ==
    /\ At(Browser, "idle")
    /\ display' = IF cache \in Version THEN cache ELSE None
    /\ UNCHANGED <<published, cache, record, snapshot, local, history, kills>>

Refuse(p) ==
    /\ Return(p)
    /\ Display(p, None)
    /\ UNCHANGED <<published, cache, record, snapshot, history, kills>>

\* Mutant of Verifies: an unreadable cache is taken for none, as in MaySave.
VerifiesLeniently(p) == version[p] # Bad /\ (cache \in Version => cache <= version[p])

(* verify_catalogue_envelope, against the highest version on disk: an         *)
(* unreadable cache refuses every download.                                   *)
Verifies(p) == version[p] # Bad /\ (cache = Missing \/ cache \in 1..version[p])

Verify(p) ==
    /\ At(p, "downloaded")
    /\ Verifies(p)
    /\ checked' = [checked EXCEPT ![p] = cache]
    /\ Go(p, "verified")
    /\ UNCHANGED <<published, cache, record, snapshot, version, saving, display, history, kills>>

VerifyRefuses(p) == At(p, "downloaded") /\ ~ Verifies(p) /\ Refuse(p)

(* save_verified looks again, and takes an unreadable cache for none. *)
MaySave(p) == cache \in Version => cache <= version[p]

Check(p) ==
    /\ At(p, "verified")
    /\ MaySave(p)
    /\ Go(p, "checked")
    /\ UNCHANGED <<published, cache, record, snapshot, version, checked, saving, display, history, kills>>

CheckRefuses(p) == At(p, "verified") /\ ~ MaySave(p) /\ Refuse(p)

OpenCache(p) ==
    /\ At(p, "checked")
    /\ overtaken' = (overtaken \/ cache # checked[p])
    /\ cache' = Torn
    /\ checked' = [checked EXCEPT ![p] = None]
    /\ Go(p, "cache_open")
    /\ UNCHANGED <<published, record, snapshot, version, saving, display,
                   shown, leftOut, wants, undone, highest, kills>>

(* The write lands and the catalogue is usable: the browser displays it, the  *)
(* command goes on to print it.                                               *)
Accept(p) ==
    /\ At(p, "cache_open")
    /\ overtaken' = (overtaken \/ cache # Torn)
    /\ cache' \in Written(cache, version[p])
    /\ highest' = IF version[p] > highest THEN version[p] ELSE highest
    /\ Display(p, version[p])
    /\ IF p = Browser THEN Return(p)
                      ELSE Go(p, "accepted") /\ UNCHANGED <<version, checked, saving>>
    /\ UNCHANGED <<published, record, snapshot, shown, leftOut, wants, undone, kills>>

(* --offline: the cached catalogue, verified again. *)
ReadOffline(p) ==
    /\ At(p, "idle")
    /\ cache \in Version
    /\ version' = [version EXCEPT ![p] = cache]
    /\ Go(p, "accepted")
    /\ UNCHANGED <<published, cache, record, snapshot, checked, saving, display, history, kills>>

--------------------------------------------------------------------------------

(* CatalogueSnapshotStore.load: an unreadable snapshot is an empty one. *)
Seen == IF snapshot \in {Missing, Torn} THEN {} ELSE snapshot

(* The entries a recurring check reads: new here, or changed since. *)
WorthReading(v) == Catalogue[v] \ Seen
Unchanged(v) == Seen # {} /\ Catalogue[v] = Seen

Narrowed(w, entries) == { e \in entries : e[1] \in w.only }

(* What the call is about, and the part of it it prints: the chosen families, *)
(* and nothing at all when the person named a later version than this one.    *)
About(w, v) == IF w.last /\ Seen # {} THEN WorthReading(v) ELSE Catalogue[v]
Printed(w, v) == IF w.since >= v THEN {} ELSE Narrowed(w, About(w, v))

(* A narrowing that names nothing published is refused, unless the check has  *)
(* already answered that nothing is new.                                      *)
NarrowedToNothing(w, v) ==
    /\ Narrowed(w, Catalogue[v]) = {}
    /\ ~ (w.last /\ Unchanged(v)) /\ w.since < v

\* Mutant of PrintNews: what changed is described, the digest left out.
PrintSummary(p) ==
    /\ At(p, "accepted")
    /\ shown' = shown \cup (IF Seen = {} THEN Catalogue[version[p]] ELSE {})
    /\ Go(p, "printed")
    /\ UNCHANGED <<published, cache, record, snapshot, version, checked, saving, display,
                   leftOut, wants, undone, overtaken, highest, kills>>

(* The digest is printed; only then is anything recorded - the whole version, *)
(* however little of it the call asked for.                                   *)
PrintNews(p) ==
    /\ At(p, "accepted")
    /\ \E w \in Way :
          LET v == version[p]
          IN  /\ ~ NarrowedToNothing(w, v)
              /\ shown' = shown \cup Printed(w, v)
              /\ leftOut' = (leftOut \cup About(w, v)) \ shown'
    /\ Go(p, "printed")
    /\ UNCHANGED <<published, cache, record, snapshot, version, checked, saving, display,
                   wants, undone, overtaken, highest, kills>>

PrintRefuses(p) ==
    /\ At(p, "accepted")
    /\ \E w \in Way : NarrowedToNothing(w, version[p])
    /\ Return(p)
    /\ UNCHANGED <<published, cache, record, snapshot, display, history, kills>>

(* CatalogueSubscriptionStore.load: no file is the default record, a torn one *)
(* raises.                                                                    *)
Readable == record # Torn
Loaded == IF record = Missing THEN Unsubscribed ELSE record

Save(p, new) ==
    /\ saving' = [saving EXCEPT ![p] = new]
    /\ Go(p, "record_read")

\* Mutant of RecordSeen: looking subscribes.
RecordSeenSubscribes(p) ==
    /\ At(p, "printed")
    /\ Readable
    /\ Save(p, [subscribed |-> TRUE, seen |-> version[p], parked |-> None])
    /\ UNCHANGED <<published, cache, record, snapshot, version, checked, display, history, kills>>

(* record_seen: the whole record is written back, subscribed or not. *)
RecordSeen(p) ==
    /\ At(p, "printed")
    /\ Readable
    /\ Save(p, [Loaded EXCEPT !.seen = version[p], !.parked = None])
    /\ UNCHANGED <<published, cache, record, snapshot, version, checked, display, history, kills>>

(* It is only said that nothing could be recorded. *)
RecordSeenFails(p) ==
    /\ At(p, "printed")
    /\ ~ Readable
    /\ Return(p)
    /\ UNCHANGED <<published, cache, record, snapshot, display, history, kills>>

OpenRecord(p) ==
    /\ At(p, "record_read")
    /\ record' = Torn
    /\ Go(p, "record_open")
    /\ UNCHANGED <<published, cache, snapshot, version, checked, saving, display, history, kills>>

WriteRecord(p) ==
    /\ At(p, "record_open")
    /\ record' \in Written(record, saving[p])
    /\ IF p = Browser THEN Return(p)
                      ELSE /\ Go(p, "recorded")
                           /\ saving' = [saving EXCEPT ![p] = Unsubscribed]
                           /\ UNCHANGED <<version, checked>>
    /\ UNCHANGED <<published, cache, snapshot, display, history, kills>>

OpenSnapshot(p) ==
    /\ At(p, "recorded")
    /\ snapshot' = Torn
    /\ Go(p, "snapshot_open")
    /\ UNCHANGED <<published, cache, record, version, checked, saving, display, history, kills>>

WriteSnapshot(p) ==
    /\ At(p, "snapshot_open")
    /\ snapshot' \in Written(snapshot, Catalogue[version[p]])
    /\ Return(p)
    /\ UNCHANGED <<published, cache, record, display, history, kills>>

--------------------------------------------------------------------------------

(* The browser's handlers each hold the session's lock for the whole call. *)
Subscribe ==
    /\ At(Browser, "idle")
    /\ Readable
    /\ Save(Browser, [subscribed |-> TRUE, seen |-> Loaded.seen, parked |-> None])
    /\ wants' = TRUE
    /\ UNCHANGED <<published, cache, record, snapshot, version, checked, display,
                   shown, leftOut, undone, overtaken, highest, kills>>

(* The file is unlinked.  A write already open to it goes nowhere; a record   *)
(* read before and not yet opened will be written back.                       *)
Revoke ==
    /\ At(Browser, "idle")
    /\ record' = Missing
    /\ wants' = FALSE
    /\ undone' = (undone \/ \E p \in Process : At(p, "record_read"))
    /\ pc' = [p \in Process |-> IF At(p, "record_open") THEN "recorded" ELSE pc[p]]
    /\ saving' = [p \in Process |-> IF At(p, "record_open") THEN Unsubscribed ELSE saving[p]]
    /\ UNCHANGED <<published, cache, snapshot, version, checked, display,
                   shown, leftOut, overtaken, highest, kills>>

(* mark_seen and park leave an unsubscribed record alone. *)
Look ==
    /\ At(Browser, "idle")
    /\ display # None
    /\ Readable /\ Loaded.subscribed
    /\ Save(Browser, [Loaded EXCEPT !.seen = display, !.parked = None])
    /\ UNCHANGED <<published, cache, record, snapshot, version, checked, display, history, kills>>

Park ==
    /\ At(Browser, "idle")
    /\ display # None
    /\ Readable /\ Loaded.subscribed
    /\ Save(Browser, [Loaded EXCEPT !.parked = display])
    /\ UNCHANGED <<published, cache, record, snapshot, version, checked, display, history, kills>>

(* A process dies where it is; what it opened stays truncated. *)
Kill(p) ==
    /\ kills < MaxKills
    /\ ~ At(p, "idle")
    /\ Return(p)
    /\ Display(p, None)
    /\ kills' = kills + 1
    /\ UNCHANGED <<published, cache, record, snapshot, history>>

Fetch(p) ==
    \/ Download(p) \/ Verify(p) \/ VerifyRefuses(p) \/ Check(p) \/ CheckRefuses(p)
    \/ OpenCache(p) \/ Accept(p)

Tell(p) ==
    \/ ReadOffline(p) \/ PrintNews(p) \/ PrintRefuses(p) \/ RecordSeen(p) \/ RecordSeenFails(p)
    \/ OpenSnapshot(p) \/ WriteSnapshot(p)

Next ==
    \/ Publish \/ Offline \/ Subscribe \/ Revoke \/ Look \/ Park
    \/ \E p \in Process : Fetch(p) \/ OpenRecord(p) \/ WriteRecord(p) \/ Kill(p)
    \/ \E p \in Command : Tell(p)

Spec == Init /\ [][Next]_vars

--------------------------------------------------------------------------------

(* What the recurring check will pass over as already seen has been printed   *)
(* here, whichever processes ran, were killed or fetched what - or some call  *)
(* left it out because it was narrowed to other entries or to later versions, *)
(* and recorded it all the same.                                              *)
SeenWasShown == Seen \subseteq shown \cup leftOut

(* A revoked subscription comes back only when a save that had read the old   *)
(* record was in flight at the revoke: no other order of looking, parking,    *)
(* recording and dying subscribes anyone.                                     *)
RevokeHolds == Readable /\ Loaded.subscribed /\ ~ wants => undone

(* The cached catalogue is older than one accepted here only if another       *)
(* process wrote the cache during a fetch.                                    *)
CacheMovesForward == cache \in Version /\ cache < highest => overtaken

================================================================================
