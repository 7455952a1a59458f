------------------------ MODULE CatalogueUpdatesProofs ------------------------
(* Proofs about CatalogueUpdates, for any number of versions, commands and    *)
(* kills, and whatever each version publishes.                                *)
EXTENDS CatalogueUpdates, TLAPS

(* What a process holds at each point of its call. *)
Fetching == {"verified", "checked"}
Telling == {"accepted", "printed", "record_read", "record_open", "recorded", "snapshot_open"}

Holding ==
    \A p \in Process :
        /\ At(p, "downloaded") => version[p] # None
        /\ pc[p] \in Fetching \cup {"cache_open"} => version[p] \in Version
        /\ p \in Command /\ pc[p] \in Telling => version[p] \in Version

(* The cache was there, and not newer, when the download was verified: it is   *)
(* still that one, or somebody else wrote it.                                  *)
Checked ==
    \A p \in Process : pc[p] \in Fetching =>
        /\ checked[p] = Missing \/ checked[p] \in 1..version[p]
        /\ cache = checked[p] /\ ~ overtaken => highest <= version[p]

(* Only one process writes the cache, or a fetch was overtaken. *)
OneWriter ==
    \A p \in Process : At(p, "cache_open") /\ ~ overtaken =>
        /\ cache = Torn /\ highest <= version[p]
        /\ \A q \in Process : At(q, "cache_open") => q = p

CacheInv ==
    /\ cache = Missing => highest = None
    /\ Holding /\ Checked /\ OneWriter /\ CacheMovesForward

(* A save that subscribes was read while the person was subscribed, or a       *)
(* revoke met it.                                                              *)
SavesHold ==
    \A p \in Process : pc[p] \in {"record_read", "record_open"} =>
        (saving[p].subscribed /\ ~ wants => undone)

RevokeInv == SavesHold /\ RevokeHolds

IInv == TypeOK /\ CacheInv /\ RevokeInv

LEMMA Distinct ==
    /\ Missing # Torn
    /\ Missing \notin Version /\ Torn \notin Version
    /\ Missing \notin Subscription /\ Torn \notin Subscription
    /\ MaxVersion \in Nat \ {0} /\ Version \subseteq Nat
    /\ Bad \notin Version /\ None \notin Version
<1>1. MaxVersion \in Nat \ {0} /\ Missing # Torn
  BY CatalogueAssumption DEF CatalogueAssumption
<1>2. \A v \in Version \cup Subscription \cup {None} : v \notin {Missing, Torn}
  BY CatalogueAssumption, Zenon DEF CatalogueAssumption
<1>3. Version \subseteq Nat /\ Bad \notin Version /\ None \notin Version
  BY <1>1 DEF Version, None, Bad
<1>. QED
  BY <1>1, <1>2, <1>3

LEMMA InitInv == Init => IInv
<1>. SUFFICES ASSUME Init PROVE IInv
  OBVIOUS
<1>1. TypeOK
  <2>1. Unsubscribed \in Subscription
    BY DEF Unsubscribed, Subscription
  <2>2. 1 \in Version /\ 0 \in 0..MaxKills
    BY Distinct, CatalogueAssumption DEF CatalogueAssumption, Version
  <2>. QED
    BY <2>1, <2>2 DEF Init, TypeOK, Step
<1>2. CacheInv
  BY Distinct DEF Init, CacheInv, Holding, Checked, OneWriter, CacheMovesForward, At, Fetching, Telling
<1>3. RevokeInv
  BY Distinct DEF Init, RevokeInv, SavesHold, RevokeHolds, Readable, Loaded, Unsubscribed
<1>. QED
  BY <1>1, <1>2, <1>3 DEF IInv

(* Every step keeps the types. *)
LEMMA TypeStep == TypeOK /\ Holding /\ [Next]_vars => TypeOK'
<1>. SUFFICES ASSUME TypeOK, Holding, [Next]_vars PROVE TypeOK'
  OBVIOUS
<1>. USE Distinct DEF TypeOK, Go, Return, Display, At
<1>1. Unsubscribed \in Subscription /\ Browser \in Process /\ Command \subseteq Process
  BY DEF Unsubscribed, Subscription, Process
<1>2. ASSUME NEW v \in Version PROVE Catalogue[v] \subseteq Entry
  BY DEF Entry
<1>3. Readable => Loaded \in Subscription
  BY <1>1 DEF Readable, Loaded
<1>4. ASSUME NEW r \in Subscription, NEW v \in Version \cup {None}
      PROVE  /\ [r EXCEPT !.seen = v, !.parked = None] \in Subscription
             /\ [r EXCEPT !.parked = v] \in Subscription
             /\ [subscribed |-> TRUE, seen |-> r.seen, parked |-> None] \in Subscription
  BY DEF Subscription
<1>5. CASE Publish
  BY <1>5, CatalogueAssumption DEF Publish, Version, local, history, CatalogueAssumption
<1>6. CASE Offline
  BY <1>6 DEF Offline, local, history
<1>7. CASE Subscribe \/ Look \/ Park
  <2>1. \E r \in Subscription : Save(Browser, r)
    BY <1>7, <1>3, <1>4 DEF Subscribe, Look, Park
  <2>. QED
    BY <1>7, <1>1, <2>1 DEF Subscribe, Look, Park, Save, local, history, Step
<1>8. CASE Revoke
  BY <1>8, <1>1 DEF Revoke, Step
<1>9. ASSUME NEW p \in Process, Download(p)
      PROVE  TypeOK'
  <2>1. 1..published \subseteq Version
    BY DEF Version
  <2>. QED
    BY <1>9, <2>1 DEF Download, local, history, Step
<1>10. ASSUME NEW p \in Process, Verify(p) \/ VerifyRefuses(p) \/ Check(p) \/ CheckRefuses(p)
       PROVE  TypeOK'
  BY <1>10, <1>1 DEF Verify, VerifyRefuses, Check, CheckRefuses, Refuse, local, history, Step
<1>11. ASSUME NEW p \in Process, OpenCache(p)
       PROVE  TypeOK'
  BY <1>11 DEF OpenCache, Step
<1>12. ASSUME NEW p \in Process, Accept(p)
       PROVE  TypeOK'
  <2>1. version[p] \in Version
    BY <1>12 DEF Accept, Holding
  <2>. QED
    BY <1>12, <1>1, <2>1 DEF Accept, Step, Written
<1>13. ASSUME NEW p \in Process, OpenRecord(p)
       PROVE  TypeOK'
  BY <1>13 DEF OpenRecord, local, history, Step
<1>14. ASSUME NEW p \in Process, WriteRecord(p)
       PROVE  TypeOK'
  BY <1>14, <1>1 DEF WriteRecord, local, history, Step, Written
<1>15. ASSUME NEW p \in Process, Kill(p)
       PROVE  TypeOK'
  BY <1>15, <1>1, CatalogueAssumption DEF Kill, history, Step, CatalogueAssumption
<1>16. ASSUME NEW p \in Command, ReadOffline(p) \/ PrintRefuses(p) \/ RecordSeenFails(p)
       PROVE  TypeOK'
  BY <1>16, <1>1 DEF ReadOffline, PrintRefuses, RecordSeenFails, history, Step
<1>17. ASSUME NEW p \in Command, PrintNews(p)
       PROVE  TypeOK'
  <2>1. version[p] \in Version
    BY <1>17, <1>1 DEF PrintNews, Holding, Telling
  <2>2. ASSUME NEW w \in Way PROVE Printed(w, version[p]) \cup About(w, version[p]) \subseteq Entry
    BY <2>1, <1>2 DEF Printed, About, Narrowed, WorthReading
  <2>. QED
    BY <1>17, <1>1, <2>2 DEF PrintNews, Step
<1>18. ASSUME NEW p \in Command, RecordSeen(p)
       PROVE  TypeOK'
  <2>1. version[p] \in Version
    BY <1>18, <1>1 DEF RecordSeen, Holding, Telling
  <2>. QED
    BY <1>18, <1>1, <1>3, <1>4, <2>1 DEF RecordSeen, Save, history, Step
<1>19. ASSUME NEW p \in Command, OpenSnapshot(p)
       PROVE  TypeOK'
  BY <1>19, <1>1 DEF OpenSnapshot, local, history, Step
<1>20. ASSUME NEW p \in Command, WriteSnapshot(p)
       PROVE  TypeOK'
  <2>1. version[p] \in Version
    BY <1>20, <1>1 DEF WriteSnapshot, Holding, Telling
  <2>. QED
    BY <1>20, <1>1, <1>2, <2>1 DEF WriteSnapshot, history, Step, Written
<1>21. CASE UNCHANGED vars
  BY <1>21 DEF vars, local, history
<1>. QED
  BY <1>5, <1>6, <1>7, <1>8, <1>9, <1>10, <1>11, <1>12, <1>13, <1>14, <1>15, <1>16, <1>17, <1>18,
     <1>19, <1>20, <1>21 DEF Next, Fetch, Tell

(* What a process knows of the cache survives every step. *)
LEMMA CacheStep == TypeOK /\ CacheInv /\ [Next]_vars => CacheInv'
<1>. SUFFICES ASSUME TypeOK, CacheInv, [Next]_vars PROVE CacheInv'
  OBVIOUS
<1>. USE Distinct DEF CacheInv, Holding, Checked, OneWriter, CacheMovesForward, At, Go, Fetching, Telling
<1>1. Browser \in Process /\ Command \subseteq Process /\ Browser \notin Command
  BY CatalogueAssumption DEF Process, CatalogueAssumption
<1>. /\ highest \in Nat /\ version \in [Process -> Nat]
     /\ cache \in Version => cache \in Nat
     /\ \A p \in Process : 1..version[p] \subseteq Nat
     /\ \A p \in Process : version[p] \in Version => 1..version[p] \subseteq Version
  BY DEF TypeOK, Version, None, Bad
<1>2. CASE Publish \/ Offline \/ UNCHANGED vars
  BY <1>2 DEF Publish, Offline, vars, local, history
<1>3. CASE Subscribe \/ Look \/ Park
  BY <1>3, <1>1 DEF Subscribe, Look, Park, Save, TypeOK, history
<1>4. CASE Revoke
  BY <1>4 DEF Revoke, TypeOK
<1>5. ASSUME NEW p \in Process, Download(p)
      PROVE  CacheInv'
  BY <1>5 DEF Download, TypeOK, history, Version, None, Bad
<1>6. ASSUME NEW p \in Process, Verify(p)
      PROVE  CacheInv'
  <2>1. /\ version[p] \in Version
        /\ cache = Missing \/ cache \in 1..version[p]
        /\ ~ overtaken => highest <= version[p]
    BY <1>6 DEF Verify, Verifies, TypeOK, Version, None
  <2>2. /\ checked' = [checked EXCEPT ![p] = cache] /\ pc' = [pc EXCEPT ![p] = "verified"]
        /\ UNCHANGED <<cache, version, overtaken, highest>>
    BY <1>6 DEF Verify, history
  <2>3. Checked'
    BY <2>1, <2>2 DEF TypeOK
  <2>. QED
    BY <2>1, <2>2, <2>3 DEF TypeOK
<1>7. ASSUME NEW p \in Process, Check(p)
      PROVE  CacheInv'
  BY <1>7 DEF Check, TypeOK, history
<1>8. ASSUME NEW p \in Process, VerifyRefuses(p) \/ CheckRefuses(p) \/ Kill(p)
      PROVE  CacheInv'
  BY <1>8 DEF VerifyRefuses, CheckRefuses, Kill, Refuse, Return, TypeOK, history
<1>9. ASSUME NEW p \in Process, OpenCache(p)
      PROVE  CacheInv'
  <2>1. /\ At(p, "checked") /\ cache' = Torn /\ pc' = [pc EXCEPT ![p] = "cache_open"]
        /\ overtaken' = (overtaken \/ cache # checked[p])
        /\ checked' = [checked EXCEPT ![p] = None] /\ UNCHANGED <<version, highest>>
    BY <1>9 DEF OpenCache
  <2>2. \A q \in Process : pc[q] \in Fetching => checked[q] # Torn
    OBVIOUS
  <2>3. Checked'
    BY <2>1, <2>2 DEF TypeOK
  <2>4. OneWriter'
    BY <2>1, <2>2 DEF TypeOK
  <2>. QED
    BY <2>1, <2>3, <2>4 DEF TypeOK
<1>10. ASSUME NEW p \in Process, Accept(p)
       PROVE  CacheInv'
  <2>1. /\ version[p] \in Version /\ cache' \in {version[p], Torn}
        /\ cache' = Torn => cache # Torn
        /\ overtaken' = (overtaken \/ cache # Torn)
        /\ highest' = IF version[p] > highest THEN version[p] ELSE highest
    BY <1>10 DEF Accept, Written
  <2>2. /\ pc' \in {[pc EXCEPT ![p] = "idle"], [pc EXCEPT ![p] = "accepted"]}
        /\ \A q \in Process : q # p => version'[q] = version[q] /\ checked'[q] = checked[q]
        /\ pc'[p] = "accepted" => version' = version
    BY <1>10 DEF Accept, Return, TypeOK
  <2>3. ~ overtaken' => cache' = version[p] /\ highest' = version[p]
    <3>1. SUFFICES ASSUME ~ overtaken' PROVE cache' = version[p] /\ highest' = version[p]
      OBVIOUS
    <3>2. ~ overtaken /\ cache = Torn
      BY <2>1, <3>1 DEF TypeOK
    <3>3. highest <= version[p] /\ version[p] \in Nat
      BY <1>10, <3>2 DEF Accept
    <3>. QED
      BY <2>1, <3>2, <3>3
  <2>4. Holding'
    BY <2>1, <2>2 DEF TypeOK
  <2>5. ASSUME NEW q \in Process, pc'[q] \in Fetching
        PROVE  /\ checked'[q] = Missing \/ checked'[q] \in 1..version'[q]
               /\ cache' = checked'[q] /\ ~ overtaken' => highest' <= version'[q]
    <3>1. q # p /\ pc[q] = pc'[q]
      BY <2>2, <2>5 DEF TypeOK
    <3>2. /\ version'[q] = version[q] /\ checked'[q] = checked[q]
          /\ version[q] \in Version /\ version[q] \in Nat
          /\ checked[q] = Missing \/ checked[q] \in 1..version[q]
      BY <2>2, <2>5, <3>1
    <3>3. ASSUME cache' = checked'[q], ~ overtaken' PROVE highest' <= version'[q]
      BY <2>1, <2>3, <3>2, <3>3
    <3>. QED
      BY <3>2, <3>3
  <2>6. OneWriter'
    BY <1>10, <2>1, <2>2 DEF TypeOK, Accept
  <2>7. CacheMovesForward' /\ (cache' = Missing => highest' = None)
    BY <2>1, <2>3
  <2>. QED
    BY <2>4, <2>5, <2>6, <2>7
<1>11. ASSUME NEW p \in Process, OpenRecord(p) \/ WriteRecord(p)
       PROVE  CacheInv'
  BY <1>11, <1>1 DEF OpenRecord, WriteRecord, Return, TypeOK, history
<1>12. ASSUME NEW p \in Command, Tell(p)
       PROVE  CacheInv'
  BY <1>12, <1>1 DEF Tell, ReadOffline, PrintNews, PrintRefuses, RecordSeen, RecordSeenFails, OpenSnapshot,
     WriteSnapshot, Save, Return, TypeOK, history
<1>. QED
  BY <1>2, <1>3, <1>4, <1>5, <1>6, <1>7, <1>8, <1>9, <1>10, <1>11, <1>12 DEF Next, Fetch

(* What a process will write of the subscription survives every step. *)
LEMMA RevokeStep == TypeOK /\ RevokeInv /\ [Next]_vars => RevokeInv'
<1>. SUFFICES ASSUME TypeOK, RevokeInv, [Next]_vars PROVE RevokeInv'
  OBVIOUS
<1>. USE Distinct DEF RevokeInv, SavesHold, RevokeHolds, At, Go, Return, Readable, Loaded, Unsubscribed
<1>1. Browser \in Process /\ Command \subseteq Process
  BY DEF Process
<1>2. CASE Publish \/ Offline \/ UNCHANGED vars
  BY <1>2 DEF Publish, Offline, vars, local, history
<1>3. CASE Subscribe
  BY <1>3 DEF Subscribe, Save
<1>4. CASE Look \/ Park
  BY <1>4, <1>1 DEF Look, Park, Save, TypeOK, Subscription, history
<1>5. CASE Revoke
  BY <1>5 DEF Revoke, TypeOK
<1>6. ASSUME NEW p \in Process, Fetch(p) \/ Kill(p)
      PROVE  RevokeInv'
  BY <1>6 DEF Fetch, Download, Verify, VerifyRefuses, Check, CheckRefuses, OpenCache, Accept, Kill,
     Refuse, TypeOK, history
<1>7. ASSUME NEW p \in Process, OpenRecord(p) \/ WriteRecord(p)
      PROVE  RevokeInv'
  BY <1>7 DEF OpenRecord, WriteRecord, Written, TypeOK, history
<1>8. ASSUME NEW p \in Command, RecordSeen(p)
      PROVE  RevokeInv'
  BY <1>8, <1>1 DEF RecordSeen, Save, TypeOK, Subscription, history
<1>9. ASSUME NEW p \in Command, Tell(p), ~ RecordSeen(p)
      PROVE  RevokeInv'
  BY <1>9, <1>1 DEF Tell, ReadOffline, PrintNews, PrintRefuses, RecordSeenFails, OpenSnapshot,
     WriteSnapshot, TypeOK, history
<1>. QED
  BY <1>2, <1>3, <1>4, <1>5, <1>6, <1>7, <1>8, <1>9 DEF Next

LEMMA Inductive == Spec => []IInv
<1>1. IInv /\ [Next]_vars => IInv'
  BY TypeStep, CacheStep, RevokeStep DEF IInv, CacheInv
<1>. QED
  BY InitInv, <1>1, PTL DEF Spec

(* The model stays within its types. *)
THEOREM TypeCorrect == Spec => []TypeOK
BY Inductive, PTL DEF IInv

(* The cached catalogue never falls behind one accepted on this machine unless *)
(* another process wrote the cache during a fetch (fetch.py, v2.py).           *)
THEOREM CacheForward == Spec => []CacheMovesForward
<1>1. IInv => CacheMovesForward
  BY DEF IInv, CacheInv
<1>. QED
  BY Inductive, <1>1, PTL

(* A revoke holds unless it met a save that had already read the old record    *)
(* (subscription.py).                                                          *)
THEOREM RevokeStands == Spec => []RevokeHolds
<1>1. IInv => RevokeHolds
  BY DEF IInv, RevokeInv
<1>. QED
  BY Inductive, <1>1, PTL

(* The version about to be recorded was printed, entry by entry, or left out  *)
(* by the call, or seen before.                                               *)
ToldWhole ==
    \A p \in Command : pc[p] \in Telling \ {"accepted"} =>
        Catalogue[version[p]] \subseteq shown \cup leftOut

SeenInv == ToldWhole /\ SeenWasShown

LEMMA ToldStep == TypeOK /\ Holding /\ SeenInv /\ [Next]_vars => SeenInv'
<1>. SUFFICES ASSUME TypeOK, Holding, SeenInv, [Next]_vars
              PROVE  SeenInv'
  OBVIOUS
<1>. USE Distinct DEF SeenInv, ToldWhole, SeenWasShown, Seen, At, Go, Return, Telling
<1>1. Browser \in Process /\ Command \subseteq Process /\ Browser \notin Command
  BY CatalogueAssumption DEF Process, CatalogueAssumption
<1>2. CASE Publish \/ Offline \/ UNCHANGED vars
  BY <1>2 DEF Publish, Offline, vars, local, history
<1>3. CASE Subscribe \/ Look \/ Park
  BY <1>3, <1>1 DEF Subscribe, Look, Park, Save, TypeOK, history
<1>4. CASE Revoke
  BY <1>4, <1>1 DEF Revoke, TypeOK
<1>5. ASSUME NEW p \in Process, Fetch(p) \/ Kill(p)
      PROVE  SeenInv'
  BY <1>5, <1>1 DEF Fetch, Download, Verify, VerifyRefuses, Check, CheckRefuses, OpenCache, Accept, Kill,
     Refuse, TypeOK, history
<1>6. ASSUME NEW p \in Process, OpenRecord(p) \/ WriteRecord(p)
      PROVE  SeenInv'
  BY <1>6, <1>1 DEF OpenRecord, WriteRecord, TypeOK, history
<1>7. ASSUME NEW p \in Command, PrintNews(p)
      PROVE  SeenInv'
  <2>1. PICK w \in Way :
          /\ shown' = shown \cup Printed(w, version[p])
          /\ leftOut' = (leftOut \cup About(w, version[p])) \ shown'
    BY <1>7 DEF PrintNews
  <2>2. /\ Catalogue[version[p]] \subseteq shown' \cup leftOut' \cup Seen
        /\ shown \cup leftOut \subseteq shown' \cup leftOut'
    BY <2>1 DEF About, WorthReading
  <2>. QED
    BY <1>7, <1>1, <2>2 DEF PrintNews, TypeOK
<1>8. ASSUME NEW p \in Command, WriteSnapshot(p)
      PROVE  SeenInv'
  BY <1>8, <1>1 DEF WriteSnapshot, Written, TypeOK, history
<1>9. ASSUME NEW p \in Command, Tell(p), ~ PrintNews(p), ~ WriteSnapshot(p)
      PROVE  SeenInv'
  BY <1>9, <1>1 DEF Tell, ReadOffline, PrintRefuses, RecordSeen, RecordSeenFails, OpenSnapshot, Save,
     TypeOK, history
<1>. QED
  BY <1>2, <1>3, <1>4, <1>5, <1>6, <1>7, <1>8, <1>9 DEF Next

(* What a later check passes over as seen was printed here, or left out by a   *)
(* call narrowed to other entries or to later versions - whichever ways it was *)
(* called, however many commands overlapped, whoever was killed                *)
(* (catalogue/cli.py, subscription.py).                                        *)
THEOREM SeenIsShown == Spec => []SeenWasShown
<1>1. Init => SeenInv
  BY DEF Init, SeenInv, ToldWhole, SeenWasShown, Seen, Telling, Process
<1>2. TypeOK /\ Holding /\ SeenInv /\ [Next]_vars => SeenInv'
  BY ToldStep
<1>3. IInv => TypeOK /\ Holding
  BY DEF IInv, CacheInv
<1>4. SeenInv => SeenWasShown
  BY DEF SeenInv
<1>. QED
  BY <1>1, <1>2, <1>3, <1>4, Inductive, PTL DEF Spec

=============================================================================
