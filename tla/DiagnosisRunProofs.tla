-------------------------- MODULE DiagnosisRunProofs --------------------------
(* Theorems of DiagnosisRun, for any number of runs, processes, packets and   *)
(* kills.  The argument: the flock makes the checkpoint a command loaded the  *)
(* one it replaces (Mine), and every command computes, from a sound           *)
(* checkpoint, a sound one that follows from it (Legal).                      *)
EXTENDS DiagnosisRun, SequenceTheorems, TLAPS

Holder == Run \union {None}
Kind == {"run-identity", "intake-receipt", "focus-receipt", "work-queue",
         "work-responses", "work-audit", "proposals", "scope-receipt", "fingerprint",
         "catalogue", "family-map", "diagnosis-input", "reconciled-proposals", "ledger",
         "saved-report"} \union ReportParts
Content == Nat \union Mode \union Choice \union {None} \union SUBSET Answer
File == Kind \X Holder \X Content

Files == whole \union torn

Item == Packet \union {"intake", "focus"}
ToldEntry == Run \X Item \X (Choice \union Answer)

Compared == {"compared", "rendered", "checked", "saved", "closed"}
Confirmed == {"jobsConfirmed", "analysisPlanned", "analysisCompleted"} \union Compared

\* What every checkpoint satisfies, beside its type.
Sound(h) ==
  /\ Attempted(h, Sceptic) => \A n \in Normal : Final(h, n)
  /\ h.ledger # None => h.stage \in Compared
  /\ h.stage = "analysisCompleted" => \A k \in Packet : Final(h, k)
  /\ h.mode = "focused" /\ h.stage \in Confirmed => h.focus # None
  /\ h.ledger # None /\ h.mode # "inventoryOnly" =>
       (\A k \in Packet : Final(h, k)) /\ h.ledger = LedgerOf(h)
  /\ h.ledger # None /\ h.mode = "focused" => Covered(h)

HeadsSound ==
  /\ head \in [Run -> HeadsOver(Files)]
  /\ \A r \in Run : Sound(head[r])

Told(entries, h, r) ==
  \A e \in entries : e \in ToldEntry /\ e[1] = r /\ Holds(h, e[2], e[3])

\* The command of p, from its lock to its answer.
Mine(p) ==
  /\ job[p].run \in Run
  /\ lock[job[p].run] = p

Computed(p) ==
  /\ job[p].todo \in Seq(File)
  /\ job[p].next \in HeadsOver(Files \union SetOf(job[p].todo))
  /\ Sound(job[p].next)
  /\ Follows(head[job[p].run], job[p].next)
  /\ job[p].base = head[job[p].run]
  /\ Told(job[p].reply, job[p].next, job[p].run)

CommandInv ==
  \A p \in Proc :
    /\ at[p] # "idle" => Mine(p)
    /\ at[p] = "writing" => Computed(p)
    /\ at[p] = "replacing" => Computed(p) /\ job[p].todo = <<>>
    /\ at[p] = "answering" => Told(job[p].reply, head[job[p].run], job[p].run)

ToldInv == \A e \in told : e \in ToldEntry /\ Holds(head[e[1]], e[2], e[3])

Shape ==
  /\ whole \intersect torn = {}
  /\ approved \subseteq Run
  /\ lock \in [Run -> Proc \union {None}]
  /\ at \in [Proc -> {"idle", "writing", "replacing", "answering"}]
  /\ kills \in 0 .. MaxKills
  /\ DOMAIN job = Proc
  /\ \A p \in Proc : "todo" \in DOMAIN job[p]

\* The inductive invariant.
IInv == Shape /\ HeadsSound /\ CommandInv /\ ToldInv
-----------------------------------------------------------------------------
(* Checkpoints.                                                               *)

\* A checkpoint over some files is one over more files.
LEMMA Widen ==
  ASSUME NEW F, NEW G, F \subseteq G, NEW h \in HeadsOver(F)
  PROVE  h \in HeadsOver(G)
BY DEF HeadsOver

LEMMA FirstStages == {"unknown", "created", "intakeRecorded"} \subseteq Stage
BY DEF Stage, NextStage

\* The checkpoint of a run nobody has prepared is sound.
LEMMA UnknownIsSound == Unknown \in HeadsOver({}) /\ Sound(Unknown)
<1>1. Unknown \in HeadsOver({})
  BY ConstantAssumption, FirstStages DEF Unknown, HeadsOver
<1>2. Sound(Unknown)
  BY DEF Unknown, Sound, Attempted, Packet, Compared, Confirmed
<1> QED BY <1>1, <1>2

\* The attempts a packet may have on record.
LEMMA Attempts ==
  ASSUME NEW F, NEW h \in HeadsOver(F), NEW k \in Packet
  PROVE  /\ h.receipts[k] \in Seq(Response)
         /\ Final(h, k) \/ h.receipts[k] = <<>> \/ h.receipts[k] = <<"malformed">>
         /\ Answered(h, k) => Final(h, k)
<1> DEFINE s == h.receipts[k]
<1>1. s \in {<<>>} \union {<<x>> : x \in Response}
                   \union {<<"malformed", x>> : x \in Response}
  BY DEF HeadsOver
<1>2. CASE s = <<>>
  BY <1>2 DEF Final, Answered, Attempted
<1>3. ASSUME NEW x \in Response, s = <<x>>
      PROVE  /\ s \in Seq(Response)
             /\ Final(h, k) \/ s = <<"malformed">>
             /\ Answered(h, k) => Final(h, k)
  BY <1>3 DEF Final, Answered, Attempted, LastOf, Response
<1>4. ASSUME NEW x \in Response, s = <<"malformed", x>>
      PROVE  /\ s \in Seq(Response)
             /\ Final(h, k)
  BY <1>4 DEF Final, Answered, Attempted, LastOf, Response
<1> QED BY <1>1, <1>2, <1>3, <1>4

\* A checkpoint follows from itself.
LEMMA Stutter ==
  ASSUME NEW F, NEW h \in HeadsOver(F)
  PROVE  Follows(h, h)
<1>1. \A k \in Packet : h.receipts[k] = h.receipts[k] \o <<>>
  BY Attempts
<1> QED BY <1>1 DEF Follows

\* What is recorded in a checkpoint is recorded in those that follow from it.
LEMMA StaysRecorded ==
  ASSUME NEW F, NEW old \in HeadsOver(F), NEW new, Follows(old, new),
         NEW item \in Item, NEW v \in Choice \union Answer, Holds(old, item, v)
  PROVE  Holds(new, item, v)
<1>1. v # None
  BY ConstantAssumption
<1>2. CASE item = "intake"
  BY <1>1, <1>2 DEF Holds, Follows
<1>3. CASE item = "focus"
  BY <1>1, <1>3 DEF Holds, Follows
<1>4. CASE item # "intake" /\ item # "focus"
  <2>1. item \in Packet /\ Answered(old, item) /\ LastOf(old.receipts[item]) = v
    BY <1>4 DEF Holds, Item
  <2>2. new.receipts[item] = old.receipts[item]
    BY <2>1, Attempts DEF Follows
  <2> QED BY <1>4, <2>1, <2>2 DEF Holds, Answered, Attempted
<1> QED BY <1>2, <1>3, <1>4
-----------------------------------------------------------------------------
(* Sequences of files.                                                        *)
LEMMA Concatenated ==
  ASSUME NEW a \in Seq(File), NEW b \in Seq(File)
  PROVE  a \o b \in Seq(File) /\ SetOf(b) \subseteq SetOf(a \o b)
<1>1. a \o b \in Seq(File)
  OBVIOUS
<1>2. ASSUME NEW i \in DOMAIN b PROVE b[i] \in SetOf(a \o b)
  <2>1. Len(a) + i \in DOMAIN (a \o b) /\ (a \o b)[Len(a) + i] = b[i]
    BY <1>2
  <2> QED BY <2>1 DEF SetOf
<1> QED BY <1>1, <1>2 DEF SetOf

LEMMA SetOfConcatenation ==
  ASSUME NEW a \in Seq(File), NEW b \in Seq(File)
  PROVE  SetOf(a \o b) = SetOf(a) \union SetOf(b)
<1>1. ASSUME NEW i \in DOMAIN (a \o b) PROVE (a \o b)[i] \in SetOf(a) \union SetOf(b)
  <2>1. CASE i \in DOMAIN a
    BY <2>1 DEF SetOf
  <2>2. CASE i \notin DOMAIN a
    <3>1. i - Len(a) \in DOMAIN b /\ (a \o b)[i] = b[i - Len(a)]
      BY <1>1, <2>2
    <3> QED BY <3>1 DEF SetOf
  <2> QED BY <2>1, <2>2
<1>2. ASSUME NEW i \in DOMAIN a PROVE a[i] \in SetOf(a \o b)
  <2>1. i \in DOMAIN (a \o b) /\ (a \o b)[i] = a[i]
    BY <1>2
  <2> QED BY <2>1 DEF SetOf
<1>3. SetOf(b) \subseteq SetOf(a \o b)
  BY Concatenated
<1> QED BY <1>1, <1>2, <1>3 DEF SetOf

LEMMA HeadAndTail ==
  ASSUME NEW s \in Seq(File), s # <<>>
  PROVE  /\ Tail(s) \in Seq(File)
         /\ SetOf(s) \subseteq {Head(s)} \union SetOf(Tail(s))
<1>1. Tail(s) \in Seq(File)
  OBVIOUS
<1>2. ASSUME NEW i \in DOMAIN s PROVE s[i] \in {Head(s)} \union SetOf(Tail(s))
  <2>1. CASE i = 1
    BY <2>1, <1>2
  <2>2. CASE i # 1
    <3>1. i - 1 \in DOMAIN Tail(s) /\ Tail(s)[i - 1] = s[i]
      BY <1>2, <2>2
    <3> QED BY <3>1 DEF SetOf
  <2> QED BY <2>1, <2>2
<1> QED BY <1>1, <1>2 DEF SetOf

LEMMA TailIsPart ==
  ASSUME NEW s \in Seq(File), s # <<>>
  PROVE  SetOf(Tail(s)) \subseteq SetOf(s)
<1> SUFFICES ASSUME NEW i \in DOMAIN Tail(s) PROVE Tail(s)[i] \in SetOf(s)
  BY DEF SetOf
<1>1. i + 1 \in DOMAIN s /\ Tail(s)[i] = s[i + 1]
  OBVIOUS
<1> QED BY <1>1 DEF SetOf
-----------------------------------------------------------------------------
(* The steps every command shares.                                            *)

\* What a queue says is a matter of its receipts.
LEMMA SameQueue ==
  ASSUME NEW a, NEW b, a.receipts = b.receipts, a.proposals = b.proposals,
         a.mode = b.mode, a.focus = b.focus
  PROVE  /\ \A k \in Packet : /\ Attempted(a, k) <=> Attempted(b, k)
                              /\ Answered(a, k) <=> Answered(b, k)
                              /\ Final(a, k) <=> Final(b, k)
         /\ LedgerOf(a) = LedgerOf(b)
         /\ Covered(a) <=> Covered(b)
<1>1. \A k : Attempted(a, k) <=> Attempted(b, k)
  BY DEF Attempted
<1>2. \A k : Answered(a, k) <=> Answered(b, k)
  BY <1>1 DEF Answered
<1>3. \A k : Final(a, k) <=> Final(b, k)
  BY <1>1, <1>2 DEF Final
<1>4. LedgerOf(a) = LedgerOf(b)
  BY <1>2 DEF LedgerOf
<1>5. \A k : CitedBy(a, k) = CitedBy(b, k)
  BY <1>2 DEF CitedBy
<1> QED BY <1>1, <1>2, <1>3, <1>4, <1>5 DEF Covered

\* The checkpoint a command computes: sound, and following from the one loaded.
Legal(r, next, reply) ==
  /\ next \in HeadsOver(Files)
  /\ Sound(next)
  /\ Follows(head[r], next)
  /\ Told(reply, next, r)

LEMMA BeginKeeps ==
  ASSUME IInv, NEW p \in Proc, NEW r \in Run, at[p] = "idle", lock[r] = None,
         NEW reports \in Seq(File), NEW artifacts \in Seq(File), NEW next, NEW reply,
         Legal(r, next, reply), Begin(p, r, reports, artifacts, next, reply)
  PROVE  IInv'
<1> DEFINE todo == reports \o artifacts
           kept == [next EXCEPT !.artifacts = @ \union SetOf(artifacts)]
<1> USE DEF IInv
<1>1. /\ job'[p].run = r /\ job'[p].base = head[r] /\ job'[p].next = kept
      /\ job'[p].todo = todo /\ job'[p].reply = reply
      /\ \A q \in Proc \ {p} : job'[q] = job[q] /\ at'[q] = at[q]
      /\ at'[p] = "writing" /\ lock'[r] = p
      /\ \A s \in Run \ {r} : lock'[s] = lock[s]
      /\ Files' = Files /\ head' = head /\ told' = told
  BY DEF Begin, Shape, Files
<1>2. Shape'
  BY DEF Begin, Shape
<1>3. HeadsSound'
  BY <1>1 DEF HeadsSound
<1>4. kept \in HeadsOver(Files \union SetOf(todo))
  BY Concatenated DEF Legal, HeadsOver
<1>5. /\ kept.stage = next.stage /\ kept.mode = next.mode /\ kept.intake = next.intake
      /\ kept.focus = next.focus /\ kept.receipts = next.receipts
      /\ kept.proposals = next.proposals /\ kept.ledger = next.ledger
      /\ next.artifacts \subseteq kept.artifacts
  BY DEF Legal, HeadsOver
<1>6. Sound(kept)
  <2>1. /\ Attempted(next, Sceptic) <=> Attempted(kept, Sceptic)
        /\ \A k \in Packet : Final(next, k) <=> Final(kept, k)
        /\ LedgerOf(next) = LedgerOf(kept)
        /\ Covered(next) <=> Covered(kept)
    BY <1>5, SameQueue DEF Packet
  <2> QED BY <2>1, <1>5 DEF Sound, Legal, Packet
<1>7. Follows(head[r], kept)
  BY <1>5 DEF Follows, Legal
<1>8. Told(reply, kept, r)
  BY <1>5, SameQueue DEF Told, Legal, ToldEntry, Item, Holds
<1>9. Computed(p)'
  BY <1>1, <1>4, <1>6, <1>7, <1>8, Concatenated DEF Computed
<1>10. CommandInv'
  <2> SUFFICES ASSUME NEW q \in Proc
               PROVE  /\ at'[q] # "idle" => Mine(q)'
                      /\ at'[q] = "writing" => Computed(q)'
                      /\ at'[q] = "replacing" => Computed(q)' /\ job'[q].todo = <<>>
                      /\ at'[q] = "answering" => Told(job'[q].reply, head'[job'[q].run], job'[q].run)
    BY DEF CommandInv
  <2>1. CASE q = p
    BY <1>1, <1>9, <2>1 DEF Mine
  <2>2. CASE q # p
    <3>1. job'[q] = job[q] /\ at'[q] = at[q]
      BY <1>1, <2>2
    <3>2. ASSUME at[q] # "idle" PROVE Mine(q)'
      <4>1. job[q].run \in Run /\ lock[job[q].run] = q
        BY <3>2 DEF CommandInv, Mine
      <4>2. job[q].run # r
        BY <4>1, ConstantAssumption
      <4> QED BY <1>1, <3>1, <4>1, <4>2 DEF Mine
    <3> QED BY <1>1, <3>1, <3>2 DEF CommandInv, Computed
  <2> QED BY <2>1, <2>2
<1>11. ToldInv'
  BY <1>1 DEF ToldInv
<1> QED BY <1>2, <1>3, <1>10, <1>11

\* Two commands are never under way on one run.
LEMMA Alone ==
  ASSUME IInv, NEW p \in Proc, NEW q \in Proc, p # q, at[p] # "idle", at[q] # "idle"
  PROVE  job[p].run # job[q].run
BY DEF IInv, CommandInv, Mine

\* A command that is left alone while files are only added stays as it is.
LEMMA Undisturbed ==
  ASSUME CommandInv, NEW q \in Proc, at'[q] = at[q], job'[q] = job[q],
         at[q] # "idle" => lock'[job[q].run] = lock[job[q].run]
                           /\ head'[job[q].run] = head[job[q].run],
         Files \subseteq Files'
  PROVE  /\ at'[q] # "idle" => Mine(q)'
         /\ at'[q] = "writing" => Computed(q)'
         /\ at'[q] = "replacing" => Computed(q)' /\ job'[q].todo = <<>>
         /\ at'[q] = "answering" => Told(job'[q].reply, head'[job'[q].run], job'[q].run)
<1>1. at'[q] # "idle" => Mine(q)'
  BY DEF CommandInv, Mine
<1>2. ASSUME at[q] \in {"writing", "replacing"} PROVE Computed(q)'
  <2>1. Computed(q)
    BY <1>2 DEF CommandInv
  <2>2. job[q].next \in HeadsOver(Files' \union SetOf(job[q].todo))
    BY <2>1, Widen DEF Computed
  <2>3. head'[job[q].run] = head[job[q].run]
    BY <1>2
  <2> QED BY <2>1, <2>2, <2>3 DEF Computed
<1> QED BY <1>1, <1>2 DEF CommandInv

\* Adding files disturbs no checkpoint.
LEMMA MoreFiles ==
  ASSUME HeadsSound, Files \subseteq Files', head' = head
  PROVE  HeadsSound'
<1>1. \A r \in Run : head[r] \in HeadsOver(Files')
  BY Widen DEF HeadsSound
<1> QED BY <1>1 DEF HeadsSound

LEMMA WriteKeeps ==
  ASSUME IInv, NEW p \in Proc, Write(p)
  PROVE  IInv'
<1> DEFINE f == Head(job[p].todo)
<1>1. at[p] = "writing" /\ Computed(p) /\ Mine(p)
  BY DEF IInv, CommandInv, Write
<1>2. Files' = Files \union {f}
  BY DEF Write, Files
<1>3. Shape'
  BY DEF Write, Shape, IInv
<1>4. HeadsSound'
  BY <1>2, MoreFiles DEF Write, IInv
<1>5. job'[p] = [job[p] EXCEPT !.todo = Tail(@)]
  BY DEF Write, IInv, Shape
<1>6. /\ job'[p].run = job[p].run /\ job'[p].base = job[p].base
      /\ job'[p].next = job[p].next /\ job'[p].reply = job[p].reply
  BY <1>5
<1>7. job'[p].todo = Tail(job[p].todo)
  BY <1>5 DEF IInv, Shape
<1>8. /\ job'[p].todo \in Seq(File)
      /\ SetOf(job[p].todo) \subseteq {f} \union SetOf(job'[p].todo)
  BY <1>1, <1>7, HeadAndTail DEF Computed, Write
<1>9. Computed(p)'
  <2>1. Files \union SetOf(job[p].todo) \subseteq Files' \union SetOf(job'[p].todo)
    BY <1>2, <1>8
  <2>2. job[p].next \in HeadsOver(Files' \union SetOf(job'[p].todo))
    BY <1>1, <2>1, Widen DEF Computed
  <2> QED BY <1>1, <1>6, <1>8, <2>2 DEF Computed, Write
<1>10. CommandInv'
  <2>1. ASSUME NEW q \in Proc \ {p}
        PROVE  /\ at'[q] = at[q] /\ job'[q] = job[q]
               /\ lock'[job[q].run] = lock[job[q].run]
               /\ head'[job[q].run] = head[job[q].run]
    BY DEF Write, IInv, Shape
  <2>2. at'[p] = "writing" /\ Mine(p)'
    BY <1>1, <1>6 DEF Write, Mine
  <2> QED BY <1>2, <1>9, <2>1, <2>2, Undisturbed DEF CommandInv, IInv
<1>11. ToldInv'
  BY DEF ToldInv, IInv, Write
<1> QED BY <1>3, <1>4, <1>10, <1>11 DEF IInv

\* The comparison of heads never fails while the flock is held.
LEMMA CompareKeeps ==
  ASSUME IInv, NEW p \in Proc, CompareHead(p)
  PROVE  IInv'
<1>1. at[p] = "writing" /\ Computed(p) /\ Mine(p)
  BY DEF IInv, CommandInv, CompareHead
<1>2. head[job[p].run] = job[p].base
  BY <1>1 DEF Computed
<1>3. /\ at' = [at EXCEPT ![p] = "replacing"] /\ Files' = Files
      /\ UNCHANGED <<head, whole, torn, approved, lock, job, kills, told>>
  BY <1>2 DEF CompareHead, Files
<1>4. Shape'
  BY <1>3 DEF Shape, IInv
<1>5. HeadsSound'
  BY <1>3, MoreFiles DEF IInv
<1>6. CommandInv'
  <2>1. ASSUME NEW q \in Proc \ {p} PROVE at'[q] = at[q] /\ job'[q] = job[q]
    BY <1>3 DEF IInv, Shape
  <2>2. at'[p] = "replacing" /\ job[p].todo = <<>>
    BY <1>3 DEF CompareHead, IInv, Shape
  <2>3. Mine(p)' /\ Computed(p)'
    BY <1>1, <1>3 DEF Mine, Computed
  <2> QED BY <1>3, <2>1, <2>2, <2>3, Undisturbed DEF CommandInv, IInv
<1>7. ToldInv'
  BY <1>3 DEF ToldInv, IInv
<1> QED BY <1>4, <1>5, <1>6, <1>7 DEF IInv

\* What callers were told survives a step in which every checkpoint follows.
LEMMA ToldKeeps ==
  ASSUME IInv, \A r \in Run : Follows(head[r], head'[r]), told' = told
  PROVE  ToldInv'
<1> SUFFICES ASSUME NEW e \in told PROVE e \in ToldEntry /\ Holds(head'[e[1]], e[2], e[3])
  BY DEF ToldInv
<1>1. e \in ToldEntry /\ Holds(head[e[1]], e[2], e[3])
  BY DEF IInv, ToldInv
<1>2. e[1] \in Run /\ e[2] \in Item /\ e[3] \in Choice \union Answer
  BY <1>1 DEF ToldEntry
<1>3. head[e[1]] \in HeadsOver(Files) /\ Follows(head[e[1]], head'[e[1]])
  BY <1>2 DEF IInv, HeadsSound
<1> QED BY <1>1, <1>2, <1>3, StaysRecorded

LEMMA ReplaceFollows ==
  ASSUME IInv, NEW p \in Proc, ReplaceHead(p)
  PROVE  \A r \in Run : Follows(head[r], head'[r])
<1>1. Computed(p) /\ Mine(p)
  BY DEF IInv, CommandInv, ReplaceHead
<1> TAKE r \in Run
<1>2. CASE r = job[p].run
  BY <1>1, <1>2 DEF ReplaceHead, Computed, IInv, HeadsSound
<1>3. CASE r # job[p].run
  BY <1>3, Stutter DEF ReplaceHead, IInv, HeadsSound
<1> QED BY <1>2, <1>3

LEMMA ReplaceKeeps ==
  ASSUME IInv, NEW p \in Proc, ReplaceHead(p)
  PROVE  IInv'
<1>1. Computed(p) /\ Mine(p) /\ job[p].todo = <<>> /\ at[p] = "replacing"
  BY DEF IInv, CommandInv, ReplaceHead
<1>2. /\ Files' = Files
      /\ UNCHANGED <<whole, torn, approved, lock, job, kills, told>>
      /\ head'[job[p].run] = job[p].next
      /\ \A r \in Run \ {job[p].run} : head'[r] = head[r]
      /\ DOMAIN head' = Run
  BY <1>1 DEF ReplaceHead, Files, IInv, HeadsSound, Mine
<1>3. Shape'
  BY DEF ReplaceHead, Shape, IInv
<1>4. job[p].next \in HeadsOver(Files) /\ Sound(job[p].next)
  <2>1. SetOf(job[p].todo) = {}
    BY <1>1 DEF SetOf
  <2> QED BY <1>1, <2>1, Widen DEF Computed
<1>5. HeadsSound'
  <2>1. \A r \in Run : head'[r] \in HeadsOver(Files) /\ Sound(head'[r])
    BY <1>2, <1>4 DEF IInv, HeadsSound
  <2>2. head' = [r \in Run |-> head'[r]]
    BY DEF ReplaceHead, IInv, HeadsSound
  <2> QED BY <1>2, <2>1, <2>2 DEF HeadsSound
<1>6. CommandInv'
  <2>1. ASSUME NEW q \in Proc \ {p}
        PROVE  /\ at'[q] = at[q] /\ job'[q] = job[q]
               /\ at[q] # "idle" => head'[job[q].run] = head[job[q].run]
    <3>1. at'[q] = at[q] /\ job'[q] = job[q]
      BY <1>2 DEF ReplaceHead, IInv, Shape
    <3>2. ASSUME at[q] # "idle" PROVE head'[job[q].run] = head[job[q].run]
      BY <1>1, <1>2, <3>2, Alone DEF IInv, CommandInv, Mine
    <3> QED BY <3>1, <3>2
  <2>2. at'[p] = "answering"
    BY DEF ReplaceHead, IInv, Shape
  <2>3. Mine(p)'
    BY <1>1, <1>2 DEF Mine
  <2>4. Told(job'[p].reply, head'[job'[p].run], job'[p].run)
    BY <1>1, <1>2 DEF Computed
  <2> QED BY <1>2, <2>1, <2>2, <2>3, <2>4, Undisturbed DEF CommandInv, IInv
<1>7. ToldInv'
  BY <1>2, ReplaceFollows, ToldKeeps
<1> QED BY <1>3, <1>5, <1>6, <1>7 DEF IInv

LEMMA AnswerKeeps ==
  ASSUME IInv, NEW p \in Proc, AnswerCaller(p)
  PROVE  IInv'
<1>1. Mine(p) /\ Told(job[p].reply, head[job[p].run], job[p].run)
  BY DEF IInv, CommandInv, AnswerCaller
<1>2. Files' = Files /\ UNCHANGED <<head, whole, torn, approved, kills>>
  BY DEF AnswerCaller, Files
<1>3. Shape'
  <2>1. "todo" \in DOMAIN NoJob
    BY DEF NoJob
  <2> QED BY <2>1 DEF AnswerCaller, Shape, IInv
<1>4. HeadsSound'
  BY <1>2, MoreFiles DEF IInv
<1>5. CommandInv'
  <2>1. ASSUME NEW q \in Proc \ {p}
        PROVE  /\ at'[q] = at[q] /\ job'[q] = job[q]
               /\ at[q] # "idle" => lock'[job[q].run] = lock[job[q].run]
    <3>1. at'[q] = at[q] /\ job'[q] = job[q]
      BY DEF AnswerCaller, IInv, Shape
    <3>2. ASSUME at[q] # "idle" PROVE lock'[job[q].run] = lock[job[q].run]
      BY <1>1, <3>2, Alone DEF AnswerCaller, IInv, Shape, CommandInv, Mine
    <3> QED BY <3>1, <3>2
  <2>2. at'[p] = "idle"
    BY DEF AnswerCaller, IInv, Shape
  <2> QED BY <1>2, <2>1, <2>2, Undisturbed DEF CommandInv, IInv
<1>6. ToldInv'
  BY <1>1, <1>2 DEF AnswerCaller, ToldInv, Told, IInv
<1> QED BY <1>3, <1>4, <1>5, <1>6 DEF IInv

LEMMA KillKeeps ==
  ASSUME IInv, NEW p \in Proc, Kill(p)
  PROVE  IInv'
<1>1. Files \subseteq Files' /\ UNCHANGED <<head, approved, told>>
  BY DEF Kill, Files
<1>2. Shape'
  <2>1. "todo" \in DOMAIN NoJob
    BY DEF NoJob
  <2>2. whole' \intersect torn' = {}
    BY DEF Kill, Shape, IInv
  <2>3. kills' \in 0 .. MaxKills
    BY ConstantAssumption DEF Kill, Shape, IInv
  <2> QED BY <2>1, <2>2, <2>3 DEF Kill, Shape, IInv
<1>3. HeadsSound'
  BY <1>1, MoreFiles DEF IInv
<1>4. CommandInv'
  <2>1. ASSUME NEW q \in Proc \ {p}
        PROVE  /\ at'[q] = at[q] /\ job'[q] = job[q]
               /\ at[q] # "idle" => lock'[job[q].run] = lock[job[q].run]
    <3>1. at'[q] = at[q] /\ job'[q] = job[q]
      BY DEF Kill, IInv, Shape
    <3>2. ASSUME at[q] # "idle" PROVE lock'[job[q].run] = lock[job[q].run]
      <4>1. job[q].run \in Run /\ lock[job[q].run] = q
        BY <3>2 DEF IInv, CommandInv, Mine
      <4> QED BY <4>1 DEF Kill
    <3> QED BY <3>1, <3>2
  <2>2. at'[p] = "idle"
    BY DEF Kill, IInv, Shape
  <2> QED BY <1>1, <2>1, <2>2, Undisturbed DEF CommandInv, IInv
<1>5. ToldInv'
  BY <1>1 DEF ToldInv, IInv
<1> QED BY <1>2, <1>3, <1>4, <1>5 DEF IInv
-----------------------------------------------------------------------------
(* The commands.                                                              *)

LEMMA OwnFile ==
  ASSUME NEW kind \in Kind, NEW r \in Run, NEW c \in Content
  PROVE  Own(kind, r, c) \in File /\ <<Own(kind, r, c)>> \in Seq(File)
<1>1. r \in Holder
  BY DEF Holder
<1>2. Own(kind, r, c) \in File
  BY <1>1 DEF Own, File
<1> QED BY <1>2

LEMMA QueueFilesAreFiles ==
  ASSUME NEW r \in Run, NEW h, h.receiptCount \in Nat, h.recordCount \in Nat
  PROVE  QueueFiles(r, h) \in Seq(File)
<1>1. /\ Own("work-queue", r, h.receiptCount) \in File
      /\ Own("work-responses", r, h.recordCount) \in File
      /\ Own("work-audit", r, h.receiptCount) \in File
  <2>1. /\ h.receiptCount \in Content /\ h.recordCount \in Content
        /\ {"work-queue", "work-responses", "work-audit"} \subseteq Kind
    BY DEF Content, Kind
  <2> QED BY <2>1, OwnFile
<1>2. Shared("work-responses") \in File
  <2>1. "work-responses" \in Kind /\ None \in Holder /\ None \in Content
    BY DEF Holder, Content, Kind
  <2> QED BY <2>1 DEF Shared, File
<1> QED BY <1>1, <1>2 DEF QueueFiles

StageFollows(old, new) ==
  \/ new.stage = old.stage
  \/ old.stage = "unknown" /\ new.stage = "created"
  \/ old.stage \in DOMAIN NextStage /\ new.stage = NextStage[old.stage]
  \/ old.mode = "inventoryOnly" /\ old.stage = "jobsConfirmed" /\ new.stage = "compared"

\* A checkpoint that leaves the queue alone follows from the old one.
LEMMA SameReceipts ==
  ASSUME NEW F, NEW old \in HeadsOver(F), NEW new, new.receipts = old.receipts,
         StageFollows(old, new),
         old.intake # None => new.intake = old.intake,
         old.focus # None => new.focus = old.focus,
         old.artifacts \subseteq new.artifacts
  PROVE  Follows(old, new)
<1>1. \A k \in Packet : old.receipts[k] = old.receipts[k] \o <<>>
  BY Attempts
<1> QED BY <1>1 DEF Follows, StageFollows

LEMMA MovedIsLegal ==
  ASSUME IInv, NEW r \in Run, head[r].stage \in DOMAIN NextStage,
         head[r].stage = "familyMapped" /\ head[r].mode = "focused" => head[r].focus # None,
         head[r].stage = "analysisPlanned" => Complete(head[r])
  PROVE  Legal(r, Moved(head[r]), {})
<1> DEFINE h == head[r]  next == Moved(h)
<1>1. h \in HeadsOver(Files) /\ Sound(h)
  BY DEF IInv, HeadsSound
<1>2. NextStage[h.stage] \in Stage
  BY DEF NextStage, Stage
<1>3. next \in HeadsOver(Files)
  BY <1>1, <1>2 DEF Moved, HeadsOver
<1>4. /\ next.stage = NextStage[h.stage] /\ next.mode = h.mode /\ next.intake = h.intake
      /\ next.focus = h.focus /\ next.receipts = h.receipts /\ next.artifacts = h.artifacts
      /\ next.proposals = h.proposals /\ next.ledger = h.ledger
  BY <1>1 DEF Moved, HeadsOver
<1>5. /\ Attempted(h, Sceptic) <=> Attempted(next, Sceptic)
      /\ \A k \in Packet : Final(h, k) <=> Final(next, k)
      /\ LedgerOf(h) = LedgerOf(next)
      /\ Covered(h) <=> Covered(next)
  BY <1>4, SameQueue DEF Packet
<1>6. /\ h.stage \in Compared => next.stage \in Compared
      /\ next.stage = "analysisCompleted" => h.stage = "analysisPlanned"
      /\ next.stage \in Confirmed => h.stage \in Confirmed \/ h.stage = "familyMapped"
  BY <1>4 DEF NextStage, Compared, Confirmed
<1>7. Sound(next)
  <2>1. Attempted(next, Sceptic) => \A n \in Normal : Final(next, n)
    BY <1>1, <1>5 DEF Sound, Packet
  <2>2. next.ledger # None => next.stage \in Compared
    BY <1>1, <1>4, <1>6 DEF Sound
  <2>3. next.stage = "analysisCompleted" => \A k \in Packet : Final(next, k)
    BY <1>5, <1>6 DEF Complete
  <2>4. next.mode = "focused" /\ next.stage \in Confirmed => next.focus # None
    BY <1>1, <1>4, <1>6 DEF Sound
  <2>5. next.ledger # None /\ next.mode # "inventoryOnly" =>
          (\A k \in Packet : Final(next, k)) /\ next.ledger = LedgerOf(next)
    BY <1>1, <1>4, <1>5 DEF Sound
  <2>6. next.ledger # None /\ next.mode = "focused" => Covered(next)
    BY <1>1, <1>4, <1>5 DEF Sound
  <2> QED BY <2>1, <2>2, <2>3, <2>4, <2>5, <2>6 DEF Sound
<1>8. Follows(h, next)
  <2>1. StageFollows(h, next)
    BY <1>4 DEF StageFollows
  <2> QED BY <1>1, <1>4, <2>1, SameReceipts
<1> QED BY <1>3, <1>7, <1>8 DEF Legal, Told

LEMMA PrepareKeeps ==
  ASSUME IInv, NEW p \in Proc, NEW r \in Run, NEW m \in Mode, Prepare(p, r, m)
  PROVE  IInv'
<1> DEFINE next == [Unknown EXCEPT !.stage = "created", !.mode = m]
<1>1. /\ next.stage = "created" /\ next.mode = m /\ next.intake = Unknown.intake
      /\ next.focus = Unknown.focus /\ next.receipts = Unknown.receipts
      /\ next.artifacts = Unknown.artifacts
      /\ next.proposals = Unknown.proposals /\ next.ledger = None
  BY DEF Unknown
<1>2. next \in HeadsOver(Files)
  <2>1. Unknown \in HeadsOver(Files)
    BY UnknownIsSound, Widen
  <2> QED BY <2>1, FirstStages DEF HeadsOver
<1>3. Sound(next)
  BY <1>1 DEF Sound, Attempted, Unknown, Packet, Confirmed, Compared
<1>4. Follows(head[r], next)
  <2>1. head[r] = Unknown /\ Unknown.stage = "unknown"
    BY DEF Prepare, Unknown
  <2>2. Unknown \in HeadsOver({})
    BY UnknownIsSound
  <2>3. Unknown.intake = None /\ Unknown.focus = None
    BY DEF Unknown
  <2>4. StageFollows(Unknown, next)
    BY <1>1, <2>1 DEF StageFollows
  <2> HIDE DEF next
  <2> QED BY <1>1, <2>1, <2>2, <2>3, <2>4, SameReceipts
<1>5. Legal(r, next, {})
  BY <1>2, <1>3, <1>4 DEF Legal, Told
<1>6. <<Own("run-identity", r, m)>> \in Seq(File) /\ <<>> \in Seq(File)
  <2>1. "run-identity" \in Kind /\ m \in Content
    BY DEF Kind, Content
  <2> QED BY <2>1, OwnFile
<1> QED BY <1>5, <1>6, BeginKeeps DEF Prepare

LEMMA ApproveKeeps ==
  ASSUME IInv, NEW p \in Proc, NEW r \in Run, Approve(p, r)
  PROVE  IInv'
<1>1. /\ approved' = approved \union {r}
      /\ Files' = Files /\ UNCHANGED <<head, whole, torn, lock, at, job, kills, told>>
  BY DEF Approve, Files
<1>2. Shape'
  BY <1>1 DEF IInv, Shape
<1>3. HeadsSound' /\ ToldInv'
  BY <1>1 DEF IInv, HeadsSound, ToldInv
<1>4. CommandInv'
  BY <1>1, Undisturbed DEF IInv, CommandInv
<1> QED BY <1>2, <1>3, <1>4 DEF IInv

LEMMA ConfirmKeeps ==
  ASSUME IInv, NEW e \in ToldEntry, Holds(head[e[1]], e[2], e[3]), Confirm(e)
  PROVE  IInv'
<1>1. /\ told' = told \union {e}
      /\ Files' = Files /\ UNCHANGED <<head, whole, torn, approved, lock, at, job, kills>>
  BY DEF Confirm, Files
<1>2. Shape'
  BY <1>1 DEF IInv, Shape
<1>3. HeadsSound' /\ ToldInv'
  BY <1>1 DEF IInv, HeadsSound, ToldInv
<1>4. CommandInv'
  BY <1>1, Undisturbed DEF IInv, CommandInv
<1> QED BY <1>2, <1>3, <1>4 DEF IInv

LEMMA IntakeKeeps ==
  ASSUME IInv, NEW p \in Proc, NEW r \in Run, NEW c \in Choice, Intake(p, r, c)
  PROVE  IInv'
<1> DEFINE h == head[r]
           next == [h EXCEPT !.stage = "intakeRecorded", !.intake = c]
<1>1. h \in HeadsOver(Files) /\ Sound(h) /\ h.stage = "scopeApproved" /\ h.intake = None
  BY DEF IInv, HeadsSound, Intake
<1>2. next \in HeadsOver(Files)
  BY <1>1, FirstStages DEF HeadsOver
<1>3. /\ next.stage = "intakeRecorded" /\ next.mode = h.mode /\ next.intake = c
      /\ next.focus = h.focus /\ next.receipts = h.receipts /\ next.artifacts = h.artifacts
      /\ next.proposals = h.proposals /\ next.ledger = h.ledger
  BY <1>1 DEF HeadsOver
<1>4. Sound(next)
  <2>1. h.ledger = None
    BY <1>1 DEF Sound, Compared
  <2>2. Attempted(next, Sceptic) => \A n \in Normal : Final(next, n)
    BY <1>1, <1>3, SameQueue DEF Sound, Packet
  <2> QED BY <1>3, <2>1, <2>2 DEF Sound, Confirmed, Compared
<1>5. Follows(h, next)
  <2>1. StageFollows(h, next)
    BY <1>1, <1>3 DEF StageFollows, NextStage
  <2> QED BY <1>1, <1>3, <2>1, SameReceipts
<1>6. Legal(r, next, {<<r, "intake", c>>})
  <2>1. <<r, "intake", c>> \in ToldEntry
    BY DEF ToldEntry, Item
  <2>2. Holds(next, "intake", c)
    BY <1>3 DEF Holds
  <2> HIDE DEF next
  <2> QED BY <1>2, <1>4, <1>5, <2>1, <2>2 DEF Legal, Told
<1>7. <<Own("intake-receipt", r, c)>> \in Seq(File) /\ <<>> \in Seq(File)
  <2>1. "intake-receipt" \in Kind /\ c \in Content
    BY DEF Kind, Content
  <2> QED BY <2>1, OwnFile
<1> QED BY <1>6, <1>7, BeginKeeps DEF Intake, Loads

LEMMA FocusKeeps ==
  ASSUME IInv, NEW p \in Proc, NEW r \in Run, NEW c \in Choice, Focus(p, r, c)
  PROVE  IInv'
<1> DEFINE h == head[r]
           next == [h EXCEPT !.focus = c]
<1>1. h \in HeadsOver(Files) /\ Sound(h) /\ h.stage = "familyMapped" /\ h.focus = None
  BY DEF IInv, HeadsSound, Focus
<1>2. next \in HeadsOver(Files)
  BY <1>1 DEF HeadsOver
<1>3. /\ next.stage = h.stage /\ next.mode = h.mode /\ next.intake = h.intake
      /\ next.focus = c /\ next.receipts = h.receipts /\ next.artifacts = h.artifacts
      /\ next.proposals = h.proposals /\ next.ledger = h.ledger
  BY <1>1 DEF HeadsOver
<1>4. Sound(next)
  <2>1. h.ledger = None
    BY <1>1 DEF Sound, Compared
  <2>2. Attempted(next, Sceptic) => \A n \in Normal : Final(next, n)
    <3>1. \A k \in Packet : /\ Attempted(h, k) <=> Attempted(next, k)
                            /\ Final(h, k) <=> Final(next, k)
      BY <1>3 DEF Attempted, Answered, Final
    <3> QED BY <1>1, <3>1 DEF Sound, Packet
  <2> QED BY <1>1, <1>3, <2>1, <2>2 DEF Sound, Confirmed, Compared
<1>5. Follows(h, next)
  <2>1. StageFollows(h, next)
    BY <1>1, <1>3 DEF StageFollows
  <2> QED BY <1>1, <1>3, <2>1, SameReceipts
<1>6. Legal(r, next, {<<r, "focus", c>>})
  <2>1. <<r, "focus", c>> \in ToldEntry
    BY DEF ToldEntry, Item
  <2>2. Holds(next, "focus", c)
    BY <1>3 DEF Holds
  <2> HIDE DEF next
  <2> QED BY <1>2, <1>4, <1>5, <2>1, <2>2 DEF Legal, Told
<1>7. <<Own("focus-receipt", r, c)>> \in Seq(File) /\ <<>> \in Seq(File)
  <2>1. "focus-receipt" \in Kind /\ c \in Content
    BY DEF Kind, Content
  <2> QED BY <2>1, OwnFile
<1> QED BY <1>6, <1>7, BeginKeeps DEF Focus, Loads

LEMMA SecondAttempt ==
  ASSUME NEW S, NEW a \in S, NEW x \in S
  PROVE  Append(<<a>>, x) = <<a, x>>
<1> DEFINE s == Append(<<a>>, x)  t == <<a, x>>
<1>1. s \in Seq(S) /\ t \in Seq(S) /\ Len(s) = 2 /\ Len(t) = 2
  OBVIOUS
<1>2. \A i \in 1 .. 2 : s[i] = t[i]
  <2>1. s[1] = t[1] /\ s[2] = t[2]
    OBVIOUS
  <2> HIDE DEF s, t
  <2> QED BY <2>1
<1> HIDE DEF s, t
<1>3. s = t
  BY <1>1, <1>2, SeqEqual
<1> QED BY <1>3 DEF s, t

\* One more receipt on a pending packet, and its record.
LEMMA SubmitWorkKeeps ==
  ASSUME IInv, NEW p \in Proc, NEW r \in Run, NEW k \in Packet, NEW x \in Response,
         SubmitWork(p, r, k, x)
  PROVE  IInv'
<1> DEFINE h == head[r]
           next == Recorded(h, k, x)
           reply == IF x \in Answer THEN {<<r, k, x>>} ELSE {}
<1>1. /\ h \in HeadsOver(Files) /\ Sound(h) /\ h.stage = "analysisPlanned"
      /\ ~Final(h, k) /\ (k = Sceptic => \A n \in Normal : Final(h, n))
  BY DEF IInv, HeadsSound, SubmitWork, WorkOpen, Pending
<1>2. h.receipts[k] = <<>> \/ h.receipts[k] = <<"malformed">>
  BY <1>1, Attempts
<1>3. Append(h.receipts[k], x) \in {<<y>> : y \in Response}
                                   \union {<<"malformed", y>> : y \in Response}
  <2>1. Append(<<>>, x) = <<x>>
    OBVIOUS
  <2>2. Append(<<"malformed">>, x) = <<"malformed", x>>
    BY SecondAttempt DEF Response
  <2> QED BY <1>2, <2>1, <2>2
<1>4. next \in HeadsOver(Files)
  <2> DEFINE Log == {<<>>} \union {<<y>> : y \in Response}
                           \union {<<"malformed", y>> : y \in Response}
  <2>1. h.receipts \in [Packet -> Log]
    BY <1>1 DEF HeadsOver
  <2> DEFINE new == [h.receipts EXCEPT ![k] = Append(@, x)]
  <2>2. new \in [Packet -> Log]
    BY <1>3, <2>1
  <2> DEFINE one == [h EXCEPT !.receipts = new]
             two == [one EXCEPT !.receiptCount = @ + 1]
  <2>3. one \in HeadsOver(Files)
    <3> HIDE DEF new
    <3> QED BY <1>1, <2>2 DEF HeadsOver
  <2>4. two \in HeadsOver(Files)
    <3> HIDE DEF one
    <3> QED BY <2>3 DEF HeadsOver
  <2>5. next = [two EXCEPT !.recordCount = @ + 1]
    BY <1>1 DEF Recorded, HeadsOver
  <2> HIDE DEF two, next
  <2> QED BY <2>4, <2>5 DEF HeadsOver
<1>5. /\ next.stage = h.stage /\ next.mode = h.mode /\ next.intake = h.intake
      /\ next.focus = h.focus /\ next.artifacts = h.artifacts
      /\ next.proposals = h.proposals /\ next.ledger = h.ledger
      /\ next.receipts[k] = Append(h.receipts[k], x)
      /\ \A n \in Packet \ {k} : next.receipts[n] = h.receipts[n]
      /\ next.receiptCount \in Nat /\ next.recordCount \in Nat
  BY <1>1 DEF Recorded, HeadsOver
<1>6. \A n \in Packet \ {k} : /\ Attempted(next, n) <=> Attempted(h, n)
                              /\ Final(next, n) <=> Final(h, n)
  BY <1>5 DEF Attempted, Answered, Final
<1>7. Sound(next)
  <2>1. next.ledger = None
    BY <1>1, <1>5 DEF Sound, Compared
  <2>2. Attempted(next, Sceptic) => \A n \in Normal : Final(next, n)
    <3>1. CASE k = Sceptic
      BY <1>1, <1>6, <3>1, ConstantAssumption DEF Packet
    <3>2. CASE k # Sceptic
      <4>1. k \in Normal /\ ~Attempted(h, Sceptic)
        BY <1>1, <3>2 DEF Sound, Packet
      <4> QED BY <1>6, <3>2, <4>1 DEF Packet
    <3> QED BY <3>1, <3>2
  <2>3. next.mode = "focused" => next.focus # None
    BY <1>1, <1>5 DEF Sound, Confirmed
  <2> HIDE DEF next
  <2> QED BY <1>1, <1>5, <2>1, <2>2, <2>3 DEF Sound
<1>8. Follows(h, next)
  <2>1. \A n \in Packet \ {k} : h.receipts[n] = h.receipts[n] \o <<>>
    BY <1>1, Attempts
  <2>2. next.receipts[k] = h.receipts[k] \o <<x>>
    <3>1. h.receipts[k] \in Seq(Response)
      BY <1>1, Attempts
    <3>2. Append(h.receipts[k], x) = h.receipts[k] \o <<x>>
      BY <3>1, AppendIsConcat
    <3> QED BY <1>5, <3>2
  <2> HIDE DEF next, h
  <2> QED BY <1>1, <1>5, <2>1, <2>2 DEF Follows
<1>9. Told(reply, next, r)
  <2>1. CASE x \in Answer
    <3>1. <<r, k, x>> \in ToldEntry
      BY <2>1 DEF ToldEntry, Item
    <3>2. Answered(next, k) /\ LastOf(next.receipts[k]) = x
      <4>1. \/ next.receipts[k] = <<x>>
            \/ next.receipts[k] = <<"malformed", x>>
        <5>1. Append(<<"malformed">>, x) = <<"malformed", x>>
          BY SecondAttempt DEF Response
        <5>2. Append(<<>>, x) = <<x>>
          OBVIOUS
        <5> HIDE DEF next, h
        <5> QED BY <1>2, <1>5, <5>1, <5>2
      <4>2. next.receipts[k] # <<>> /\ LastOf(next.receipts[k]) = x
        <5> HIDE DEF next
        <5>1. CASE next.receipts[k] = <<x>>
          BY <5>1 DEF LastOf
        <5>2. CASE next.receipts[k] = <<"malformed", x>>
          BY <5>2 DEF LastOf
        <5> QED BY <4>1, <5>1, <5>2
      <4> HIDE DEF next
      <4> QED BY <2>1, <4>2 DEF Answered, Attempted
    <3>3. k # "intake" /\ k # "focus"
      BY ConstantAssumption
    <3>4. Holds(next, k, x)
      BY <3>2, <3>3 DEF Holds
    <3> HIDE DEF next
    <3> QED BY <2>1, <3>1, <3>4 DEF Told
  <2>2. CASE x \notin Answer
    BY <2>2 DEF Told
  <2> QED BY <2>1, <2>2
<1>10. Legal(r, next, reply)
  BY <1>4, <1>7, <1>8, <1>9 DEF Legal
<1>11. QueueFiles(r, next) \in Seq(File) /\ <<>> \in Seq(File)
  BY <1>5, QueueFilesAreFiles
<1> QED BY <1>10, <1>11, BeginKeeps DEF SubmitWork, WorkOpen, Loads

\* A replay that adds a record adds nothing else.
LEMMA ReplayMalformedKeeps ==
  ASSUME IInv, NEW p \in Proc, NEW r \in Run, NEW k \in Packet, ReplayMalformed(p, r, k)
  PROVE  IInv'
<1> DEFINE h == head[r]
           next == [h EXCEPT !.recordCount = @ + 1]
<1>1. h \in HeadsOver(Files) /\ Sound(h)
  BY DEF IInv, HeadsSound
<1>2. next \in HeadsOver(Files)
  BY <1>1 DEF HeadsOver
<1>3. /\ next.stage = h.stage /\ next.mode = h.mode /\ next.intake = h.intake
      /\ next.focus = h.focus /\ next.receipts = h.receipts /\ next.artifacts = h.artifacts
      /\ next.proposals = h.proposals /\ next.ledger = h.ledger
      /\ next.receiptCount \in Nat /\ next.recordCount \in Nat
  BY <1>1 DEF HeadsOver
<1>4. Sound(next)
  <2>1. /\ Attempted(h, Sceptic) <=> Attempted(next, Sceptic)
        /\ \A n \in Packet : Final(h, n) <=> Final(next, n)
        /\ LedgerOf(h) = LedgerOf(next)
        /\ Covered(h) <=> Covered(next)
    BY <1>3, SameQueue DEF Packet
  <2> QED BY <1>1, <1>3, <2>1 DEF Sound, Packet
<1>5. Follows(h, next)
  <2>1. StageFollows(h, next)
    BY <1>3 DEF StageFollows
  <2> QED BY <1>1, <1>3, <2>1, SameReceipts
<1>6. Legal(r, next, {})
  BY <1>2, <1>4, <1>5 DEF Legal, Told
<1>7. QueueFiles(r, next) \in Seq(File) /\ <<>> \in Seq(File)
  <2> HIDE DEF next
  <2> QED BY <1>3, QueueFilesAreFiles
<1> QED BY <1>6, <1>7, BeginKeeps DEF ReplayMalformed, WorkOpen, Loads

LEMMA SubmitKeeps ==
  ASSUME IInv, NEW p \in Proc, NEW r \in Run, NEW x \in Answer, Submit(p, r, x)
  PROVE  IInv'
<1> DEFINE h == head[r]
           next == [h EXCEPT !.proposals = @ \union {x}]
<1>1. h \in HeadsOver(Files) /\ Sound(h) /\ h.mode = "inventoryOnly"
  BY DEF IInv, HeadsSound, Submit
<1>2. next \in HeadsOver(Files)
  BY <1>1 DEF HeadsOver
<1>3. /\ next.stage = h.stage /\ next.mode = h.mode /\ next.intake = h.intake
      /\ next.focus = h.focus /\ next.receipts = h.receipts /\ next.artifacts = h.artifacts
      /\ next.ledger = h.ledger /\ next.proposals \in SUBSET Answer
  BY <1>1 DEF HeadsOver
<1>4. Sound(next)
  <2>1. \A n \in Packet : /\ Attempted(h, n) <=> Attempted(next, n)
                          /\ Final(h, n) <=> Final(next, n)
    BY <1>3 DEF Attempted, Answered, Final
  <2> HIDE DEF next
  <2> QED BY <1>1, <1>3, <2>1 DEF Sound, Packet
<1>5. Follows(h, next)
  <2>1. StageFollows(h, next)
    BY <1>3 DEF StageFollows
  <2> QED BY <1>1, <1>3, <2>1, SameReceipts
<1>6. Legal(r, next, {})
  BY <1>2, <1>4, <1>5 DEF Legal, Told
<1>7. <<Own("proposals", r, next.proposals)>> \in Seq(File) /\ <<>> \in Seq(File)
  <2>1. "proposals" \in Kind /\ next.proposals \in Content
    BY <1>3 DEF Kind, Content
  <2> QED BY <2>1, OwnFile
<1> QED BY <1>6, <1>7, BeginKeeps DEF Submit, Loads

\* A replay is answered with what is on record.
LEMMA ReplaysKeep ==
  ASSUME IInv, NEW p \in Proc, NEW r \in Run,
         \/ \E c \in Choice : IntakeReplay(p, r, c) \/ FocusReplay(p, r, c)
         \/ \E k \in Packet, x \in Answer : ReplayAnswer(p, r, k, x)
  PROVE  IInv' /\ head' = head
<1>1. ASSUME NEW c \in Choice, IntakeReplay(p, r, c) PROVE IInv'
  <2> DEFINE e == <<r, "intake", c>>
  <2>1. e \in ToldEntry /\ Holds(head[e[1]], e[2], e[3]) /\ Confirm(e)
    BY <1>1 DEF IntakeReplay, ToldEntry, Item, Holds
  <2> QED BY <2>1, ConfirmKeeps
<1>2. ASSUME NEW c \in Choice, FocusReplay(p, r, c) PROVE IInv'
  <2> DEFINE e == <<r, "focus", c>>
  <2>1. e \in ToldEntry /\ Holds(head[e[1]], e[2], e[3]) /\ Confirm(e)
    BY <1>2 DEF FocusReplay, ToldEntry, Item, Holds
  <2> QED BY <2>1, ConfirmKeeps
<1>3. ASSUME NEW k \in Packet, NEW x \in Answer, ReplayAnswer(p, r, k, x) PROVE IInv'
  <2> DEFINE e == <<r, k, x>>
  <2>1. k # "intake" /\ k # "focus"
    BY ConstantAssumption
  <2>2. e \in ToldEntry /\ Holds(head[e[1]], e[2], e[3]) /\ Confirm(e)
    BY <1>3, <2>1 DEF ReplayAnswer, ToldEntry, Item, Holds
  <2> QED BY <2>2, ConfirmKeeps
<1> QED BY <1>1, <1>2, <1>3 DEF IntakeReplay, FocusReplay, ReplayAnswer, Confirm

\* A handler that only moves the stage on.
LEMMA MoveKeeps ==
  ASSUME IInv, NEW p \in Proc, NEW r \in Run, Loads(p, r),
         head[r].stage \in DOMAIN NextStage,
         head[r].stage = "familyMapped" /\ head[r].mode = "focused" => head[r].focus # None,
         head[r].stage = "analysisPlanned" => Complete(head[r]),
         NEW artifacts \in Seq(File),
         Begin(p, r, <<>>, artifacts, Moved(head[r]), {})
  PROVE  IInv'
<1>1. Legal(r, Moved(head[r]), {})
  BY MovedIsLegal
<1>2. <<>> \in Seq(File)
  OBVIOUS
<1> QED BY <1>1, <1>2, BeginKeeps DEF Loads

LEMMA SharedFile == <<Shared("catalogue")>> \in Seq(File)
<1>1. "catalogue" \in Kind /\ None \in Holder /\ None \in Content
  BY DEF Holder, Content, Kind
<1> QED BY <1>1 DEF Shared, File

LEMMA HandlersKeep ==
  ASSUME IInv, NEW p \in Proc, NEW r \in Run,
         \/ ApproveScope(p, r) \/ Capture(p, r) \/ VerifyCatalogue(p, r)
         \/ MapFamilies(p, r) \/ ConfirmJobs(p, r) \/ PlanAnalysis(p, r)
         \/ CompleteAnalysis(p, r) \/ RenderOrCheck(p, r) \/ Close(p, r)
  PROVE  IInv'
<1>1. None \in Content /\ {"scope-receipt", "fingerprint", "family-map", "diagnosis-input",
                            "reconciled-proposals"} \subseteq Kind
  BY DEF Content, Kind
<1>2. CASE ApproveScope(p, r)
  <2>1. <<Own("scope-receipt", r, None)>> \in Seq(File)
    BY <1>1, OwnFile
  <2> QED BY <1>2, <2>1, MoveKeeps DEF ApproveScope, Handler, NextStage
<1>3. CASE Capture(p, r)
  <2>1. <<Own("fingerprint", r, None)>> \in Seq(File)
    BY <1>1, OwnFile
  <2> QED BY <1>3, <2>1, MoveKeeps DEF Capture, Handler, NextStage
<1>4. CASE VerifyCatalogue(p, r)
  BY <1>4, SharedFile, MoveKeeps DEF VerifyCatalogue, Handler, NextStage
<1>5. CASE MapFamilies(p, r)
  <2>1. <<Own("family-map", r, None)>> \in Seq(File)
    BY <1>1, OwnFile
  <2> QED BY <1>5, <2>1, MoveKeeps DEF MapFamilies, Handler, NextStage
<1>6. CASE ConfirmJobs(p, r)
  <2>1. <<Own("diagnosis-input", r, None)>> \in Seq(File)
    BY <1>1, OwnFile
  <2> QED BY <1>6, <2>1, MoveKeeps DEF ConfirmJobs, Handler, NextStage
<1>7. CASE PlanAnalysis(p, r)
  <2>1. head[r].receiptCount \in Nat /\ head[r].recordCount \in Nat
    BY DEF IInv, HeadsSound, HeadsOver
  <2>2. QueueFiles(r, head[r]) \in Seq(File)
    BY <2>1, QueueFilesAreFiles
  <2> QED BY <1>7, <2>2, MoveKeeps DEF PlanAnalysis, Handler, NextStage
<1>8. CASE CompleteAnalysis(p, r)
  <2>1. <<Own("reconciled-proposals", r, None)>> \in Seq(File)
    BY <1>1, OwnFile
  <2> QED BY <1>8, <2>1, MoveKeeps DEF CompleteAnalysis, Handler, NextStage
<1>9. CASE RenderOrCheck(p, r)
  <2>1. <<>> \in Seq(File)
    OBVIOUS
  <2> QED BY <1>9, <2>1, MoveKeeps DEF RenderOrCheck, Handler, NextStage
<1>10. CASE Close(p, r)
  <2>1. <<>> \in Seq(File)
    OBVIOUS
  <2> QED BY <1>10, <2>1, MoveKeeps DEF Close, Handler, NextStage
<1> QED BY <1>2, <1>3, <1>4, <1>5, <1>6, <1>7, <1>8, <1>9, <1>10

LEMMA SaveKeeps ==
  ASSUME IInv, NEW p \in Proc, NEW r \in Run, Save(p, r)
  PROVE  IInv'
<1> DEFINE h == Moved(head[r])
<1>1. PICK n \in 1 .. MaxKills + 1 :
        Begin(p, r,
          <<ReportFile(r, n, "markdown"), ReportFile(r, n, "ledgerJson"),
            ReportFile(r, n, "resultJson")>>,
          <<Own("saved-report", r, n)>>, [h EXCEPT !.report = n], {})
  BY DEF Save
<1> DEFINE next == [h EXCEPT !.report = n]
<1>2. head[r].stage = "checked" /\ Loads(p, r)
  BY DEF Save, Handler
<1>3. Legal(r, h, {})
  BY <1>2, MovedIsLegal DEF NextStage
<1> HIDE DEF h
<1>4. n \in 0 .. MaxKills + 1 /\ n \in Nat
  BY ConstantAssumption
<1>5. next \in HeadsOver(Files)
  BY <1>3, <1>4 DEF Legal, HeadsOver
<1>6. /\ next.stage = h.stage /\ next.mode = h.mode /\ next.intake = h.intake
      /\ next.focus = h.focus /\ next.receipts = h.receipts /\ next.artifacts = h.artifacts
      /\ next.proposals = h.proposals /\ next.ledger = h.ledger
  BY <1>3 DEF Legal, HeadsOver
<1>7. Sound(next)
  <2>1. /\ Attempted(h, Sceptic) <=> Attempted(next, Sceptic)
        /\ \A k \in Packet : Final(h, k) <=> Final(next, k)
        /\ LedgerOf(h) = LedgerOf(next)
        /\ Covered(h) <=> Covered(next)
    BY <1>6, SameQueue DEF Packet
  <2> QED BY <1>3, <1>6, <2>1 DEF Legal, Sound, Packet
<1>8. Follows(head[r], next)
  BY <1>3, <1>6 DEF Legal, Follows
<1>9. Legal(r, next, {})
  BY <1>5, <1>7, <1>8 DEF Legal, Told
<1>10. <<Own("saved-report", r, n)>> \in Seq(File)
  <2>1. "saved-report" \in Kind /\ n \in Content
    BY <1>4 DEF Kind, Content
  <2> QED BY <2>1, OwnFile
<1>11. \A part \in ReportParts : ReportFile(r, n, part) \in File
  <2>1. r \in Holder /\ n \in Content /\ ReportParts \subseteq Kind
    BY <1>4 DEF Holder, Content, Kind
  <2> QED BY <2>1 DEF ReportFile, File
<1>12. <<ReportFile(r, n, "markdown"), ReportFile(r, n, "ledgerJson"),
         ReportFile(r, n, "resultJson")>> \in Seq(File)
  BY <1>11 DEF ReportParts
<1> QED BY <1>1, <1>2, <1>9, <1>10, <1>12, BeginKeeps DEF Loads

\* The ledger is taken from a finished queue that covers the selection.
LEMMA CompareLedgerKeeps ==
  ASSUME IInv, NEW p \in Proc, NEW r \in Run, CompareLedger(p, r)
  PROVE  IInv'
<1> DEFINE h == head[r]
           next == [h EXCEPT !.stage = "compared", !.ledger = LedgerOf(h)]
<1>1. /\ h \in HeadsOver(Files) /\ Sound(h) /\ Covered(h)
      /\ h.mode # "inventoryOnly" => h.stage = "analysisCompleted"
      /\ h.mode = "inventoryOnly" => h.stage = "jobsConfirmed"
  BY DEF IInv, HeadsSound, CompareLedger
<1>2. LedgerOf(h) \in [answers : [Packet -> Answer \union {None}], proposals : SUBSET Answer]
  BY <1>1 DEF LedgerOf, Answered, HeadsOver
<1>3. next \in HeadsOver(Files)
  <2>1. "compared" \in Stage
    BY DEF Stage, NextStage
  <2> QED BY <1>1, <1>2, <2>1 DEF HeadsOver
<1>4. /\ next.stage = "compared" /\ next.mode = h.mode /\ next.intake = h.intake
      /\ next.focus = h.focus /\ next.receipts = h.receipts /\ next.artifacts = h.artifacts
      /\ next.proposals = h.proposals /\ next.ledger = LedgerOf(h)
  BY <1>1 DEF HeadsOver
<1>5. Sound(next)
  <2>1. /\ Attempted(h, Sceptic) <=> Attempted(next, Sceptic)
        /\ \A k \in Packet : Final(h, k) <=> Final(next, k)
        /\ LedgerOf(h) = LedgerOf(next)
        /\ Covered(h) <=> Covered(next)
    <3> HIDE DEF next
    <3> QED BY <1>4, SameQueue DEF Packet
  <2>2. h.mode # "inventoryOnly" => \A k \in Packet : Final(h, k)
    BY <1>1 DEF Sound
  <2>3. h.mode = "focused" => h.focus # None
    BY <1>1 DEF Sound, Confirmed
  <2> HIDE DEF next
  <2> QED BY <1>1, <1>4, <2>1, <2>2, <2>3 DEF Sound, Packet, Compared
<1>6. Follows(h, next)
  <2>1. StageFollows(h, next)
    BY <1>1, <1>4 DEF StageFollows, NextStage
  <2> QED BY <1>1, <1>4, <2>1, SameReceipts
<1>7. Legal(r, next, {})
  BY <1>3, <1>5, <1>6 DEF Legal, Told
<1>8. <<Own("ledger", r, None)>> \in Seq(File) /\ <<>> \in Seq(File)
  <2>1. "ledger" \in Kind /\ None \in Content
    BY DEF Kind, Content
  <2> QED BY <2>1, OwnFile
<1> QED BY <1>7, <1>8, BeginKeeps DEF CompareLedger, Loads
-----------------------------------------------------------------------------
(* The theorems.                                                              *)

LEMMA StepKeeps ==
  ASSUME IInv, [Next]_vars
  PROVE  IInv' /\ \A r \in Run : Follows(head[r], head'[r])
<1>1. ASSUME head' = head PROVE \A r \in Run : Follows(head[r], head'[r])
  BY <1>1, Stutter DEF IInv, HeadsSound
<1>2. ASSUME NEW p \in Proc, NEW r \in Run, PersonStep(p, r)
      PROVE  IInv' /\ head' = head
  <2>1. CASE \E m \in Mode : Prepare(p, r, m)
    BY <2>1, PrepareKeeps DEF Prepare, Begin
  <2>2. CASE Approve(p, r)
    BY <2>2, ApproveKeeps DEF Approve
  <2>3. CASE \E c \in Choice : Intake(p, r, c)
    BY <2>3, IntakeKeeps DEF Intake, Begin
  <2>4. CASE \E c \in Choice : Focus(p, r, c)
    BY <2>4, FocusKeeps DEF Focus, Begin
  <2>5. CASE \E c \in Choice : IntakeReplay(p, r, c) \/ FocusReplay(p, r, c)
    BY <2>5, ReplaysKeep
  <2> QED BY <1>2, <2>1, <2>2, <2>3, <2>4, <2>5 DEF PersonStep
<1>3. ASSUME NEW p \in Proc, NEW r \in Run, HostStep(p, r)
      PROVE  IInv' /\ head' = head
  <2>1. CASE \E k \in Packet, x \in Response : SubmitWork(p, r, k, x)
    BY <2>1, SubmitWorkKeeps DEF SubmitWork, Begin
  <2>2. CASE \E k \in Packet, x \in Answer : ReplayAnswer(p, r, k, x)
    BY <2>2, ReplaysKeep
  <2>3. CASE \E k \in Packet : ReplayMalformed(p, r, k)
    BY <2>3, ReplayMalformedKeeps DEF ReplayMalformed, Begin
  <2>4. CASE \E x \in Answer : Submit(p, r, x)
    BY <2>4, SubmitKeeps DEF Submit, Begin
  <2> QED BY <1>3, <2>1, <2>2, <2>3, <2>4 DEF HostStep
<1>4. ASSUME NEW p \in Proc, NEW r \in Run, AdvanceStep(p, r)
      PROVE  IInv' /\ head' = head
  <2>1. CASE CompareLedger(p, r)
    BY <2>1, CompareLedgerKeeps DEF CompareLedger, Begin
  <2>2. CASE Save(p, r)
    BY <2>2, SaveKeeps DEF Save, Begin
  <2>3. CASE \/ ApproveScope(p, r) \/ Capture(p, r) \/ VerifyCatalogue(p, r)
             \/ MapFamilies(p, r) \/ ConfirmJobs(p, r) \/ PlanAnalysis(p, r)
             \/ CompleteAnalysis(p, r) \/ RenderOrCheck(p, r) \/ Close(p, r)
    BY <2>3, HandlersKeep DEF ApproveScope, Capture, VerifyCatalogue, MapFamilies,
       ConfirmJobs, PlanAnalysis, CompleteAnalysis, RenderOrCheck, Close, Begin
  <2> QED BY <1>4, <2>1, <2>2, <2>3 DEF AdvanceStep
<1>5. ASSUME NEW p \in Proc, StoreStep(p)
      PROVE  IInv' /\ \A r \in Run : Follows(head[r], head'[r])
  <2>1. CASE Write(p)
    BY <1>1, <2>1, WriteKeeps DEF Write
  <2>2. CASE CompareHead(p)
    BY <1>1, <2>2, CompareKeeps DEF CompareHead
  <2>3. CASE ReplaceHead(p)
    BY <2>3, ReplaceKeeps, ReplaceFollows
  <2>4. CASE AnswerCaller(p)
    BY <1>1, <2>4, AnswerKeeps DEF AnswerCaller
  <2>5. CASE Kill(p)
    BY <1>1, <2>5, KillKeeps DEF Kill
  <2> QED BY <1>5, <2>1, <2>2, <2>3, <2>4, <2>5 DEF StoreStep
<1>6. CASE UNCHANGED vars
  <2>1. Files' = Files /\ head' = head /\ lock' = lock /\ at' = at /\ job' = job
    BY <1>6 DEF vars, Files
  <2>2. Shape' /\ HeadsSound' /\ ToldInv'
    BY <1>6, <2>1 DEF vars, IInv, Shape, HeadsSound, ToldInv
  <2>3. CommandInv'
    BY <2>1, Undisturbed DEF IInv, CommandInv
  <2> QED BY <1>1, <2>1, <2>2, <2>3 DEF IInv
<1> QED BY <1>1, <1>2, <1>3, <1>4, <1>5, <1>6 DEF Next

LEMMA InitKeeps ==
  ASSUME Init
  PROVE  IInv
<1>1. Shape
  <2>1. "todo" \in DOMAIN NoJob
    BY DEF NoJob
  <2> QED BY <2>1, ConstantAssumption DEF Init, Shape
<1>2. HeadsSound
  BY UnknownIsSound, Widen DEF Init, HeadsSound
<1>3. CommandInv /\ ToldInv
  BY DEF Init, CommandInv, ToldInv
<1> QED BY <1>1, <1>2, <1>3 DEF IInv

LEMMA Inductive == Spec => []IInv
<1>1. IInv /\ [Next]_vars => IInv'
  BY StepKeeps
<1> QED BY InitKeeps, <1>1, PTL DEF Spec

\* Every checkpoint of every run, whatever the interleaving and the kills, is
\* one the models of the run and of its work queue accept, and names only
\* artifacts that were written before it.
THEOREM TypeCorrect == Spec => []TypeOK
<1>1. IInv => TypeOK
  BY DEF IInv, Shape, HeadsSound, TypeOK, Files
<1> QED BY <1>1, Inductive, PTL

\* An accepted answer, the intake answers and the focus selection, once reported
\* to any caller, are never lost to another process.
THEOREM NothingToldIsLost == Spec => []ToldIsKept
<1>1. IInv => ToldIsKept
  BY DEF IInv, ToldInv, ToldIsKept
<1> QED BY <1>1, Inductive, PTL

\* No process ever replaces a checkpoint by one that does not follow from it.
THEOREM RunsMoveForward == Spec => OnlyForward
<1>1. IInv /\ [Next]_vars => [\A r \in Run : Follows(head[r], head'[r])]_vars
  BY StepKeeps
<1> QED BY <1>1, Inductive, PTL DEF Spec, OnlyForward

\* Sceptical work is only ever recorded after all normal work is final.
THEOREM ScepticWaits == Spec => []ScepticLast
<1>1. IInv => ScepticLast
  BY DEF IInv, HeadsSound, Sound, ScepticLast
<1> QED BY <1>1, Inductive, PTL

\* The ledger of a run with specialist work is the answers of its finished queue.
THEOREM LedgerIsExact == Spec => []LedgerIsTheAnswers
<1>1. IInv => LedgerIsTheAnswers
  BY DEF IInv, HeadsSound, Sound, LedgerIsTheAnswers
<1> QED BY <1>1, Inductive, PTL

\* The ledger of a focused run has an answer that judges each selected entry,
\* whichever packet gave it and however often the run was resumed or killed.
THEOREM SelectionIsCovered == Spec => []FocusIsCovered
<1>1. IInv => FocusIsCovered
  <2> SUFFICES ASSUME IInv, NEW r \in Run, head[r].ledger # None, head[r].mode = "focused"
               PROVE  /\ head[r].focus \in Choice
                      /\ \A e \in Selected[head[r].focus] : \E k \in Packet :
                           /\ head[r].ledger.answers[k] # None
                           /\ e \in Cites[k][head[r].ledger.answers[k]]
    BY DEF FocusIsCovered
  <2>1. Sound(head[r]) /\ head[r] \in HeadsOver(Files)
    BY DEF IInv, HeadsSound
  <2>2. Covered(head[r]) /\ head[r].ledger = LedgerOf(head[r]) /\ head[r].focus # None
    BY <2>1 DEF Sound, Confirmed
  <2>3. head[r].focus \in Choice
    BY <2>1, <2>2 DEF HeadsOver
  <2>4. ASSUME NEW e \in Selected[head[r].focus]
        PROVE  \E k \in Packet : /\ head[r].ledger.answers[k] # None
                                  /\ e \in Cites[k][head[r].ledger.answers[k]]
    <3>1. PICK k \in Packet : e \in CitedBy(head[r], k)
      BY <2>2, <2>4 DEF Covered
    <3>2. Answered(head[r], k) /\ e \in Cites[k][LastOf(head[r].receipts[k])]
      BY <3>1 DEF CitedBy
    <3>3. head[r].ledger.answers[k] = LastOf(head[r].receipts[k])
      BY <2>2, <3>2 DEF LedgerOf
    <3>4. head[r].ledger.answers[k] # None
      BY <3>2, <3>3, ConstantAssumption DEF Answered
    <3> QED BY <3>2, <3>3, <3>4
  <2> QED BY <2>3, <2>4
<1> QED BY <1>1, Inductive, PTL
-----------------------------------------------------------------------------
(* The saved report.  Its three files are written by the command that holds   *)
(* the run, while the head is still at "checked", before the head that names  *)
(* them; so a kill never cuts a file that a saved head names.                 *)
Filed == {"saved", "closed"}

WholeReport(h, r, files) ==
  \A part \in ReportParts : ReportFile(r, h.report, part) \in files

\* A report file that p is to write is of p's run, which is not saved yet.
OwnReports(p) ==
  \A f \in SetOf(job[p].todo) :
    f[1] \in ReportParts => f[2] = job[p].run /\ head[job[p].run].stage = "checked"

ReportJob(p) ==
  /\ OwnReports(p)
  /\ job[p].next.stage \in Filed =>
       WholeReport(job[p].next, job[p].run, whole \union SetOf(job[p].todo))

ReportInv ==
  /\ \A r \in Run : head[r].stage \in Filed => WholeReport(head[r], r, whole)
  /\ \A p \in Proc : at[p] \in {"writing", "replacing"} => ReportJob(p)

\* What a command is about to do leaves the saved reports alone.
LEMMA BeginReports ==
  ASSUME IInv, ReportInv, NEW p \in Proc, NEW r \in Run,
         NEW reports \in Seq(File), NEW artifacts \in Seq(File), NEW next, NEW reply,
         Begin(p, r, reports, artifacts, next, reply),
         {"stage", "report"} \subseteq DOMAIN next,
         \A f \in SetOf(reports \o artifacts) :
           f[1] \in ReportParts => f[2] = r /\ head[r].stage = "checked",
         next.stage \in Filed =>
           WholeReport(next, r, whole \union SetOf(reports \o artifacts))
  PROVE  ReportInv'
<1> DEFINE todo == reports \o artifacts
<1>1. /\ job'[p].run = r /\ job'[p].todo = todo
      /\ job'[p].next = [next EXCEPT !.artifacts = @ \union SetOf(artifacts)]
      /\ at'[p] = "writing"
      /\ \A q \in Proc \ {p} : job'[q] = job[q] /\ at'[q] = at[q]
      /\ head' = head /\ whole' = whole
  BY DEF Begin, IInv, Shape
<1>2. job'[p].next.stage = next.stage /\ job'[p].next.report = next.report
  BY <1>1
<1>3. ReportJob(p)'
  BY <1>1, <1>2 DEF ReportJob, OwnReports, WholeReport
<1>4. ASSUME NEW q \in Proc \ {p}, at'[q] \in {"writing", "replacing"}
      PROVE  ReportJob(q)'
  <2>1. ReportJob(q) /\ job'[q] = job[q] /\ head' = head /\ whole' = whole
    BY <1>1, <1>4 DEF ReportInv
  <2> QED BY <2>1 DEF ReportJob, OwnReports
<1> QED BY <1>1, <1>3, <1>4 DEF ReportInv

\* A command other than the save writes no report, and renames none.
Plain(r, artifacts, next) ==
  /\ artifacts \in Seq(File)
  /\ \A f \in SetOf(artifacts) : f[1] \notin ReportParts
  /\ {"stage", "report"} \subseteq DOMAIN next
  /\ next.stage \in Filed => head[r].stage \in Filed /\ next.report = head[r].report

LEMMA PlainBegin ==
  ASSUME IInv, ReportInv, NEW p \in Proc, NEW r \in Run, NEW artifacts, NEW next, NEW reply,
         Plain(r, artifacts, next), Begin(p, r, <<>>, artifacts, next, reply)
  PROVE  ReportInv'
<1>1. <<>> \in Seq(File) /\ artifacts \in Seq(File) /\ <<>> \o artifacts = artifacts
  BY DEF Plain
<1>2. next.stage \in Filed => WholeReport(next, r, whole \union SetOf(<<>> \o artifacts))
  BY DEF Plain, ReportInv, WholeReport
<1>3. \A f \in SetOf(<<>> \o artifacts) : f[1] \notin ReportParts
  BY <1>1 DEF Plain
<1> QED BY <1>1, <1>2, <1>3, BeginReports DEF Plain

LEMMA PlainFile ==
  ASSUME NEW kind \in Kind \ ReportParts, NEW r \in Run, NEW c \in Content
  PROVE  /\ <<Own(kind, r, c)>> \in Seq(File)
         /\ \A f \in SetOf(<<Own(kind, r, c)>>) : f[1] \notin ReportParts
<1>1. SetOf(<<Own(kind, r, c)>>) = {Own(kind, r, c)}
  BY DEF SetOf
<1> QED BY <1>1, OwnFile DEF Own

LEMMA PlainQueue ==
  ASSUME NEW r \in Run, NEW h, h.receiptCount \in Nat, h.recordCount \in Nat
  PROVE  /\ QueueFiles(r, h) \in Seq(File)
         /\ \A f \in SetOf(QueueFiles(r, h)) : f[1] \notin ReportParts
<1>1. \A f \in SetOf(QueueFiles(r, h)) :
        f[1] \in {"work-queue", "work-responses", "work-audit"}
  BY DEF SetOf, QueueFiles, Own, Shared
<1> QED BY <1>1, QueueFilesAreFiles DEF ReportParts

LEMMA PlainKinds ==
  {"run-identity", "intake-receipt", "focus-receipt", "proposals", "scope-receipt",
   "fingerprint", "catalogue", "family-map", "diagnosis-input", "reconciled-proposals",
   "ledger"} \subseteq Kind \ ReportParts
BY DEF Kind, ReportParts

LEMMA PersonReports ==
  ASSUME IInv, ReportInv, NEW p \in Proc, NEW r \in Run, PersonStep(p, r)
  PROVE  ReportInv'
<1>1. head[r] \in HeadsOver(Files)
  BY DEF IInv, HeadsSound
<1>2. ASSUME NEW m \in Mode, Prepare(p, r, m) PROVE ReportInv'
  <2> DEFINE next == [Unknown EXCEPT !.stage = "created", !.mode = m]
  <2>1. next.stage \notin Filed /\ {"stage", "report"} \subseteq DOMAIN next
    BY DEF Filed, Unknown
  <2>2. m \in Content
    BY DEF Content
  <2>3. Plain(r, <<Own("run-identity", r, m)>>, next)
    BY <2>1, <2>2, PlainFile, PlainKinds DEF Plain
  <2> QED BY <1>2, <2>3, PlainBegin DEF Prepare
<1>3. ASSUME Approve(p, r) PROVE ReportInv'
  BY <1>3 DEF Approve, ReportInv, ReportJob, OwnReports
<1>4. ASSUME NEW c \in Choice, Intake(p, r, c) PROVE ReportInv'
  <2> DEFINE next == [head[r] EXCEPT !.stage = "intakeRecorded", !.intake = c]
  <2>1. next.stage \notin Filed /\ {"stage", "report"} \subseteq DOMAIN next
    BY <1>1 DEF Filed, HeadsOver
  <2>2. c \in Content
    BY DEF Content
  <2>3. Plain(r, <<Own("intake-receipt", r, c)>>, next)
    BY <2>1, <2>2, PlainFile, PlainKinds DEF Plain
  <2> QED BY <1>4, <2>3, PlainBegin DEF Intake
<1>5. ASSUME NEW c \in Choice, Focus(p, r, c) PROVE ReportInv'
  <2> DEFINE next == [head[r] EXCEPT !.focus = c]
  <2>1. next.stage \notin Filed /\ {"stage", "report"} \subseteq DOMAIN next
    BY <1>1, <1>5 DEF Filed, HeadsOver, Focus
  <2>2. c \in Content
    BY DEF Content
  <2>3. Plain(r, <<Own("focus-receipt", r, c)>>, next)
    BY <2>1, <2>2, PlainFile, PlainKinds DEF Plain
  <2> QED BY <1>5, <2>3, PlainBegin DEF Focus
<1>6. ASSUME NEW c \in Choice, IntakeReplay(p, r, c) \/ FocusReplay(p, r, c) PROVE ReportInv'
  BY <1>6 DEF IntakeReplay, FocusReplay, Confirm, ReportInv, ReportJob, OwnReports
<1> QED BY <1>2, <1>3, <1>4, <1>5, <1>6 DEF PersonStep

LEMMA HostReports ==
  ASSUME IInv, ReportInv, NEW p \in Proc, NEW r \in Run, HostStep(p, r)
  PROVE  ReportInv'
<1>1. head[r] \in HeadsOver(Files)
  BY DEF IInv, HeadsSound
<1>2. ASSUME NEW k \in Packet, NEW x \in Response, SubmitWork(p, r, k, x) PROVE ReportInv'
  <2> DEFINE next == Recorded(head[r], k, x)
  <2>1. /\ next.stage = head[r].stage /\ {"stage", "report"} \subseteq DOMAIN next
        /\ next.receiptCount \in Nat /\ next.recordCount \in Nat
    BY <1>1 DEF Recorded, HeadsOver
  <2>2. next.stage \notin Filed
    BY <1>2, <2>1 DEF SubmitWork, WorkOpen, Filed
  <2> HIDE DEF next
  <2>3. Plain(r, QueueFiles(r, next), next)
    BY <2>1, <2>2, PlainQueue DEF Plain
  <2> QED BY <1>2, <2>3, PlainBegin DEF SubmitWork, next
<1>3. ASSUME NEW k \in Packet, NEW x \in Answer, ReplayAnswer(p, r, k, x) PROVE ReportInv'
  BY <1>3 DEF ReplayAnswer, Confirm, ReportInv, ReportJob, OwnReports
<1>4. ASSUME NEW k \in Packet, ReplayMalformed(p, r, k) PROVE ReportInv'
  <2> DEFINE next == [head[r] EXCEPT !.recordCount = @ + 1]
  <2>1. /\ next.stage = head[r].stage /\ {"stage", "report"} \subseteq DOMAIN next
        /\ next.receiptCount \in Nat /\ next.recordCount \in Nat
    BY <1>1 DEF HeadsOver
  <2>2. next.stage \notin Filed
    BY <1>4, <2>1 DEF ReplayMalformed, WorkOpen, Filed
  <2> HIDE DEF next
  <2>3. Plain(r, QueueFiles(r, next), next)
    BY <2>1, <2>2, PlainQueue DEF Plain
  <2> QED BY <1>4, <2>3, PlainBegin DEF ReplayMalformed, next
<1>5. ASSUME NEW x \in Answer, Submit(p, r, x) PROVE ReportInv'
  <2> DEFINE next == [head[r] EXCEPT !.proposals = @ \union {x}]
  <2>1. /\ next.stage = head[r].stage /\ next.report = head[r].report
        /\ {"stage", "report"} \subseteq DOMAIN next /\ next.proposals \in Content
    BY <1>1 DEF HeadsOver, Content
  <2> HIDE DEF next
  <2>2. Plain(r, <<Own("proposals", r, next.proposals)>>, next)
    BY <2>1, PlainFile, PlainKinds DEF Plain
  <2> QED BY <1>5, <2>2, PlainBegin DEF Submit, next
<1> QED BY <1>2, <1>3, <1>4, <1>5 DEF HostStep

\* The handlers but the save: the stage moves on, to "saved" or past it only
\* from a saved run.
LEMMA MoveReports ==
  ASSUME IInv, ReportInv, NEW p \in Proc, NEW r \in Run, NEW artifacts,
         head[r].stage \in DOMAIN NextStage \ {"checked"},
         artifacts \in Seq(File), \A f \in SetOf(artifacts) : f[1] \notin ReportParts,
         Begin(p, r, <<>>, artifacts, Moved(head[r]), {})
  PROVE  ReportInv'
<1> DEFINE next == Moved(head[r])
<1>1. /\ next.stage = NextStage[head[r].stage] /\ next.report = head[r].report
      /\ {"stage", "report"} \subseteq DOMAIN next
  BY DEF Moved, HeadsOver, IInv, HeadsSound
<1>2. next.stage \in Filed => head[r].stage \in Filed
  BY <1>1 DEF NextStage, Filed
<1>3. Plain(r, artifacts, next)
  BY <1>1, <1>2 DEF Plain
<1> QED BY <1>3, PlainBegin

LEMMA SaveReports ==
  ASSUME IInv, ReportInv, NEW p \in Proc, NEW r \in Run, Save(p, r)
  PROVE  ReportInv'
<1>1. PICK n \in 1 .. MaxKills + 1 :
        Begin(p, r,
          <<ReportFile(r, n, "markdown"), ReportFile(r, n, "ledgerJson"),
            ReportFile(r, n, "resultJson")>>,
          <<Own("saved-report", r, n)>>, [Moved(head[r]) EXCEPT !.report = n], {})
  BY DEF Save
<1> DEFINE next == [Moved(head[r]) EXCEPT !.report = n]
           reports == <<ReportFile(r, n, "markdown"), ReportFile(r, n, "ledgerJson"),
                        ReportFile(r, n, "resultJson")>>
           record == <<Own("saved-report", r, n)>>
           names == {ReportFile(r, n, part) : part \in ReportParts}
<1>2. next.report = n /\ {"stage", "report"} \subseteq DOMAIN next
  BY DEF Moved, HeadsOver, IInv, HeadsSound
<1>3. n \in Content /\ r \in Holder /\ ReportParts \subseteq Kind /\ "saved-report" \in Kind
  BY ConstantAssumption DEF Content, Holder, Kind
<1>4. reports \in Seq(File) /\ record \in Seq(File)
  <2>1. names \subseteq File
    BY <1>3 DEF ReportFile, File
  <2> QED BY <1>3, <2>1, OwnFile DEF ReportParts
<1>5. SetOf(reports) = names
  BY DEF SetOf, ReportParts
<1>6. SetOf(record) = {Own("saved-report", r, n)}
  BY DEF SetOf
<1>7. SetOf(reports \o record) = names \union {Own("saved-report", r, n)}
  <2> HIDE DEF reports, record
  <2> QED BY <1>4, <1>5, <1>6, SetOfConcatenation
<1>8. \A f \in SetOf(reports \o record) :
        f[1] \in ReportParts => f[2] = r /\ head[r].stage = "checked"
  BY <1>7 DEF ReportFile, Own, Save, Handler
<1>9. WholeReport(next, r, whole \union SetOf(reports \o record))
  BY <1>2, <1>7 DEF WholeReport
<1> HIDE DEF reports, record, next, names
<1> QED BY <1>1, <1>2, <1>4, <1>8, <1>9, BeginReports DEF reports, record, next

LEMMA AdvanceReports ==
  ASSUME IInv, ReportInv, NEW p \in Proc, NEW r \in Run, AdvanceStep(p, r)
  PROVE  ReportInv'
<1>1. head[r] \in HeadsOver(Files) /\ None \in Content
  BY DEF IInv, HeadsSound, Content
<1>2. CASE ApproveScope(p, r)
  BY <1>1, <1>2, PlainFile, PlainKinds, MoveReports DEF ApproveScope, Handler, NextStage
<1>3. CASE Capture(p, r)
  BY <1>1, <1>3, PlainFile, PlainKinds, MoveReports DEF Capture, Handler, NextStage
<1>4. CASE VerifyCatalogue(p, r)
  <2>1. \A f \in SetOf(<<Shared("catalogue")>>) : f[1] \notin ReportParts
    BY DEF SetOf, Shared, ReportParts
  <2> QED BY <1>4, <2>1, SharedFile, MoveReports DEF VerifyCatalogue, Handler, NextStage
<1>5. CASE MapFamilies(p, r)
  BY <1>1, <1>5, PlainFile, PlainKinds, MoveReports DEF MapFamilies, Handler, NextStage
<1>6. CASE ConfirmJobs(p, r)
  BY <1>1, <1>6, PlainFile, PlainKinds, MoveReports DEF ConfirmJobs, Handler, NextStage
<1>7. CASE PlanAnalysis(p, r)
  <2>1. head[r].receiptCount \in Nat /\ head[r].recordCount \in Nat
    BY <1>1 DEF HeadsOver
  <2> QED BY <1>7, <2>1, PlainQueue, MoveReports DEF PlanAnalysis, Handler, NextStage
<1>8. CASE CompleteAnalysis(p, r)
  BY <1>1, <1>8, PlainFile, PlainKinds, MoveReports DEF CompleteAnalysis, Handler, NextStage
<1>9. CASE CompareLedger(p, r)
  <2> DEFINE next == [head[r] EXCEPT !.stage = "compared", !.ledger = LedgerOf(head[r])]
  <2>1. next.stage \notin Filed /\ {"stage", "report"} \subseteq DOMAIN next
    BY <1>1 DEF Filed, HeadsOver
  <2>2. Plain(r, <<Own("ledger", r, None)>>, next)
    BY <1>1, <2>1, PlainFile, PlainKinds DEF Plain
  <2> QED BY <1>9, <2>2, PlainBegin DEF CompareLedger
<1>10. CASE RenderOrCheck(p, r) \/ Close(p, r)
  <2>1. <<>> \in Seq(File) /\ SetOf(<<>>) = {}
    BY DEF SetOf
  <2> QED BY <1>10, <2>1, MoveReports DEF RenderOrCheck, Close, Handler, NextStage
<1>11. CASE Save(p, r)
  BY <1>11, SaveReports
<1> QED BY <1>2, <1>3, <1>4, <1>5, <1>6, <1>7, <1>8, <1>9, <1>10, <1>11 DEF AdvanceStep

\* The store's steps: files are only added, but by a kill, and what a kill cuts
\* belongs to a run that is not saved and that nobody else is writing.
LEMMA StoreReports ==
  ASSUME IInv, ReportInv, NEW p \in Proc, StoreStep(p)
  PROVE  ReportInv'
<1>1. CASE Write(p)
  <2> DEFINE f == Head(job[p].todo)
  <2>1. Computed(p) /\ job[p].todo # <<>>
    BY <1>1 DEF Write, IInv, CommandInv
  <2>2. /\ job'[p].run = job[p].run /\ job'[p].next = job[p].next
        /\ job'[p].todo = Tail(job[p].todo)
    BY <1>1 DEF Write, IInv, Shape
  <2>3. SetOf(job[p].todo) \subseteq {f} \union SetOf(job'[p].todo)
    BY <2>1, <2>2, HeadAndTail DEF Computed
  <2>4. SetOf(job'[p].todo) \subseteq SetOf(job[p].todo)
    BY <2>1, <2>2, TailIsPart DEF Computed
  <2>5. whole' = whole \union {f} /\ head' = head /\ at' = at
        /\ \A q \in Proc \ {p} : job'[q] = job[q]
    BY <1>1 DEF Write, IInv, Shape
  <2>6. ReportJob(p)'
    <3>1. ReportJob(p)
      BY <1>1 DEF Write, ReportInv
    <3>2. OwnReports(p)'
      BY <2>2, <2>4, <2>5, <3>1 DEF ReportJob, OwnReports
    <3> QED BY <2>2, <2>3, <2>5, <3>1, <3>2 DEF ReportJob, WholeReport
  <2>7. \A q \in Proc \ {p} : at'[q] \in {"writing", "replacing"} => ReportJob(q)'
    BY <2>5 DEF ReportInv, ReportJob, OwnReports, WholeReport
  <2> QED BY <2>5, <2>6, <2>7 DEF ReportInv, WholeReport
<1>2. CASE CompareHead(p)
  BY <1>2 DEF CompareHead, ReportInv, ReportJob, OwnReports, IInv, Shape
<1>3. CASE ReplaceHead(p)
  <2>1. job[p].run \in Run /\ job[p].todo = <<>> /\ ReportJob(p)
    BY <1>3 DEF ReplaceHead, IInv, CommandInv, Mine, ReportInv
  <2>2. SetOf(job[p].todo) = {}
    BY <2>1 DEF SetOf
  <2>3. /\ head'[job[p].run] = job[p].next
        /\ \A r \in Run \ {job[p].run} : head'[r] = head[r]
        /\ whole' = whole /\ job' = job /\ at'[p] = "answering"
        /\ \A q \in Proc \ {p} : at'[q] = at[q]
    BY <1>3, <2>1 DEF ReplaceHead, IInv, HeadsSound, Shape
  <2>4. ASSUME NEW q \in Proc, at'[q] \in {"writing", "replacing"} PROVE ReportJob(q)'
    <3>1. q # p /\ at[q] # "idle"
      BY <2>3, <2>4
    <3>2. job[q].run \in Run /\ job[q].run # job[p].run
      BY <1>3, <3>1, Alone DEF ReplaceHead, IInv, CommandInv, Mine
    <3> QED BY <2>3, <2>4, <3>1, <3>2 DEF ReportInv, ReportJob, OwnReports
  <2> QED BY <2>1, <2>2, <2>3, <2>4 DEF ReportInv, ReportJob, WholeReport
<1>4. CASE AnswerCaller(p)
  BY <1>4 DEF AnswerCaller, ReportInv, ReportJob, OwnReports, IInv, Shape
<1>5. CASE Kill(p)
  <2>1. head' = head /\ at'[p] = "idle"
        /\ \A q \in Proc \ {p} : at'[q] = at[q] /\ job'[q] = job[q]
    BY <1>5 DEF Kill, IInv, Shape
  <2>2. CASE whole' = whole
    BY <2>1, <2>2 DEF ReportInv, ReportJob, OwnReports, WholeReport
  <2>3. CASE /\ at[p] = "writing" /\ job[p].todo # <<>>
             /\ whole' = whole \ {Head(job[p].todo)}
    <3> DEFINE f == Head(job[p].todo)
    <3>1. f \in SetOf(job[p].todo)
      <4>1. job[p].todo \in Seq(File)
        BY <2>3 DEF IInv, CommandInv, Computed
      <4>2. 1 \in DOMAIN job[p].todo /\ f = job[p].todo[1]
        BY <2>3, <4>1
      <4> QED BY <4>2 DEF SetOf
    <3>2. f[1] \in ReportParts => f[2] = job[p].run /\ head[job[p].run].stage = "checked"
      BY <2>3, <3>1 DEF ReportInv, ReportJob, OwnReports
    <3>3. ASSUME NEW r \in Run, head[r].stage \in Filed PROVE WholeReport(head[r], r, whole')
      BY <2>3, <3>2, <3>3 DEF ReportInv, WholeReport, ReportFile, Filed
    <3>4. ASSUME NEW q \in Proc, at'[q] \in {"writing", "replacing"} PROVE ReportJob(q)'
      <4>1. q # p
        BY <2>1, <3>4
      <4>2. job[q].run # job[p].run
        BY <2>1, <2>3, <3>4, <4>1, Alone
      <4>3. ReportJob(q)
        BY <2>1, <3>4, <4>1 DEF ReportInv
      <4>4. \A part \in ReportParts : ReportFile(job[q].run, job[q].next.report, part) # f
        BY <3>2, <4>2 DEF ReportFile
      <4> QED BY <2>1, <2>3, <4>1, <4>3, <4>4 DEF ReportJob, OwnReports, WholeReport
    <3> QED BY <2>1, <3>3, <3>4 DEF ReportInv
  <2> QED BY <1>5, <2>2, <2>3 DEF Kill
<1> QED BY <1>1, <1>2, <1>3, <1>4, <1>5 DEF StoreStep

LEMMA StepKeepsReports ==
  ASSUME IInv, ReportInv, [Next]_vars
  PROVE  ReportInv'
<1>1. CASE UNCHANGED vars
  BY <1>1 DEF vars, ReportInv, ReportJob, OwnReports
<1> QED BY <1>1, PersonReports, HostReports, AdvanceReports, StoreReports DEF Next

\* A run is saved, or closed, only with a report whose three files are complete
\* on disk: they precede the head that names them, and no later kill cuts them.
THEOREM SavedReportsAreWhole == Spec => []SavedReportIsWhole
<1>1. Init => ReportInv
  BY DEF Init, ReportInv, Unknown, Filed
<1>2. ReportInv /\ IInv /\ [Next]_vars => ReportInv'
  BY StepKeepsReports
<1>3. ReportInv => SavedReportIsWhole
  BY DEF ReportInv, SavedReportIsWhole, Filed, WholeReport
<1> QED BY <1>1, <1>2, <1>3, Inductive, PTL DEF Spec
=============================================================================
