----------------------- MODULE ContainedInspection -----------------------
(***************************************************************************)
(* One inspection of the approved folders while their owner keeps working   *)
(* in them (adapters/claude_code/{containment,contained,allowlist,snapshot, *)
(* collector}.py).                                                          *)
(*                                                                         *)
(* Two callers take the same capture.  The browser session launches a child *)
(* process that confines itself, proves it, surveys, captures, rechecks and *)
(* prints one result, while its parent waits for it, for a cancellation or  *)
(* for a deadline.  A diagnosis captures in its own process, without a      *)
(* recheck and without a deadline, and derives a fingerprint.               *)
(*                                                                         *)
(* Files and directories are numbered in the order of the walk.  A file is  *)
(* a node [shape, size, body, stamp]; stamp is its modification time, which *)
(* every write moves and a rename or a link need not.  A named pipe stands  *)
(* for every special file: opening one blocks.                             *)
(***************************************************************************)
EXTENDS Discovery, Sequences

CONSTANTS
  Files, Dirs,       \* 1..n
  DirOf,             \* [Files -> Dirs]
  RoleOf,            \* [Files -> {"skills", "instructions", "settings", "other"}]
  Pruned,            \* SUBSET Dirs: ignored names and vendored subtrees
  Denied,            \* SUBSET Files: denied paths
  LinkTo,            \* [Files -> Files]: where an in-scope link leads
  FirstNodes,        \* [Files -> SUBSET Nodes]: what a file may be at first
  DirStates,         \* [Dirs -> SUBSET {"listable", "unlistable", "mounted"}]
  Replacements,      \* shapes the owner may put in a file's place
  Bodies, Sizes,     \* what the owner may write in a file
  MaxFileCount, MaxFileBytes, MaxTotalBytes,
  Live,              \* sets of job names the operating system may report
  MaxEdits,          \* bound on the owner's changes (model only)
  Callers,           \* SUBSET {"browser", "diagnosis"}
  Unavailable, Failed,   \* answers without evidence
  None

Roles == {"skills", "instructions", "settings"}
Torn == "torn"      \* bytes that were never the content of the file
Shapes == {"file", "gone", "alias", "dangling", "loop", "escape", "hard", "special"}
Nodes == [shape : Shapes, size : Nat, body : Bodies, stamp : 0 .. MaxEdits]
Entry == [body : Bodies \cup {Torn}, stamp : 0 .. MaxEdits, size : Nat]

ASSUME FoldersAreShaped ==
  /\ Files \subseteq Nat /\ IsFiniteSet(Files) /\ Dirs \subseteq Nat
  /\ DirOf \in [Files -> Dirs] /\ LinkTo \in [Files -> Files]
  /\ RoleOf \in [Files -> Roles \cup {"other"}]
  /\ Replacements \subseteq Shapes /\ Sizes \subseteq Nat /\ MaxEdits \in Nat
  /\ \A f \in Files : \A n \in FirstNodes[f] : n \in Nodes /\ n.stamp = 0
  /\ None \notin Files \cup Entry

VARIABLES
  disk,       \* [Files -> node]
  dirs,       \* [Dirs -> state]
  edits,      \* owner's changes so far
  sandbox,    \* does the operating system really deny writes, exec and network?
  caller, consented,
  proofs,     \* has the child proved its confinement?
  pc,         \* where the capturing process is
  walk, listed,                \* directories to walk, names to decide
  queue,      \* [{"first", "rest"} -> files to read, in the order of the survey]
  entries,    \* [Files -> None or [body, stamp, size]]
  unread, excluded, complete, total,
  held,       \* the file that is open, None between reads
  checked, changed,            \* integrity recheck
  result,                      \* what the caller is answered
  opened,     \* observer: files opened so far
  edited,     \* observer: files changed since the inspection began
  touched     \* observer: files written since they were opened

owner == <<disk, edits, edited, touched>>
survey == <<walk, listed, queue, excluded>>
capture == <<entries, unread, complete, total, held, opened>>
given == <<dirs, sandbox, caller, consented>>
inspectionVars == <<owner, survey, capture, result, given, proofs, pc, checked, changed>>

Least(S) == CHOOSE x \in S : \A y \in S : x <= y
IsLink(shape) == shape \in {"alias", "dangling", "loop", "escape"}

InspectionInit ==
  /\ disk \in [Files -> UNION {FirstNodes[f] : f \in Files}] /\ \A f \in Files : disk[f] \in FirstNodes[f]
  /\ dirs \in [Dirs -> UNION {DirStates[d] : d \in Dirs}] /\ \A d \in Dirs : dirs[d] \in DirStates[d]
  /\ caller \in Callers /\ sandbox \in BOOLEAN /\ consented \in BOOLEAN
  /\ (caller = "browser" => ~consented) /\ (caller = "diagnosis" => ~sandbox)
  /\ edits = 0 /\ proofs = FALSE /\ pc = "idle"
  /\ walk = {} /\ listed = {} /\ queue = [k \in {"first", "rest"} |-> <<>>] /\ excluded = {}
  /\ entries = [f \in Files |-> None] /\ unread = {} /\ complete = TRUE /\ total = 0 /\ held = None
  /\ checked = {} /\ changed = {}
  /\ result = None
  /\ opened = {} /\ edited = {} /\ touched = {}

---------------------------------------------------------------------------
(* The child up to its first look at the folders.                          *)

Launch ==
  /\ caller = "browser" /\ pc = "idle" /\ result = None
  /\ pc' = "started"
  /\ UNCHANGED <<owner, survey, capture, result, given, proofs, checked, changed>>

(* The host has no enforcing strategy, or the process cannot be started.   *)
NoContainment ==
  /\ caller = "browser" /\ pc = "idle" /\ result = None
  /\ result' = Unavailable /\ pc' = "gone"
  /\ UNCHANGED <<owner, survey, capture, given, proofs, checked, changed>>

Confine ==
  /\ pc = "started" /\ pc' \in {"confined", "refused"}
  /\ UNCHANGED <<owner, survey, capture, result, given, proofs, checked, changed>>

(* Three probes try what must be denied.  A probe that succeeds, or fails   *)
(* in a way that is no denial, leaves the confinement unproven.            *)
ProbesHold == sandbox

Prove ==
  /\ pc = "confined"
  /\ \/ ProbesHold /\ proofs' = TRUE /\ pc' = "surveying" /\ walk' = Dirs
     \/ proofs' = FALSE /\ pc' = "refused" /\ walk' = walk
  /\ UNCHANGED <<owner, listed, queue, excluded, capture, result, given, checked, changed>>

(* A diagnosis captures once its approval, the receipt and the identity of  *)
(* the folders agree; otherwise it answers an error.                       *)
CollectForDiagnosis ==
  /\ caller = "diagnosis" /\ pc = "idle"
  /\ \/ pc' = "surveying" /\ walk' = Dirs /\ result' = result
     \/ pc' = "gone" /\ result' = Failed /\ walk' = walk
  /\ UNCHANGED <<owner, listed, queue, excluded, capture, given, proofs, checked, changed>>

---------------------------------------------------------------------------
(* Survey: every path is decided before anything is read.                  *)

Abort == pc' = IF caller = "browser" THEN "aborted" ELSE "gone"

(* One directory is listed, or excluded as a whole.                        *)
ListDirectory ==
  /\ pc = "surveying" /\ listed = {} /\ walk # {}
  /\ LET d == Least(walk) IN
     /\ walk' = walk \ {d}
     /\ IF d \in Pruned \/ dirs[d] # "listable"
          THEN /\ excluded' = excluded \cup {<<"directory", d>>} /\ UNCHANGED listed
          ELSE /\ listed' = {f \in Files : DirOf[f] = d /\ disk[f].shape # "gone"} /\ UNCHANGED excluded
  /\ UNCHANGED <<owner, queue, capture, result, given, proofs, pc, checked, changed>>

(* The decision on a path that leads to itself.                            *)
AdmitsNode(f) ==
  /\ f \notin Denied
  /\ dirs[DirOf[f]] # "mounted"
  /\ disk[f].shape = "file"

(* evaluate: the file a name is admitted as, or None.                      *)
Admitted(f) ==
  CASE disk[f].shape = "alias" /\ f \notin Denied /\ AdmitsNode(LinkTo[f]) -> LinkTo[f]
    [] disk[f].shape = "file" /\ AdmitsNode(f) -> f
    [] OTHER -> None

(* Files the probes ask for are captured before the bounds can bite; a      *)
(* stable sort on this priority is what the queue amounts to.               *)
Priority(f) == IF RoleOf[f] # "other" THEN "first" ELSE "rest"

Evaluate ==
  /\ pc = "surveying" /\ listed # {}
  /\ LET f == Least(listed) IN
     /\ listed' = listed \ {f}
     /\ IF Admitted(f) # None
          THEN queue' = [queue EXCEPT ![Priority(Admitted(f))] = Append(@, Admitted(f))] /\ UNCHANGED excluded
          ELSE excluded' = excluded \cup {<<"file", f>>} /\ UNCHANGED queue
  /\ UNCHANGED <<owner, walk, capture, result, given, proofs, pc, checked, changed>>

(* The file moved between its resolution and its stat: ambiguous, and the   *)
(* whole inspection is given up.                                           *)
EvaluateRaced ==
  /\ pc = "surveying" /\ listed # {} /\ edits < MaxEdits
  /\ LET f == Least(listed) IN
     /\ disk' = [disk EXCEPT ![f].shape = "gone"]
     /\ edited' = edited \cup {f}
  /\ edits' = edits + 1 /\ Abort /\ UNCHANGED touched
  /\ result' = IF caller = "diagnosis" THEN Failed ELSE result
  /\ UNCHANGED <<survey, capture, given, proofs, checked, changed>>

SurveyDone ==
  /\ pc = "surveying" /\ walk = {} /\ listed = {}
  /\ pc' = "capturing"
  /\ UNCHANGED <<owner, survey, capture, result, given, proofs, checked, changed>>

---------------------------------------------------------------------------
(* Capture: each admitted file is opened, measured and read once.          *)

Captured == {f \in Files : entries[f] # None}

DiagnosticFirst == IF queue["first"] # <<>> THEN "first" ELSE "rest"
NextUp == Head(queue[DiagnosticFirst])
Dequeue == queue' = [queue EXCEPT ![DiagnosticFirst] = Tail(@)]
AllRead == queue[DiagnosticFirst] = <<>>

\* Mutant of NotRead: only the bounds count as unread.
NotReadQuietly(f, reason) ==
  /\ unread' = unread \cup {<<f, reason>>}
  /\ complete' = (complete /\ reason \notin {"file-count-bound-reached", "total-bytes-bound-reached"})
  /\ Dequeue /\ held' = None

(* An admitted file that was not read makes the capture incomplete.        *)
NotRead(f, reason) ==
  /\ unread' = unread \cup {<<f, reason>>} /\ complete' = FALSE
  /\ Dequeue /\ held' = None

NextFile == pc = "capturing" /\ held = None /\ ~AllRead

SkipCaptured ==
  /\ NextFile /\ NextUp \in Captured
  /\ Dequeue
  /\ UNCHANGED <<owner, walk, listed, excluded, capture, result, given, proofs, pc, checked, changed>>

(* The reasons to leave a file unread that show when it is opened.         *)
Refusal(f) ==
  LET n == disk[f] IN
  IF Cardinality(Captured) >= MaxFileCount THEN "file-count-bound-reached"
  ELSE IF n.shape = "gone" \/ IsLink(n.shape) THEN "read-error"
  ELSE IF n.shape = "hard" THEN "changed-between-approval-and-read"
  ELSE IF n.size > MaxFileBytes THEN "read-bound-exceeded"
  ELSE IF total + n.size > MaxTotalBytes THEN "total-bytes-bound-reached"
  ELSE None

(* Opening a pipe blocks: no step is enabled and the process hangs here.   *)
Blocks(f) == Cardinality(Captured) < MaxFileCount /\ disk[f].shape = "special"

LeaveUnread ==
  /\ NextFile
  /\ LET f == NextUp IN
     /\ f \notin Captured /\ ~Blocks(f) /\ Refusal(f) # None
     /\ NotRead(f, Refusal(f))
  /\ UNCHANGED <<owner, walk, listed, excluded, entries, total, opened, result, given, proofs, pc, checked, changed>>

Open ==
  /\ NextFile
  /\ LET f == NextUp IN
     /\ f \notin Captured /\ ~Blocks(f) /\ Refusal(f) = None
     /\ held' = [file |-> f, stamp |-> disk[f].stamp, body |-> disk[f].body, size |-> disk[f].size, linked |-> TRUE, mixed |-> FALSE]
     /\ opened' = opened \cup {f} /\ touched' = touched \ {f}
  /\ UNCHANGED <<disk, edits, edited, survey, entries, unread, complete, total, result, given, proofs, pc, checked, changed>>

(* The bytes are read in pieces: a write in between may leave a mixture.   *)
Read ==
  /\ pc = "capturing" /\ held # None
  /\ LET f == held.file IN
     \/ /\ held.size > MaxFileBytes /\ NotRead(f, "read-bound-exceeded") /\ UNCHANGED <<entries, total>>
     \/ NotRead(f, "read-error") /\ UNCHANGED <<entries, total>>
     \/ /\ held.size <= MaxFileBytes
        /\ \E b \in {held.body} \cup (IF held.mixed THEN {Torn} ELSE {}) :
             entries' = [entries EXCEPT ![f] = [body |-> b, stamp |-> held.stamp, size |-> held.size]]
        /\ total' = total + held.size /\ Dequeue /\ held' = None /\ UNCHANGED <<unread, complete>>
  /\ UNCHANGED <<owner, walk, listed, excluded, opened, result, given, proofs, pc, checked, changed>>

(* The browser's child goes on to the recheck.  A diagnosis is done: the    *)
(* fingerprint is derived from what was captured and what the operating     *)
(* system reports of scheduled jobs.                                       *)
CaptureDone ==
  /\ pc = "capturing" /\ held = None /\ AllRead
  /\ \/ caller = "browser" /\ pc' = "rechecking" /\ result' = result
     \/ /\ caller = "diagnosis" /\ pc' = "gone"
        /\ \E live \in Live :
             result' = [of |-> "fingerprint", live |-> live, print |->
               Fingerprint({[file |-> f, body |-> entries[f].body] : f \in Captured}, complete, live, consented)]
  /\ UNCHANGED <<owner, survey, capture, given, proofs, checked, changed>>

---------------------------------------------------------------------------
(* Recheck: every captured file is read again and compared by digest and    *)
(* by modification time.                                                   *)

\* Mutant of Same: a change back to the same bytes is none.
SameDigest(entry, n) == n.body = entry.body
Same(entry, n) == n.body = entry.body /\ n.stamp = entry.stamp

Recheck ==
  /\ pc = "rechecking" /\ Captured \ checked # {}
  /\ LET f == Least(Captured \ checked)  n == disk[f] IN
     /\ n.shape # "special"
     /\ checked' = checked \cup {f}
     /\ IF IsLink(n.shape) THEN Abort /\ UNCHANGED changed
        ELSE /\ changed' = (IF n.shape # "gone" /\ Same(entries[f], n) THEN changed ELSE changed \cup {f})
             /\ UNCHANGED pc
  /\ UNCHANGED <<owner, survey, capture, result, given, proofs>>

FoundAs(k) == {f \in Captured : RoleOf[f] = k}

Report ==
  /\ pc = "rechecking" /\ Captured \subseteq checked
  /\ pc' = "printed"
  /\ UNCHANGED <<owner, survey, capture, result, given, proofs, checked, changed>>

(* The printed envelope.                                                   *)
Envelope ==
  [of |-> "probes",
   probes |-> [k \in Roles |-> Presence(FoundAs(k), complete, changed)],
   shape |-> InstallationShape(FoundAs("settings") \cup FoundAs("skills") # {}, FoundAs("instructions") # {}),
   healthy |-> complete]

---------------------------------------------------------------------------
(* The parent waits for the child, the browser's cancellation or a deadline. *)

Exited == pc \in {"refused", "aborted", "printed"}
Running == caller = "browser" /\ pc \notin {"idle", "gone"} /\ ~Exited

\* Mutant of Kill: the output is read to its end before the deadline is looked at.
KillOnceReadable ==
  /\ caller = "browser" /\ Exited /\ result = None
  /\ pc' = "gone" /\ result' = Failed
  /\ UNCHANGED <<owner, survey, capture, given, proofs, checked, changed>>

(* Killed on the browser's cancellation, or once the deadline has passed;   *)
(* either may come at any time, ends the reads at once, and nothing the     *)
(* child captured survives it.                                             *)
Kill ==
  /\ Running /\ result = None
  /\ pc' = "gone" /\ result' = Failed
  /\ UNCHANGED <<owner, survey, capture, given, proofs, checked, changed>>

(* An exit found before the next poll is taken, cancellation or not.       *)
Collect ==
  /\ caller = "browser" /\ Exited /\ result = None
  /\ result' = CASE pc = "refused" -> Unavailable [] pc = "aborted" -> Failed [] pc = "printed" -> Envelope
  /\ pc' = "gone"
  /\ UNCHANGED <<owner, survey, capture, given, proofs, checked, changed>>

---------------------------------------------------------------------------
(* The owner.                                                              *)

Changes(f) ==
  /\ result = None /\ pc # "idle" /\ edits < MaxEdits /\ edits' = edits + 1
  /\ edited' = edited \cup {f}
  /\ UNCHANGED <<survey, entries, unread, complete, total, opened, result, given, proofs, pc, checked, changed>>

(* A write in place reaches a reader that has the file open.               *)
Write(f) ==
  /\ disk[f].shape = "file"
  /\ \E b \in Bodies, s \in Sizes :
       /\ disk' = [disk EXCEPT ![f].body = b, ![f].size = s, ![f].stamp = @ + 1]
       /\ held' = IF held # None /\ held.file = f /\ held.linked
                    THEN [held EXCEPT !.body = b, !.size = s, !.mixed = TRUE] ELSE held
  /\ touched' = touched \cup {f} /\ Changes(f)

(* The name comes to stand for something else, or for what it stood for     *)
(* before.  A file that is moved away and back, or linked twice for a        *)
(* while, keeps its modification time; what is put in its place may have a   *)
(* later one.                                                              *)
Replace(f, shape) ==
  /\ disk[f].shape # shape
  /\ \E later \in {0, 1} : disk' = [disk EXCEPT ![f].shape = shape, ![f].stamp = @ + later]
  /\ held' = IF held # None /\ held.file = f THEN [held EXCEPT !.linked = FALSE] ELSE held
  /\ UNCHANGED touched /\ Changes(f)

InspectionNext ==
  \/ Launch \/ NoContainment \/ Confine \/ Prove \/ CollectForDiagnosis
  \/ ListDirectory \/ Evaluate \/ EvaluateRaced \/ SurveyDone
  \/ SkipCaptured \/ LeaveUnread \/ Open \/ Read \/ CaptureDone
  \/ Recheck \/ Report
  \/ Kill \/ Collect
  \/ \E f \in Files : Write(f) \/ \E s \in Replacements : Replace(f, s)

(* The parent's loop polls twenty times a second and has a deadline.  The    *)
(* child is not assumed to make progress: it may be blocked on a pipe.      *)
InspectionSpec == InspectionInit /\ [][InspectionNext]_inspectionVars /\ WF_inspectionVars(Kill) /\ WF_inspectionVars(Collect)

---------------------------------------------------------------------------
(* Properties.                                                             *)

Published == result # None /\ result \notin {Unavailable, Failed}
Probes == Published /\ result.of = "probes"

InspectionTypeOK ==
  /\ pc \in {"idle", "started", "confined", "refused", "surveying", "capturing", "rechecking", "aborted", "printed", "gone"}
  /\ disk \in [Files -> Nodes] /\ edits \in 0 .. MaxEdits
  /\ walk \subseteq Dirs /\ listed \subseteq Files /\ queue \in [{"first", "rest"} -> Seq(Files)]
  /\ held \in {None} \cup [file : Files, stamp : 0 .. MaxEdits, body : Bodies, size : Nat,
                          linked : BOOLEAN, mixed : BOOLEAN]
  /\ entries \in [Files -> {None} \cup Entry] /\ total \in Nat
  /\ proofs \in BOOLEAN /\ complete \in BOOLEAN
  /\ checked \cup changed \cup opened \cup edited \cup touched \subseteq Files

(* A file that lay open to the survey all along, as an ordinary file in a   *)
(* folder that could be listed, is never published as absent: whatever kept *)
(* it from being read (a bound, an error, growth while it was read) turns   *)
(* the answer into "could not check".                                      *)
PlainAllAlong(f) ==
  /\ disk[f].shape = "file" /\ f \notin edited /\ f \notin Denied
  /\ DirOf[f] \notin Pruned /\ dirs[DirOf[f]] = "listable"

AbsentWasLookedFor ==
  Probes => \A f \in Files : (RoleOf[f] \in Roles /\ PlainAllAlong(f)) => result.probes[RoleOf[f]].state # "absent"

(* What is published as observed was not written between the moment it was  *)
(* opened and the moment it was compared again, not even with other bytes   *)
(* and then its own, and not even if it was moved away and back meanwhile.   *)
(* It rests on every write moving the modification time.                   *)
ObservedIsStable ==
  [][\A f \in Files : (pc = "rechecking" /\ f \in checked' \ checked /\ f \in touched) => f \in changed' \/ pc' = "aborted"]_inspectionVars

(* A job is called loaded only if its receipt allows live state, and only   *)
(* where the captured files of one approved source declare it, which is no  *)
(* working copy.                                                           *)
LoadedIsAttributable ==
  (Published /\ result.of = "fingerprint") =>
    \A o \in result.print.observations : o.runtime = "loaded" =>
      /\ consented /\ SourceClass[o.source] # "working-copy"
      /\ \A f \in Captured : \A x \in Facts([file |-> f, body |-> entries[f].body], "automation") :
           Slug[x.name] = o.id => Source[f] = o.source

(* Every inspection the browser launched is answered, even when the child   *)
(* blocks for ever on a file that became a pipe.                           *)
EveryInspectionAnswers == (caller = "browser" /\ pc = "started") ~> (result # None)

===========================================================================
