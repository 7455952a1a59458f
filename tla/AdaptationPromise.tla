-------------------------- MODULE AdaptationPromise --------------------------
(***************************************************************************)
(* What the adaptation engine promises the owner of the machine, with no   *)
(* journal, receipt, approval or crash in sight: a target file appears     *)
(* only for an approved change, grows only by that change's own bytes out  *)
(* of an absent target, is removed only while it still holds exactly those *)
(* bytes, and a change that was reversed or kept never writes again.       *)
(* AdaptationTransaction is shown to implement this module.                *)
(***************************************************************************)

EXTENDS TargetFile

VARIABLES
  file,   \* what each target path holds
  phase   \* how far each change has come, as its owner sees it

promiseVars == <<file, phase>>

Phase == {"unapproved", "live", "kept", "reversed"}

TargetHolds(t) == file[TargetOf[t]]

PromiseTypeOK == /\ file \in [Path -> Content]
                 /\ phase \in [Transaction -> Phase]

PromiseInit == /\ file = [p \in Path |-> Absent]
               /\ phase = [t \in Transaction |-> "unapproved"]

Approve(t) ==
  /\ phase[t] = "unapproved"
  /\ phase' = [phase EXCEPT ![t] = "live"]
  /\ UNCHANGED file

\* Only a live change writes, and it writes its own bytes in order.
Write(t) ==
  /\ phase[t] = "live"
  /\ \E growth \in {<<Absent, Empty>>, <<Empty, Half(BodyOf[t])>>,
                   <<Half(BodyOf[t]), Full(BodyOf[t])>>} :
       /\ TargetHolds(t) = growth[1]
       /\ file' = [file EXCEPT ![TargetOf[t]] = growth[2]]
  /\ UNCHANGED phase

\* A live change may drop its own torn write; an approved one may take its
\* complete bytes back.
Remove(t) ==
  /\ \/ phase[t] = "live" /\ TargetHolds(t) = Half(BodyOf[t])
     \/ phase[t] # "unapproved" /\ TargetHolds(t) = Full(BodyOf[t])
  /\ file' = [file EXCEPT ![TargetOf[t]] = Absent]
  /\ UNCHANGED phase

Keep(t) ==
  /\ phase[t] = "live"
  /\ phase' = [phase EXCEPT ![t] = "kept"]
  /\ UNCHANGED file

\* A reversal is claimed only when the target is the owner's again.
Reverse(t) ==
  /\ phase[t] \in {"live", "kept"}
  /\ TargetHolds(t) \in OwnerContent
  /\ phase' = [phase EXCEPT ![t] = "reversed"]
  /\ UNCHANGED file

\* The owner replaces or deletes the file at any time.
OwnerEdits(p) ==
  /\ \E c \in OwnerContent : file' = [file EXCEPT ![p] = c]
  /\ UNCHANGED phase

PromiseNext ==
  \/ \E t \in Transaction : \/ Approve(t) \/ Write(t) \/ Remove(t)
                            \/ Keep(t) \/ Reverse(t)
  \/ \E p \in Path : OwnerEdits(p)

PromiseSpec == PromiseInit /\ [][PromiseNext]_promiseVars
=============================================================================
