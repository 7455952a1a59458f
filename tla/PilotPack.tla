------------------------------ MODULE PilotPack ------------------------------
(***************************************************************************)
(* The pack of evidence that closes a pilot (pilot/completeness.py): files  *)
(* on disk, the manifest that names them with their hashes, the sign-off of *)
(* an independent reviewer, and the verdict of the verifier, which trusts   *)
(* nothing but the files, the hashes and the signature.  The artifacts the  *)
(* pilot itself produces are told apart; Runbook stands for all the others. *)
(* Files and manifest may be changed at any time, by anybody.               *)
(***************************************************************************)
EXTENDS Pilot

CONSTANT MaxEdits

VARIABLES
  disk,      \* NoFiles, or the files: [protocol, plan, evidence, runbook]
  edits,     \* how often a file was changed by hand
  manifest,  \* None, or [files, shows]: what it shows besides the hashes
  signoff,   \* None, or [manifest, evidence, trusted, seen]
  complete   \* the last verdict

pack == <<disk, edits, manifest, signoff, complete>>
packVars == <<vars, pack>>

Files == {"protocol", "plan", "evidence", "runbook"}
NoFiles == <<>>
Shows == {"observed", "drilled", "owned"}

(* What is written when the pilot has been analysed.                        *)
Written(p) ==
  [protocol |-> [rev |-> 0, body |-> gate],
   plan     |-> [rev |-> 0, body |-> plan[p].threshold],
   evidence |-> [rev |-> 0, body |-> [protocol |-> gate, plan |-> plan[p].threshold,
                                      cohort |-> [q \in report.roster |-> records[q]]]],
   runbook  |-> [rev |-> 0, body |-> None]]

PackInit ==
  /\ Init
  /\ disk = NoFiles /\ edits = 0 /\ manifest = None /\ signoff = None /\ complete = FALSE

WriteFiles(p) ==
  /\ report # None /\ disk = NoFiles /\ p \in report.roster
  /\ disk' = Written(p)
  /\ UNCHANGED <<vars, edits, manifest, signoff, complete>>

EditFile(f) ==
  /\ disk # NoFiles /\ edits < MaxEdits
  /\ disk' = [disk EXCEPT ![f].rev = @ + 1] /\ edits' = edits + 1
  /\ UNCHANGED <<vars, manifest, signoff, complete>>

(* The manifest is written, or written anew, from what is on disk.          *)
WriteManifest(shows) ==
  /\ disk # NoFiles
  /\ manifest' = [files |-> disk, shows |-> shows]
  /\ UNCHANGED <<vars, disk, edits, signoff, complete>>

(* The reviewer signs the hash of the manifest and that of the evidence file, *)
(* having seen the files as they are.                                       *)
SignOff(trusted) ==
  /\ manifest # None
  /\ signoff' = [manifest |-> manifest, evidence |-> manifest.files.evidence,
                 trusted |-> trusted, seen |-> disk]
  /\ UNCHANGED <<vars, disk, edits, manifest, complete>>

---------------------------------------------------------------------------
Verified == {f \in Files : disk[f] = manifest.files[f]}

(* The evidence belongs to this pack: its cohort fills the quotas and every   *)
(* member consented to the protocol on disk, which is fit for a pilot; its    *)
(* plan is among the verified files.                                        *)
Bound(e) ==
  /\ CohortComplete(DOMAIN e.cohort)
  /\ \A p \in DOMAIN e.cohort : e.cohort[p] = e.protocol
  /\ "plan" \in Verified /\ disk.plan.body = e.plan
  /\ disk.protocol.body = e.protocol /\ Ready(disk.protocol.body)

Observed ==
  /\ "observed" \in manifest.shows /\ "evidence" \in Verified
  /\ Bound(disk.evidence.body)

SignedOff ==
  /\ signoff # None /\ signoff.trusted
  /\ signoff.manifest = manifest /\ signoff.evidence = manifest.files.evidence

Drilled == "drilled" \in manifest.shows /\ "runbook" \in Verified

\* Mutant of Complete: the manifest's marks are believed, the files not hashed.
CompleteByMarks == Observed /\ SignedOff /\ manifest.shows = Shows

Complete == Verified = Files /\ Observed /\ SignedOff /\ Drilled /\ "owned" \in manifest.shows

VerifyManifest ==
  /\ manifest # None
  /\ complete' = Complete
  /\ UNCHANGED <<vars, disk, edits, manifest, signoff>>

Next ==
  \/ PilotNext /\ UNCHANGED pack
  \/ \E p \in People : WriteFiles(p)
  \/ \E f \in Files : EditFile(f)
  \/ \E shows \in SUBSET Shows : WriteManifest(shows)
  \/ \E trusted \in BOOLEAN : SignOff(trusted)
  \/ VerifyManifest

Spec == PackInit /\ [][Next]_packVars

(* A pack is found complete only when every file in it is, at that moment,    *)
(* the one a trusted reviewer had before them when they signed, its evidence  *)
(* observed, its drills passed and its risks owned.                         *)
CompletePacksWereReviewed ==
  [][complete' /\ ~complete =>
       /\ signoff.trusted /\ signoff.seen = disk
       /\ manifest.shows = Shows]_packVars
===========================================================================
