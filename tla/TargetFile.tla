------------------------------ MODULE TargetFile ------------------------------
(***************************************************************************)
(* The previews of an adaptation session and what their target paths can   *)
(* hold: the vocabulary AdaptationPromise and AdaptationTransaction share. *)
(***************************************************************************)

CONSTANTS
  Transaction,  \* exact previews, named by preview_digest[:32]
  Path,         \* target paths inside the approved roots
  Body,         \* exact preview contents
  NoBody,       \* marks a file that carries no preview's bytes
  TargetOf,     \* the target_path of a preview
  BodyOf        \* the content of a preview

ASSUME PreviewAssumption ==
  /\ TargetOf \in [Transaction -> Path]
  /\ BodyOf \in [Transaction -> Body]
  /\ NoBody \notin Body

(***************************************************************************)
(* A crash can leave a proper prefix of a body: "half" is any proper       *)
(* non-empty one.  "foreign" is everything the engine did not write: other *)
(* bytes, a directory, a symbolic link.  The bodies of different previews  *)
(* are taken to differ within their first half.                            *)
(***************************************************************************)
Absent  == [shape |-> "absent",  body |-> NoBody]
Empty   == [shape |-> "empty",   body |-> NoBody]
Foreign == [shape |-> "foreign", body |-> NoBody]
Half(b) == [shape |-> "half",    body |-> b]
Full(b) == [shape |-> "full",    body |-> b]

Content == {Absent, Empty, Foreign}
             \cup {Half(b) : b \in Body} \cup {Full(b) : b \in Body}

\* What the owner can leave behind: nothing, or bytes of their own.
OwnerContent == {Absent, Foreign}
=============================================================================
