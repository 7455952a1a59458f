------------------------------ MODULE MCModeration ------------------------------
(* Instances of Moderation: one version in two envelopes, as nothing relates  *)
(* two versions; a reviewer who may be the contributor, and someone else.     *)
EXTENDS Moderation

CONSTANTS v1, c1, c2, k1

OneCase == [k \in {k1} |-> v1]

OneVersion == [c \in {c1, c2} |-> v1]

SomeGrants ==
    { Permission,
      Permission \ {"review"}, Permission \ {"storage"},
      Permission \ {"moderation"}, Permission \ {"reuse"} }
================================================================================
