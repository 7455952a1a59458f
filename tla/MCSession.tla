------------------------------- MODULE MCSession -------------------------------
(* Instances of CollectionSession: the owner approves in one request, and     *)
(* another approves again, works under the lock or closes meanwhile.          *)
EXTENDS CollectionSession

CONSTANTS r1, r2

TwoRequests == {r1, r2}
================================================================================
