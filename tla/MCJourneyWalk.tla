------------------------------ MODULE MCJourneyWalk ------------------------------
(* Two jobs, of which the proposal rules know one; two catalogue versions; the *)
(* inspections and claims of which the assessments differ most.                *)
EXTENDS JourneyWalk, TLC

CONSTANTS j1, j2, v1, v2

S(role, health, state) == [role |-> role, health |-> health, state |-> state, age |-> "fresh"]

MCJob == {j1, j2}
MCVersion == {v1, v2}
MCEnvelopes ==
    {{S("outcome", "healthy", "observed")},
     {S("configuration", "healthy", "observed"), S("outcome", "broken", "observed")},
     {S("outcome", "healthy", "user-reported"), S("boundary", "healthy", "observed")}}
MCFallbacks == {{}, {S("outcome", "healthy", "observed"), S("boundary", "healthy", "inferred")}}
MCClaims == {[role |-> "outcome", level |-> "supported"], [role |-> "outcome", level |-> "verified"],
             [role |-> "boundary", level |-> "reported"]}
MCProposedFrom ==
    [role \in Role |-> IF role = "outcome" THEN {j1} ELSE IF role = "configuration" THEN {j2} ELSE {}]
MCEligible == {j1}
================================================================================
