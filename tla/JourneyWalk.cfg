SPECIFICATION FairSpec
CONSTANTS
    j1 = j1
    j2 = j2
    v1 = v1
    v2 = v2
    NoJob = NoJob
    NoVersion = NoVersion
    Job <- MCJob
    Version <- MCVersion
    Envelopes <- MCEnvelopes
    Fallbacks <- MCFallbacks
    Claims <- MCClaims
    ProposedFrom <- MCProposedFrom
    Eligible <- MCEligible
    ClaimLimit = 2
    AdaptCapable = TRUE
    HasOutcomeProcedure = TRUE
    CanFail = {"save", "unlink", "receipt", "undo"}
CHECK_DEADLOCK FALSE
INVARIANT ConfirmedLeavesNoDraft
PROPERTIES OneChangeAtATime EverySessionEnds
