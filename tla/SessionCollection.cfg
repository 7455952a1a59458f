\* Two requests, the timer, the collection and its worker.
SPECIFICATION FairSpec
CONSTANTS
    r1 = r1  r2 = r2
    Request <- TwoRequests
    Timer = timer
    Collection = collection
    Free = free
CHECK_DEADLOCK FALSE
INVARIANTS ClosedLeavesNothing PublishedIsWhole
PROPERTIES CollectionSettles StopSettles
