\* A browser session and commands on one machine, either killed.
SPECIFICATION Spec
CONSTANTS
    MaxVersion = 2
    Catalogue <- TwoVersions
    Browser = browser
    Command = {c1}
    Way <- SomeWays
    Missing = Missing
    Torn = Torn
    MaxKills = 1
INVARIANTS SeenWasShown RevokeHolds CacheMovesForward
