\* One worker process that crashes and restarts, no deletions, fair scheduling.
CONSTANTS
    Versions = {v1, v2}
    Documents = {d1}
    DocumentOf <- OneDocument
    Chunks = {c1, c2}
    NoVersion = NoVersion
    Keys = {}
    NoKey = NoKey
    MaxAttempts = 3
    StaleAfter = 1
    MaxBackoff = 1
    Pollers = {w1}
    Tasks = {}
    Deleters = {}
    FailingCalls <- AllCalls
    MaxCrashes = 2
SPECIFICATION FairSpec
INVARIANTS
    ActiveServable
PROPERTIES
    ServesWholeVersions
    JobsAreWorkedOff
