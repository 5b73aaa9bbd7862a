\* Searches beside one worker process that crashes and restarts.
CONSTANTS
    Versions = {v1, v2}
    Documents = {d1}
    DocumentOf <- OneDocument
    Chunks = {c1, c2}
    NoVersion = NoVersion
    Keys = {}
    NoKey = NoKey
    MaxAttempts = 2
    StaleAfter = 1
    MaxBackoff = 1
    Pollers = {w1}
    Tasks = {}
    Deleters = {}
    FailingCalls <- PublishingCalls
    MaxCrashes = 1
    Searchers = {s1}
SPECIFICATION SearchSpec
SYMMETRY Symmetry
INVARIANTS
    OneVersionPerDocument
    QuietSearchIsComplete
