\* The worker dies once, after the registry switch and before SUCCEEDED.
CONSTANTS
    Versions = {v1, v2}
    Documents = {d1}
    DocumentOf <- OneDocument
    Chunks = {c1}
    NoVersion = NoVersion
    Keys = {}
    NoKey = NoKey
    MaxAttempts = 2
    StaleAfter = 1
    MaxBackoff = 1
    Pollers = {w1}
    Tasks = {}
    Deleters = {}
    FailingCalls = {"prepare"}
    MaxCrashes = 1
SPECIFICATION Spec
INVARIANTS
    FailedJobKeepsActive
