\* A document with an active version is deleted while another version is queued.
CONSTANTS
    Versions = {v1, v2}
    Documents = {d1}
    DocumentOf <- OneDocument
    Chunks = {c1}
    NoVersion = NoVersion
    Keys = {}
    NoKey = NoKey
    MaxAttempts = 2
    StaleAfter = 1
    MaxBackoff = 1
    Pollers = {w1}
    Tasks = {}
    Deleters = {x1}
    FailingCalls = {}
    MaxCrashes = 0
SPECIFICATION Spec
INVARIANTS
    RefusedDeleteKeepsPoints
