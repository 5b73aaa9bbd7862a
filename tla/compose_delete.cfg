\* Docker Compose: one worker process polls while the API accepts uploads and deletions.
CONSTANTS
    Versions = {v1, v2}
    Documents = {d1}
    DocumentOf <- OneDocument
    Chunks = {c1, c2}
    NoVersion = NoVersion
    Keys = {}
    NoKey = NoKey
    MaxAttempts = 3
    StaleAfter = 2
    MaxBackoff = 2
    Pollers = {w1}
    Tasks = {}
    Deleters = {x1}
    FailingCalls <- AllCalls
    MaxCrashes = 2
SPECIFICATION Spec
SYMMETRY Symmetry
INVARIANTS
    ActiveIsWhole
    StatusCoherent
    BusyWhileWorking
PROPERTIES
    SucceededIsFinal
    AttemptsNeverLost
