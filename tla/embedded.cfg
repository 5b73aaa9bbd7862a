\* Embedded worker: every POST adds a background task, two of them overlap.
CONSTANTS
    Versions = {v1, v2}
    Documents = {d1}
    DocumentOf <- OneDocument
    Chunks = {c1}
    NoVersion = NoVersion
    Keys = {k1}
    NoKey = NoKey
    MaxAttempts = 2
    StaleAfter = 1
    MaxBackoff = 1
    Pollers = {}
    Tasks = {t1, t2}
    Deleters = {}
    FailingCalls = {"prepare"}
    MaxCrashes = 0
SPECIFICATION Spec
SYMMETRY Symmetry
INVARIANTS
    TypeOK
    AtMostOneActive
PROPERTIES
    KeysPinned
