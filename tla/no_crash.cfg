\* One worker process that never crashes; every stage up to the switch may fail.
CONSTANTS
    Versions = {v1, v2}
    Documents = {d1}
    DocumentOf <- OneDocument
    Chunks = {c1}
    NoVersion = NoVersion
    Keys = {}
    NoKey = NoKey
    MaxAttempts = 3
    StaleAfter = 1
    MaxBackoff = 2
    Pollers = {w1}
    Tasks = {}
    Deleters = {}
    FailingCalls <- CallsBeforeSwitch
    MaxCrashes = 0
SPECIFICATION FairSpec
INVARIANTS
    FailedJobKeepsActive
PROPERTIES
    JobsTerminate
