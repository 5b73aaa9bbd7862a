\* Qdrant goes down after staging: verify_version and discard_version both raise.
CONSTANTS
    Versions = {v1}
    Documents = {d1}
    DocumentOf <- OneDocument
    Chunks = {c1}
    NoVersion = NoVersion
    Keys = {}
    NoKey = NoKey
    MaxAttempts = 2
    StaleAfter = 1
    MaxBackoff = 1
    Pollers = {w1}
    Tasks = {}
    Deleters = {}
    FailingCalls = {"verify", "discard"}
    MaxCrashes = 0
SPECIFICATION FairSpec
PROPERTIES
    JobsTerminate
