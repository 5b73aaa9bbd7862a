\* One behaviour follows one component; see MCServices.tla.  A component may
\* come to its end (all runs executed, all bounds reached).
CONSTANTS
    Runs = {1, 2, 3}
    MaxRuns = 2
    EvalRuns = {1, 2}
    Revisions = {"r1", "r2"}
    Documents = {1, 2, 3}
    Limits = {1, 2}
    MaxUploads = 4
    QueuedJobs = {1, 2, 3}
    Pollers = {1, 2}
    Attempts = 2
    Limit = 1
    StaleTicks = 4
    MaxAge = 6
    Characters <- MCCharacters
    Uploads <- MCUploads
    Markers <- MCMarkers
    Candidates <- MCCandidates
    MaxSizes = {2, 3}
    SentenceSets <- MCSentenceSets
    Numbers = {1, 2}
    HeaderKeys = {"k"}
    JobRuns = {1, 2}
    Tries = 2
    Openers = {"api", "worker"}
    NewColumns <- MCColumns
    OldRows = {"old"}
    LaterRows = {"new"}
    Callers = {"api", "worker"}
    PayloadIndexes <- MCIndexes
SPECIFICATION MCSpec
CHECK_DEADLOCK FALSE
INVARIANTS
    DroppedOnlyWhenOld
    SuccessHasItsArtifact
    WalkMissesNothing
    HiddenOnlyByLeases
    UpMeansRecentlyAlive
    LiveWorkerIsUp
    EveryWordIsIndexed
    
    
    RowsSurviveMigration
    ReturnedMeansReady
PROPERTIES
    PublishedStays
    EveryComparedRunEnds
    EveryEvaluationEnds
    EveryJobIsTried
