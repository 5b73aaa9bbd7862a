\* Two live runs and their tasks; they all may come to their end.
CONSTANTS
    Runs = {1, 2}
    MaxRuns = 2
SPECIFICATION TracesSpec
CHECK_DEADLOCK FALSE
PROPERTIES
    EveryRunEnds
