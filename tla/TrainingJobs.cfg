SPECIFICATION FairSpec
CONSTANTS
    CallSets <- Sets
INVARIANTS SuccessIsReal
PROPERTIES DatasetKept CancelStopsChild
CHECK_DEADLOCK FALSE
