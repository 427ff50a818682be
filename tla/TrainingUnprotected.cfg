SPECIFICATION Spec
CONSTANTS
    CallSets <- Sets
INVARIANT DatasetProtected
CHECK_DEADLOCK FALSE
