SPECIFICATION Spec
CONSTANTS
    Stable <- MCStable
    BuiltLine = 7
    Lines = {6, 7, 8}
    Annotated <- MCAnnotated
    MaxEdits = 3
    MaxFailures = 1
CHECK_DEADLOCK FALSE
INVARIANT StartFollowsTable
PROPERTY EventuallyRuns
