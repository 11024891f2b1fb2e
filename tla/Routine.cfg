\* Small routines of every control; what steps answer is any of what they may.
CONSTANTS
    Routines <- MCRoutines
    Programs <- MCPrograms
    Endpoints <- MCEndpoints
    MaxDepth = 2
    MaxIterations = 2
SPECIFICATION FairSpec
INVARIANTS
    NothingOutlives
    LoggedOnce
    AnswersAsMeant
PROPERTIES
    RunsEnd
CHECK_DEADLOCK FALSE
