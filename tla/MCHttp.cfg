CONSTANTS
    Requests <- MCRequests
    Responses <- MCResponses
    Methods <- MCMethods
    Keys <- MCKeys
    Values <- MCValues
    Bodies <- MCBodies
    Form <- MCForm
    MaxCalls = 3
    MaxUses = 4
SPECIFICATION MessageSpec
INVARIANTS
    VerdictUnsplit
    WholeElements
    TargetSplit
    ProgramWins
CHECK_DEADLOCK FALSE
