SPECIFICATION Spec
CONSTANTS
    MaxRuns = 2
    NMsgs = 2
    MaxUpsets = 2
    MaxTries = 2
    WedgeAt <- PassWedgeAt
    Torn <- PassTorn
VIEW LiveState
INVARIANT UnmarkedIsWhole
INVARIANT SetNeverForks
INVARIANT NothingForgotten
CHECK_DEADLOCK FALSE
