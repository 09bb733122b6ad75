SPECIFICATION Spec
CONSTANTS
    None = None
    Walk <- MCWalk
    Folder <- MCFolder
    MsgId <- MCMsgId
    Body <- MCBody
    Place <- MCPlace
    Kinds = {"pst", "maildir"}
    Reads = {"empty", "part"}
    Troubles = {"rename", "cancelled", "source", "absent", "unreadable", "vanished",
                "table", "folder", "item", "panic", "fatal", "zip", "row",
                "flush", "save", "lock", "kill"}
    MaxRuns = 3
    MaxUpsets = 2
    CheckpointEvery = 2
    ProbeEvery = 2
    WriteBreaker = 2
INVARIANT OutcomeIsTrue
INVARIANT CalmRunHeals
INVARIANT RecordedIsWritten
INVARIANT IndexIsSuperset
PROPERTY GapsAreKept
CHECK_DEADLOCK FALSE
