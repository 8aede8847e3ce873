SPECIFICATION Spec
CONSTANTS
    Exchanges = {e1, e2, e3}
    MaxTokens = 1
    MaxUnderWay = 2
    Absent = Absent
    Unknown = Unknown
SYMMETRY Symmetry
INVARIANTS
    DoneIsStored
    OwnReplyPaired
PROPERTIES
    RepliesStampedLast
    ImplementsMailbox
CHECK_DEADLOCK FALSE
