SPECIFICATION Spec
CONSTANTS
    Agents = {a}
    Callers = {m}
    Contents = {c}
    Published = {c}
    OldTags = {"y"}
    Tombstones = {"y"}
    Titles = {"t"}
    TagNames = {"x", "y"}
    Calls <- MCCalls
    Batches <- MCBatches
    MaxToolCalls = 3
    MaxSteps = 4
    MaxCallerCalls = 2
INVARIANTS
    ResultsAreCommitted
    ConversationAnswered
    LinksReachTags
    AttemptsCapped
    StepLimitUnreached
PROPERTIES
    CallsEnd
CHECK_DEADLOCK FALSE
