SPECIFICATION FairSpec
CONSTANTS
    Documents <- MCDocuments
    Budgets <- MCBudgets
    JoinCosts = {0, 1, 2}
    Strips = {0, 1}
INVARIANTS
    EveryByteOnce
    ChunksBounded
PROPERTIES
    Returns
CHECK_DEADLOCK FALSE
