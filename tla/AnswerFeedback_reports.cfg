SPECIFICATION FeedbackSpec
CONSTANTS
    Questions = {"q", "Q?"}
    Normalized <- MCNormalized
    Outcomes <- MCOutcomes
    Threshold = 4
    NearMissBand = 2
    LowConfidenceBand = 1
    ScanLimit = 2
    NoValue = NoValue
    MaxTurns = 2
    MaxRatings = 2
    MaxAged = 1
INVARIANTS
    SettledRatingStored
    RatedDownIsReported
    GapsAreWeak
PROPERTIES
    RatingsSettle
CHECK_DEADLOCK FALSE
