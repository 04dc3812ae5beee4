SPECIFICATION DurationSpec
CONSTANTS
    None = None
    MarginVerifiedFrom = 1
    OptionToFutureFrom = 5
INVARIANTS
    AmbiguousKeepsItsBucket
CHECK_DEADLOCK FALSE
