SPECIFICATION BundlesSpec
CONSTANTS
    None = None
    MarginVerifiedFrom = 1
    OptionToFutureFrom = 5
PROPERTY
    MarksSurviveProjection
CHECK_DEADLOCK FALSE
