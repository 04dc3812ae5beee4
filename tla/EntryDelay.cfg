SPECIFICATION BundleSpec
CONSTANTS
    None = None
    MarginVerifiedFrom = 1
    OptionToFutureFrom = 5
INVARIANT
    DelayedEvidenceIsExported
CHECK_DEADLOCK FALSE
