SPECIFICATION MCSpec
CONSTANTS
    None = None
    NoRun = NoRun
    Target <- MCTargets
    MonthOf <- MCMonthOf
    Trade = {"a", "b"}
    Batches <- MCBatches
    MaxCacheRuns = 3
    MaxCrashes = 1
    MarginVerifiedFrom = 1
    OptionToFutureFrom = 5
INVARIANT
    EvidenceOutlivesRuns
PROPERTIES
    ExecutionsAreCausal
    SelectionIsSound
    RetrievalsAreComplete
    SurfacesAreTheirEvidence
    StatesAreTheirEvidence
    ResearchValuesAreCausal
    BaselinesAreCausal
    LossesAreBounded
    ExportsAreFaithful
    ReportsAreTheirTracks
    DurationsAreConsistent
    ExitsAreChronological
CHECK_DEADLOCK FALSE
