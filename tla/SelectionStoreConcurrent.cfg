SPECIFICATION Spec
CONSTANTS
    Event <- MCEvent
    Selection <- MCSelection
    Research <- MCResearch
    Seeds <- MCSeeds
    Uploads <- MCUploads
    e1 = e1  e2 = e2  s1 = s1  s2 = s2  x1 = x1  x2 = x2
    Unresolved = Unresolved
    NoEvent = NoEvent
    Original = Original  NoFile = NoFile  Malformed = Malformed  NoMatch = NoMatch
    Req = {r1, r2}
    Coarse = FALSE
SYMMETRY Symmetric
CHECK_DEADLOCK FALSE
INVARIANTS TypeOK NeverTorn MalformedKept PersistedIsValid FailureMeansUntouched SuccessMeansPersisted
PROPERTIES EditsWhatItRead EditsWhatItsClientSaw ImplementsEventStore
