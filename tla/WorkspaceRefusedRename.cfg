SPECIFICATION Spec
CONSTANTS
    Dataset = {d1, d2}
    Id = {a, b, m}
    Trade = {t1, t2, t3}
    d1 = d1  d2 = d2  a = a  b = b  m = m  t1 = t1  t2 = t2  t3 = t3
    Home <- MCHome
    Initial <- MCInitial
    Fresh <- MCFresh
    None = None
    Researched = {t1}
    Call = {c1}
    MaxClock = 3
    Patient = TRUE
    Discards = FALSE
    Lossy = {}
    Failing = {}
    Controlled = TRUE
CHECK_DEADLOCK FALSE
INVARIANT RenameIsAccepted
