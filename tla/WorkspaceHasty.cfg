SPECIFICATION Spec
CONSTANTS
    Dataset = {d1, d2}
    Id = {a, b}
    Trade = {t1, t2}
    d1 = d1  d2 = d2  a = a  b = b  m = m  t1 = t1  t2 = t2  t3 = t3
    Home <- MCHomePair
    Initial <- MCInitial
    Fresh <- MCFreshPair
    None = None
    Researched = {t1}
    Call = {c1, c2}
    MaxClock = 2
    Patient = FALSE
    Discards = TRUE
    Lossy = {"rename", "view"}
    Failing = {}
    Controlled = FALSE
SYMMETRY MCSymmetry
CHECK_DEADLOCK FALSE
INVARIANT NoForeignResearch
