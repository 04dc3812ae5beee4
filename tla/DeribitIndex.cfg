SPECIFICATION Spec
CONSTANTS
    Tab = {t1, t2}
    Job = {j1}
    Server = Server
    MaxPolls = 1
    Again = FALSE
    MaxCrashes = 1
CHECK_DEADLOCK FALSE
INVARIANTS TypeOK ReadyMeansManifest OneSynchronization FailsForAReason
PROPERTY LoadEnds
