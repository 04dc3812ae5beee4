SPECIFICATION MCSpec
CONSTANTS
    r1 = r1
    r2 = r2
    a = a
    b = b
    c = c
    A = A
    Resolve = {r1, r2}
    Name = {a, b, c}
    Concurrency = 2
    Trading = {a}
    Printed <- MCPrinted
    Jobs <- MCJobs
    Candidates <- MCCandidates
    MaxTrades = 2
    PageSize = 1
    MaxAttempts = 2
    Event = {A, B}
    Candidate = {s}
    None = None
    MaxActs = 6
    MaxSaves = 2
INVARIANTS
    ContractTypes
    AnswersAccountForEveryLeg
    SavedUnderItsEvent
PROPERTIES
    RangesAsOfOneMoment
    RemovedOnlyByTheUser
    EveryResolveEnds
CHECK_DEADLOCK FALSE
