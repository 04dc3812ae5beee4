SPECIFICATION LadderSpec
CONSTANTS
    None = None
INVARIANT
    LadderIsCausal
CHECK_DEADLOCK FALSE
