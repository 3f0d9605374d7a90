SPECIFICATION OutboxFairSpec
CONSTANTS
    Op <- OneOp
    Replayer = {p1}
    MaxCopies = 2
    MaxEffects = 2
    MaxKills = 1
PROPERTY QueuedIsSettled
CHECK_DEADLOCK FALSE
