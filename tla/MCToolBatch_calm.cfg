\* Every mixture of batches, checkpoints, pauses and denials, without crashes or failing writes.
SPECIFICATION FairSpec
CONSTANTS
    TurnLimit = 2
    CallLimit = 5
    Chunk = 2
    CheckpointLimit = 3
    DecisionLimit = 10
    CrashLimit = 0
    WakeUpLimit = 0
    Faults = {}
    Kinds = {"read", "guarded"}
    Idle = Idle
INVARIANTS TypeOK TurnsClosed
PROPERTIES ResumedByItsDecision KeepsContract BatchEnds
CHECK_DEADLOCK FALSE
