\* All at once: a crash, a wake-up, failing saves and writes, an answered plan.
SPECIFICATION Spec
CONSTANTS
    TurnLimit = 2
    CallLimit = 3
    Chunk = 2
    CheckpointLimit = 1
    DecisionLimit = 2
    CrashLimit = 1
    WakeUpLimit = 1
    Faults = {"save", "persist", "plan"}
    Kinds = {"guardedRead", "guardedTwice"}
    Idle = Idle
INVARIANTS NothingUnapproved RepeatedForCause
PROPERTIES SavedResultsStand
CHECK_DEADLOCK FALSE
