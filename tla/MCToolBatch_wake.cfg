\* A message wakes a batch that is running: two invocations execute the same saved calls.
SPECIFICATION Spec
CONSTANTS
    TurnLimit = 1
    CallLimit = 3
    Chunk = 2
    CheckpointLimit = 4
    DecisionLimit = 0
    CrashLimit = 0
    WakeUpLimit = 1
    Faults = {}
    Kinds = {"read"}
    Idle = Idle
INVARIANTS WakeUpRepeatsNothing
CHECK_DEADLOCK FALSE
