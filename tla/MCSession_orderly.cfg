\* A server that sweeps before it is ready, and nobody waking a running session.
SPECIFICATION FairSpec
CONSTANTS
    TurnLimit = 2
    FollowUpLimit = 1
    CrashLimit = 2
    WakeUpLimit = 0
    OverlapLimit = 1
    SweepModes = {"before"}
INVARIANTS TypeOK DriverServesStatus SoleDriver
PROPERTIES NoStaleAdvance NoSilentStall
CHECK_DEADLOCK FALSE
