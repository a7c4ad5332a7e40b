\* The sweep meets a session that was thinking when the server went down.
SPECIFICATION Spec
CONSTANTS
    TurnLimit = 1
    FollowUpLimit = 1
    CrashLimit = 1
    WakeUpLimit = 0
    OverlapLimit = 1
    SweepModes = {"before"}
PROPERTIES SweepRecoversRecoverable
CHECK_DEADLOCK FALSE
