\* Messages wake a running session and the deferred sweep meets live sessions.
SPECIFICATION Spec
CONSTANTS
    TurnLimit = 1
    FollowUpLimit = 1
    CrashLimit = 0
    WakeUpLimit = 1
    OverlapLimit = 0
    SweepModes = {"after"}
INVARIANTS AtMostOneReply
PROPERTIES TerminalIsFinal
CHECK_DEADLOCK FALSE
