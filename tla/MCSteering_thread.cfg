\* One thread, messages routed one by one or two at a time, while sessions work, end and crash.
SPECIFICATION Spec
CONSTANTS
    MessageLimit = 3
    SessionLimit = 3
    Routers = {r1, r2}
    MaxFollowUps = 2
    Commands = {"none", "reset", "mode"}
    WakeUpLimit = 1
    CrashLimit = 1
    FaultLimit = 1
    Idle = Idle
INVARIANTS TypeOK HeardOnce AcceptedIsKept HeardInOrder OneLiveSession
SYMMETRY Symmetry
CHECK_DEADLOCK FALSE
