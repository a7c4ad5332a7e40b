\* A message that meets a session in authentication is reported as routed and dropped.
SPECIFICATION Spec
CONSTANTS
    MessageLimit = 2
    SessionLimit = 2
    Routers = {r1}
    MaxFollowUps = 1
    Commands = {"none"}
    WakeUpLimit = 0
    CrashLimit = 0
    FaultLimit = 0
    Idle = Idle
PROPERTIES SteeringPreserved
CHECK_DEADLOCK FALSE
