\* Reconciles, retries and disconnects of the Discord transport, one by one and overlapping.
SPECIFICATION FairSpec
CONSTANTS
    CallLimit = 2
    TaskLimit = 2
    EventLimit = 2
    Idle = Idle
INVARIANTS TypeOK UnderControl ReadyzIsTrue
PROPERTIES StopReturns
CHECK_DEADLOCK FALSE
