\* One copy and one command, which runs on the source or on the copy; one outage.
SPECIFICATION FairSpec
CONSTANTS
    Source = source
    Children = {child}
    Execs = {e}
    None = none
    SleepAfter = 2
    ReapAfter = 2
    TroubleLimit = 1
    ByHand = FALSE
INVARIANTS TypeOK TornDownByItsRow CopiesAccounted ReadyIsAwake
PROPERTIES SleepSparesRunning NothingHangs
CHECK_DEADLOCK FALSE
