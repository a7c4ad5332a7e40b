\* Three rounds, and one thing that goes wrong: a crash, or a step out of its time.
SPECIFICATION FairSpec
CONSTANTS
    RoundLimit = 3
    DisturbanceLimit = 1
    Lanes = {"L1", "L3"}
INVARIANTS TypeOK OneImplementer ReviewCanPass NoOrdinaryStall
PROPERTIES CompleteMeansReviewed CycleEnds
CHECK_DEADLOCK FALSE
