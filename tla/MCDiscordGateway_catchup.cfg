\* Two people, connections that are lost, sessions that expire, a restart and a failing request.
SPECIFICATION FairSpec
CONSTANTS
    ann = ann
    bob = bob
    People = {ann, bob}
    PageSize = 2
    MessageLimit = 3
    TroubleLimit = 2
    Nobody = Nobody
INVARIANTS TypeOK NothingSkipped HeardOnce
PROPERTIES MessagesArrive
CHECK_DEADLOCK FALSE
