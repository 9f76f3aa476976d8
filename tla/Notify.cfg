SPECIFICATION FairSpec
CONSTANTS
    Producer = {bridge, http}
    NoThread = NoThread
    MaxMsg = 2
INVARIANTS TypeOK NoLostWakeup InOrder
PROPERTIES EventuallyHandled Stops
CHECK_DEADLOCK FALSE
