SPECIFICATION FairSpec
CONSTANTS
    Keys = {k1, k2, k3}
    Workers = {w1, w2}
    ChannelSize = 2
    Off = Off
    Started = Started
    Blocked = Blocked
    Ended = Ended
INVARIANTS TypeOK QueueInv OneWorkerPerKey
PROPERTIES EachKeyIsAKeyQueue EventsServed Terminates
CHECK_DEADLOCK FALSE
