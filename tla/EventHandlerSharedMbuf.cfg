SPECIFICATION Spec
CONSTANTS
    Handler = {h1, h2}
    Mbuf = {m1, m2}
    MaxMsgInBuffer = 2
    PktLen = 2
    MaxPut = 3
    SpuriousOut = TRUE
PROPERTY SkippedWasSent
CHECK_DEADLOCK FALSE
