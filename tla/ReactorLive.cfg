CONSTANTS
    Handler = {h1, h2}
    Mbuf = {m1}
    MaxMsgInBuffer = 2
    PktLen = 1
    MaxPut = 2
    SpuriousOut = FALSE
    Acceptor = Acceptor
    Service = Service
    NoHandler = NoHandler
SPECIFICATION FairReactor
PROPERTY ShutsDown EventuallyWritten
CHECK_DEADLOCK FALSE
