CONSTANTS
    Handler = {h1, h2}
    Mbuf = {m1}
    MaxMsgInBuffer = 2
    PktLen = 2
    MaxPut = 3
    SpuriousOut = TRUE
    Acceptor = Acceptor
    Service = Service
    NoHandler = NoHandler
SPECIFICATION ReactorSpec
SYMMETRY Symmetry
INVARIANT RegisteredExactly
INVARIANT WriteScheduled
INVARIANT QueueBounded
INVARIANT FifoNoLoss
PROPERTY WireInOrder
CHECK_DEADLOCK FALSE
