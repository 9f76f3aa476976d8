SPECIFICATION PersistSpec
CONSTANTS
    Conn = {c1}
    Ctx = {x1, x2}
    ClientId = {a}
    Topic = {t1}
    Null = Null
    MaxMsg = 2
    MaxParent = 0
    MaxQueue = 2
    MaxOut = 2
    SndBuf = 0
    MaxFilter = 2
    WireMod = 65536
    Qos0 = {2}
    Mode = 1
    Patient = TRUE
INVARIANTS FreshIds Durable NoLoss
SYMMETRY Symmetry
CHECK_DEADLOCK FALSE
