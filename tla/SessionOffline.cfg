SPECIFICATION Spec
CONSTANTS
    Conn = {c1, c2}
    Ctx = {x1, x2, x3}
    ClientId = {a}
    Topic = {t1}
    Null = Null
    MaxMsg = 1
    MaxParent = 0
    MaxQueue = 1
    MaxOut = 2
    SndBuf = 1
    MaxFilter = 1
    WireMod = 65536
    Qos0 = {}
    Mode = 1
    Patient = TRUE
INVARIANT OfflineFound
SYMMETRY Symmetry
CHECK_DEADLOCK FALSE
