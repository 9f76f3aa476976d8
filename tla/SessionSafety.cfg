SPECIFICATION Spec
CONSTANTS
    Conn = {c1, c2}
    Ctx = {x1, x2}
    ClientId = {a}
    Topic = {t1}
    Null = Null
    MaxMsg = 1
    MaxParent = 1
    MaxQueue = 1
    MaxOut = 1
    SndBuf = 1
    MaxFilter = 1
    WireMod = 65536
    Qos0 = {1}
    Mode = 3
    Patient = FALSE
INVARIANTS TypeOK   CleanLeavesNoTrace
SYMMETRY Symmetry
CHECK_DEADLOCK FALSE
