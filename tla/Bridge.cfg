SPECIFICATION FairBridge
CONSTANTS
    Conn = {c1, c2}
    Ctx = {x1}
    ClientId = {a}
    Topic = {t1}
    Null = Null
    MaxMsg = 2
    MaxParent = 0
    MaxQueue = 2
    MaxOut = 5
    SndBuf = 1
    MaxFilter = 1
    WireMod = 65536
    Qos0 = {}
    Mode = 1
    Patient = FALSE
    MaxPing = 1
INVARIANT BridgeTypeOK ForgottenWasHanded
PROPERTY EventuallyForwarded EventuallySubscribed
CHECK_DEADLOCK FALSE
