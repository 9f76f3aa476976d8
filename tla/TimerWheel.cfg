SPECIFICATION Spec
CONSTANTS
    RBits = 1
    NBits = 2
    Top = 3
    StartTime = 0
    Timer = {t1, t2}
    NoTimer = NoTimer
    Period = {3, 15}
    Repeat = {0, 2}
INVARIANTS TypeOK InOneList Punctual CalledInFull
PROPERTY ExpiresOnTime
CHECK_DEADLOCK FALSE
SYMMETRY Symmetry
