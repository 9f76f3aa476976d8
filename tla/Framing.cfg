SPECIFICATION Spec
CONSTANTS
    Bits = 3
    Char = 9
    Flags = {1, 2}
    Payloads = {0, 3, 14}
    BufSize = 18
    Garbage = {0, 8}
    MaxPackets = 3
INVARIANTS TypeOK    
PROPERTY Settled
CHECK_DEADLOCK FALSE
