CONSTANTS
    MaxSize = 1
    MAX_BLOCK_SIZE = 4
    MaxPut = 5
    Empty = Empty
    MaxLine = 2
    MaxBytes = 3
    LineLen = 2
    MaxHour = 1
    MaxFail = 1
SPECIFICATION Spec
INVARIANTS NextBlockEmpty NextBlockFilled FilesBounded WrittenInOrder
PROPERTIES IsFifo EventuallyRecorded
