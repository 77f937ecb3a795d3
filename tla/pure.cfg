\* Files of up to 13 bytes in blocks of 4; paths of up to 6 characters.
SPECIFICATION PureSpec
CONSTANTS
    BL_S = 4
    MaxByte = 13
    PathMax = 9
    EXT_LEN = 2
    MaxLen = 6
INVARIANTS BufferRight SavesExactly SnapshotsReadOnly DecomposeRight PathsFit
CHECK_DEADLOCK FALSE
