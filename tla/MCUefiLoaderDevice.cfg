CONSTANTS
    s = s
    d = d
    basic = basic
    esp = esp
    Machines <- MCMachines
    SOL_DATA_PARTITION_TYPE = basic
    SOL_DATA_PARTITION_NAME <- MCName
    SOL_DATA_BLOCKS = 3
    BLOCK_SIZE = 1
    CHUNK_BLOCKS = 2
    Nul = Nul
    Unread = Unread
SPECIFICATION Spec
CHECK_DEADLOCK FALSE
INVARIANT SnapshotFromBootDevice
