CONSTANTS
    MemoryMaps <- MCMemoryMaps
    PageTables <- MCPageTables
    FRAME_SIZE = 2
    ENTRIES = 2
    HEAP_START = 6
    HEAP_SIZE = 5
    None = None
SPECIFICATION Spec
CHECK_DEADLOCK FALSE
INVARIANT FramesHaveOneOwner
INVARIANT FramesAreUsable
INVARIANT HeapIsBacked
INVARIANT HeapCost
