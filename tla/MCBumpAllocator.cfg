CONSTANTS
    Contexts = {shell, handler}
    Layouts <- MCLayouts
    heap_start = 3
    heap_size = 9
    USIZE_MAX = 13
SPECIFICATION FairHeapSpec
INVARIANT BlocksDisjoint
INVARIANT BlocksInHeap
PROPERTY AllocReturns
