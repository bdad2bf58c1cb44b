CONSTANTS
    INPUT_QUEUE_CAPACITY = 4
    KeyEvent = {Enter, Left}
    Enter = Enter
    None = None
    USIZE_MODULUS = 3
SPECIFICATION FairSpec
INVARIANT NoSlotRace
PROPERTY ImplementsFifo
PROPERTY PublishedSlotIsRead
