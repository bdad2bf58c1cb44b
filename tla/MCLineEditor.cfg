CONSTANTS
    Char = {a, Space}
    Space = Space
    Zero = Zero
    None = None
    LINE_CAPACITY = 2
    HISTORY_CAPACITY = 2
    TabWidth = 2
SPECIFICATION Spec
INVARIANT ScreenShowsLine
PROPERTY ImplementsEditSession
