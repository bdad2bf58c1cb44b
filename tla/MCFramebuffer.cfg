CONSTANTS
    WIDTH = 11
    HEIGHT = 12
    FONT_WIDTH = 2
    FONT_HEIGHT = 3
    LETTER_SPACING = 1
    LINE_SPACING = 1
    BORDER = 2
    CURSOR_WIDTH = 4
    Glyphs = {a, Space, Unknown}
    Space = Space
    Unknown = Unknown
    Strange = {escape}
    Background = Background
    Leftover = Leftover
SPECIFICATION Spec
INVARIANT TypeOK
INVARIANT CursorLeavesNoTrace
INVARIANT SidesStayClear
PROPERTY ImplementsTerminal
