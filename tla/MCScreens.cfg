CONSTANTS
    CodePoints = {0, 1, 2, 3, 4, 5, 6, 7, 8}
    Tables <- MCTables
    Cp437 = {3}
    Controls = {0, 1}
    Wide = {5, 7}
    framebuffer_width = 6
    framebuffer_height = 5
    PITCH = 7
    glyph_width = 2
    glyph_height = 2
    ADVANCE = 3
    TOP = 1
    Narrow = {"a"}
    WideGlyphs = {"w"}
    ControlChars = {"nl", "bs", "missing"}
    Bg = "bg"
    Sizes <- MCSizes
    POOL_SIZE = 30
    SIZE_MAX = 64
    Widths = {0, 5, 8}
    Margins = {0, 1, 3}
    GlyphSizes = {1, 3, 4}
    MAX_INITS = 3
    MAX_ESC_VALUES = 2
    WORD = 64
    BITS = 1
    CURSOR = 2
    INSERT = 1
    MAX_BYTES = 7
    rows = 3
    cols = 2
    Chars = {"space", "letter"}
    Space = "space"
    Pixels = {1, 2}
    Font <- MCFont
    Colours = {"black", "grey"}
    Trans = "trans"
    Default = "grey"
    Black = "black"
    CANVAS = "black"
    MAX_X = 4
    MAX_CALLS = 3
    Numbers = {0}
    MAX_VALUES = 5
    MAX_SGR = 7
SPECIFICATION MCSpec
INVARIANTS
    CursorNear
    MemoryExact
    InputExact
PROPERTIES
    ShowsPage
    FlushExact
    ColoursKept
    SearchExact
CHECK_DEADLOCK FALSE
