CONSTANTS
    rows = 3
    cols = 4
    Chars = {0, 1, 2, 3, 4, 5, 6, 7, 8, 9, 10, 11, 12, 13}
    Space = 0
    Text <- MCText
    Typed = {13}
    Colour = "grey"
    tab_size = 2
    MAX_VALUE = 4
    MAX_STEPS = 2
SPECIFICATION TermSpec
PROPERTIES
    SequencesExact
CHECK_DEADLOCK FALSE
