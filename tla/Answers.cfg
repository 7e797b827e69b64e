\* The answers and their save: kept through power cuts, aged right, newest figure.
SPECIFICATION LiveSpec
CONSTANTS
    NCMD = 2
    Carriers = {1, 2}
    WRAP = 2
    Errs = {0, 1}
    MAX_TIME = 2
INVARIANTS
    SavedIsKept
    AgesRight
    FigureNewest
PROPERTIES
    SavedInTheEnd
