\* The session: no line lost silently, parts numbered, one wake per file, a
\* waiting end comes, waiting lines are settled.
SPECIFICATION FairSpec
CONSTANTS
    GZ_OUT = 3
    SESSION_MAX = 3
    SEQ_LIMIT = 12
    LeftOver = {2}
    Kept = {0, 2}
    MAX_LINES = 5
    MAX_CLOSES = 2
INVARIANTS
    LinesAccounted
    NamesTellTheParts
    OneWakePerFile
PROPERTIES
    WaitingSettles
