\* The sleep policy: up for the MBB whatever cut or delayed the sleep, own
\* sessions not counted, and asleep again in the end.
SPECIFICATION LiveSpec
CONSTANTS
    Hibs = {6}
    Mangled = {9}
    FALLBACK = 6
    MARGIN_PCT = 40
    MIN = 1
    SANE_MAX = 8
    STALE = 1
    GRACE = 1
    DRIFT_PCT = 34
    MAX_LAG = 2
INVARIANTS
    UpForTheMbb
    OwnSessionsDontCount
PROPERTIES
    SleepsAgain
