\* The puller against a live board: nothing deleted that is not held, and
\* every session pulled or reclaimed.
SPECIFICATION PullerLiveSpec
CONSTANTS
    Dicts = {1}
    BLOCKS = 4
    FS_MIN_FREE = 1
    META = 1
    KEEP = 2
    ROUNDS = 2
    DICT_SLOTS = 2
    SEQ_DIGITS_MAX = 9
    BASE = 10
    Stuck = {}
    READERS = 4
    MAX_SEQ = 2
    Damaged = {1}
    MAX_KILLS = 1
INVARIANTS
    SlotsFreed
    DeletedIsHeld
PROPERTIES
    PulledInTheEnd
