\* The log directory: dictionaries kept, names right, the oldest reclaimed
\* first, the reserve back in the end although a file will not delete.
SPECIFICATION LiveSpec
CONSTANTS
    Dicts = {1, 2}
    BLOCKS = 7
    FS_MIN_FREE = 2
    META = 1
    KEEP = 2
    ROUNDS = 2
    DICT_SLOTS = 1
    SEQ_DIGITS_MAX = 9
    BASE = 10
    Stuck = {2}
    READERS = 1
    MAX_SEQ = 3
INVARIANTS
    DictKept
PROPERTIES
    NamedForItsStream
    OldestFirst
    ReserveReturns
