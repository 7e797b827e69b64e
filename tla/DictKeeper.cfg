\* The dictionary being learned: no line twice, room for what is new, and what
\* still comes stays.
SPECIFICATION KeeperSpec
CONSTANTS
    Size <- MCSize
    GZ_DICT = 8
    DICT_CAND = 4
    DICT_NOVELTY = 2
    MARK_SESSIONS = 2
INVARIANTS
    NothingTwice
    AlwaysLearns
PROPERTIES
    RecurringStays
