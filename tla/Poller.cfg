\* The poller beside a console client and an MBB that answers late or never:
\* two commands, one waiting line or a whole answer behind a prompt read apart
\* from its echo, an MBB with room for two commands.
SPECIFICATION PollerLiveSpec
CONSTANTS
    NCMD = 2
    AHEAD = 2
    TYPED = 1
    Room <- OneBehind
PROPERTIES
    OwnAnswer
    RequestServed
