\* The WiFi owner: reachable, joined in the end, the setup network down again.
SPECIFICATION LiveSpec
CONSTANTS
    Keys = {k1, k2}
    NoKey = none
INVARIANTS
    UnprovisionedHasSetup
PROPERTIES
    NetworkJoined
    SavedReachable
    SetupComesDown
    RightKeyKept
