CONSTANTS
    Lifetimes = {0, 2, 3, 5}
    Margin = 1
    Floor = 2
    Latency = 1
    Horizon = 8
SPECIFICATION Spec
INVARIANTS TypeOK NoExpiryRace
PROPERTIES OnlyNewTokensFail ManagementCallSpec CallsEnd
