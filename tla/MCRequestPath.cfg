\* Keys may always rotate: the system never stops.
CONSTANTS
    k1 = k1
    Threads = {t1, t2}
    StoreOf <- OwnStore
    Kids = {k1}
    Horizon = 2
    Window = 1
    Configs <- Tried
    Requests <- Sent
    Bodies <- Posted
    WriteLimit = 1
    DefaultLimit = 2
    LimitWindow = 2
    Leeway = 1
    MaxRequests = 2
    MaxTitleLength = 2
    MaxIngredients = 2
    MaxNameLength = 2
    MaxParts = 2
    MaxJsonLength = 3
SPECIFICATION Spec
SYMMETRY Symmetry
INVARIANTS TypeOK BootMeansVerifiable RecipesRoundTrip
PROPERTIES AnswersMatchCredentials ChargedForOwnRequests
