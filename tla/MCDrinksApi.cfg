\* Requests are bounded, so the system stops: no deadlock check.
CONSTANTS
    Titles = {"mocha", "latte"}
    Recipes = {"plain", "sweet"}
    InitialMenu <- OneDrink
    RequestIds = {1, 2}
    Threads = {t1, t2}
    PageRequests <- Pages
    Operations = {"list", "show", "create", "update", "delete"}
    Faults = {"busy", "crash"}
    MaxFaults = 1
    MaxRequests = 3
SPECIFICATION Spec
INVARIANTS TypeOK DeletedMeansGone ClientErrorsChangeNothing
PROPERTIES AbsentFieldsLeftAlone AnswersAreTrue PagesAddUp
CHECK_DEADLOCK FALSE
