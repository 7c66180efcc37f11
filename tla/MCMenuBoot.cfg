\* Failures and edits are bounded, so the system stops: no deadlock check.
CONSTANTS
    Titles = {"water", "latte", "mocha"}
    Recipes = {"demo", "own"}
    Workers = {w1, w2}
    NoWorker = NoWorker
    DemoDrinks <- TwoDrinks
    OwnDrinks <- Additions
    FirstMenus <- Volumes
    MaxFaults = 2
    MaxEdits = 2
SPECIFICATION Spec
INVARIANTS TypeOK ServesFullMenu
PROPERTIES EventuallyServes
CHECK_DEADLOCK FALSE
