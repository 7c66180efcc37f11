\* Clicks and menu changes are bounded, so the page settles: no deadlock check.
CONSTANTS
    InOrder = TRUE
    MaxClicks = 3
    MaxVersion = 2
SPECIFICATION Spec
INVARIANTS TypeOK SettledLevel ReadsOwnWrites
PROPERTIES LoadingEnds
CHECK_DEADLOCK FALSE
