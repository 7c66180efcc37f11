\* No clicks, so nobody signs out and the page stays.  Menu changes are bounded,
\* so the page settles: no deadlock check.
CONSTANTS
    InOrder = FALSE
    MaxClicks = 0
    MaxVersion = 1
SPECIFICATION Spec
INVARIANTS SettledLevel
CHECK_DEADLOCK FALSE
