SPECIFICATION Spec
CONSTANTS
    Tabs = {t1, t2}
    MaxAttempts = 3
    Horizon = 3
    Lifetime = 2
    Skew = 1
SYMMETRY Symmetry
INVARIANTS TypeOK NeverRefused SignOutIsFinal
PROPERTY LoneSignInProceeds
