SPECIFICATION LoginFairSpec
CONSTANTS
    Mappings = {a, b}
    Probing = {a}
    HasSaved = TRUE
    HasShared = TRUE
    MaxTyped = 3
    Blank = {2}
    MaxLogins = 1
    None = None
INVARIANTS OwnLogin
PROPERTIES TypedIsTried
CHECK_DEADLOCK FALSE
