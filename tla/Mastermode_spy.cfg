SPECIFICATION MastermodeSpec
CONSTANTS
    Clients = {a, b}
    Nobody = nobody
    ResetMM = TRUE
    DisplayOpen = TRUE
    RestrictPause = FALSE
    Reconnect = TRUE
    Mask = {0, 1, 2}
    Spies = TRUE
SYMMETRY ClientSymmetry
INVARIANTS MasterlessIsReset
