SPECIFICATION Spec
CONSTANTS
    NumSlots = 3
    MaxClients = 1
    ReservedSlots = 0
    MaxSpies = 3
    SpecSlots = FALSE
    ServerPass = FALSE
    ServerAuth = FALSE
    Logins <- SpyLogins
    SessionIds = {s1, s2, s3, s4}
    NoSession = none
    MaxTasks = 1
SYMMETRY SessionSymmetry
PROPERTIES MaxClientsRespected
