SPECIFICATION SlotsSpec
CONSTANTS
    NumSlots = 3
    MaxClients = 1
    ReservedSlots = 2
    MaxSpies = 0
    SpecSlots = FALSE
    ServerPass = FALSE
    ServerAuth = TRUE
    Logins <- PlainAndAdmin
    SessionIds = {s1, s2, s3, s4}
    NoSession = none
    MaxTasks = 1
    Humans = {s1, s2, s3, s4}
    Bots = {b}
    Nobody = nobody
    Mtu = 3
    MaxMsgs = 1
    Buffers <- OneBuffer
    Players = {p, q}
    AiPlayers = {q}
    LifeSequences = 2
    MaxHealth = 1
    MaxProjectiles = 1
    MaxEvents = 0
    Hunted = {p}
    ShiftAlive = FALSE
    MaxOffers = 1
SYMMETRY SessionSymmetry
INVARIANTS TypeOK SlotAccounting RaisedOnlyWhenFull ServerTypeOK EverybodyElse BuffersShared DiesOnce
PROPERTIES MaxClientsRespected ImplementsPool DisconnectHitsItsSession HitsOwnLife
