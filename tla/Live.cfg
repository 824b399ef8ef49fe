SPECIFICATION LiveSpec
CONSTANTS
    Humans = {p, q}
    MaxBots = 2
    AiTeams <- OneTeam
    Limits = {2}
    NoOwner = nobody
    NoBot = nobot
    Modes = {"ffa", "nobots"}
    Reuse = TRUE
    Unsetting = TRUE
    NumSlots = 2
    MaxClients = 1
    ReservedSlots = 1
    MaxSpies = 2
    SpecSlots = TRUE
    ServerPass = FALSE
    ServerAuth = TRUE
    Logins = {"plain", "spy", "serverpass"}
    SessionIds = {s1, s2, s3}
    NoSession = none
    MaxTasks = 1
INVARIANTS SpyCount NoDanglingBot Settled
PROPERTIES ConnectResolved DisconnectTakesEffect RefreshSettles BotsFollow
