SPECIFICATION CtfSpec
CONSTANTS
    CtfClients = {a, b}
    CtfBots = {}
    NoClient = NoClient
    NoTake = NoTake
    Flags <- TwoFlags
    FlagTeam <- GoodAndEvil
    Mode = "ctf"
    Rugby = TRUE
    TkPenalty = TRUE
    Slaying = FALSE
    FlagLimit = 2
    MaxVersion = 4
PROPERTIES FlagrunHonest
