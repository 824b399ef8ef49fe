SPECIFICATION CtfSpec
CONSTANTS
    CtfClients = {a, b}
    CtfBots = {}
    NoClient = NoClient
    NoTake = NoTake
    Flags <- TwoFlags
    FlagTeam <- GoodAndEvil
    Mode = "ctf"
    Rugby = FALSE
    TkPenalty = TRUE
    Slaying = TRUE
    FlagLimit = 2
    MaxVersion = 3
PROPERTIES SlayFreesFlag
