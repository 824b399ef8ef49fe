SPECIFICATION CtfFairSpec
CONSTANTS
    CtfClients = {a, b}
    CtfBots = {b}
    NoClient = NoClient
    NoTake = NoTake
    Flags <- OneFlag
    FlagTeam <- Good
    Mode = "hold"
    Rugby = FALSE
    TkPenalty = TRUE
    Slaying = TRUE
    FlagLimit = 2
    MaxVersion = 3
PROPERTIES DroppedFlagReturns
