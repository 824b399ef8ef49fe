SPECIFICATION CtfSpec
CONSTANTS
    CtfClients = {a, b}
    CtfBots = {b}
    NoClient = NoClient
    NoTake = NoTake
    Flags <- TwoFlags
    FlagTeam <- GoodAndEvil
    Mode = "ctf"
    Rugby = TRUE
    TkPenalty = TRUE
    Slaying = FALSE
    FlagLimit = 2
    MaxVersion = 3
INVARIANTS CtfTypeOK CarrierPlays RightTeam DropperPresent
PROPERTIES TakeIsFresh ScoreEarned
