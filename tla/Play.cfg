SPECIFICATION PlaySpec
CONSTANTS
    Clients = {a, b}
    Nobody = nobody
    ResetMM = TRUE
    DisplayOpen = TRUE
    RestrictPause = FALSE
    Reconnect = TRUE
    Mask = {0, 1, 2}
    Spies = FALSE
    Humans = {a, b}
    MaxBots = 2
    AiTeams = {"good", "evil"}
    Limits = {2}
    NoOwner = nobody
    NoBot = nobot
    Modes = {"team"}
    Reuse = FALSE
    Unsetting = FALSE
    CtfClients = {a, b}
    CtfBots = {}
    NoClient = nobody
    NoTake = notake
    Flags <- TwoFlags
    FlagTeam <- BothGood
    Mode = "protect"
    Rugby = FALSE
    TkPenalty = TRUE
    Slaying = FALSE
    FlagLimit = 2
    MaxVersion = 1
    Players = {a, b}
    Bases = {"r"}
    BaseTeam <- RedBase
    Unowned = unowned
    TOKENLIMIT = 1
    UNOWNEDTOKENLIMIT = 1
    SCORELIMIT = 1
    MaxScore = 1
SYMMETRY Symmetry
INVARIANTS PlayTypeOK MasterlessIsReset PauseIsRevocable OwnersRun OneFlagEach TokensBounded DroppersPresent
PROPERTIES TeamsEvened
