SPECIFICATION AiSpec
CONSTANTS
    Humans = {p, q}
    MaxBots = 2
    AiTeams <- OneTeam
    Limits = {2}
    NoOwner = NoOwner
    NoBot = NoBot
    Modes <- FfaOnly
    Reuse = TRUE
    Unsetting = FALSE
SYMMETRY HumanSymmetry
PROPERTIES RemovalDecides
