SPECIFICATION GameSpec
CONSTANTS
    Clients = {c1, c2}
    Second = c2
    Maps = {m1}
    NoMap = none
    GameTime = 1
    IntermTime = 1
    MaxLimit = 2
    MaxDelay = 1
    MaxQueue = 2
    Players = {p1, p2}
    Teams = {"good", "evil"}
    NoTeam = ""
    Bases = {1, 2}
    Away = away
    EnemyLimit = 3
    NeutralLimit = 2
    Clip = FALSE
    Slaying = FALSE
    MaxGhosts = 1
INVARIANTS GameTypeOK DemoStampsForward NoGhosts
PROPERTIES IntermissionEnds ImplementsGameCycle TakenByPresence HoldersGetTheBase
