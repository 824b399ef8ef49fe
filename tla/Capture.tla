------------------------------ MODULE Capture ------------------------------
(***************************************************************************)
(* The capture mode (captureservmode in src/src/fpsgame/capture.h).  A     *)
(* base does not know who stands in it: it has two counters, owners and    *)
(* enemies, which the handlers that move, kill, spawn or remove a player   *)
(* keep up.  Once per second the counters decide what becomes of the base. *)
(* While the time is up the handlers count nobody, and when a script gives *)
(* the game more time (changetime) the counters are as they were before:   *)
(* who has left the base meanwhile is a ghost in it.                       *)
(*                                                                         *)
(* A player who is dead, watches or is gone is the same to the mode: it is *)
(* not alive.  Scores, ammunition and regeneration are left out; nothing   *)
(* reads them back.                                                        *)
(***************************************************************************)
EXTENDS Integers, FiniteSets

CONSTANTS
    Players,            \* clients and bots
    Teams,
    NoTeam,             \* the empty team name
    Bases,
    Away,               \* a place in no base
    EnemyLimit,         \* OCCUPYENEMYLIMIT
    NeutralLimit,       \* OCCUPYNEUTRALLIMIT
    Clip,               \* the map has gameclip material inside a base
    Slaying             \* scripts use player_slay without an actor

Places == Bases \cup {Away}

VARIABLES
    life,               \* of each player: NotAlive, or team, place and gameclip
    base,               \* baseinfo of each base
    notgotbases,        \* the server waits for a client to tell it the bases
    over,               \* gamemillis >= gamelimit
    ghosts              \* history, not in the code: how many of each team have
                        \* left each base while the time was up

cvars == <<life, base, notgotbases, over, ghosts>>

NotAlive == [team |-> NoTeam, at |-> Away, gameclip |-> FALSE]

\* baseinfo::reset
Neutral == [owner |-> NoTeam, enemy |-> NoTeam, owners |-> 0, enemies |-> 0, converted |-> 0]

Alive == {p \in Players : life[p].team # NoTeam}

\* insidebase, whatever the material is.
InBase(b, team) == {p \in Alive : life[p].team = team /\ life[p].at = b}

\* The players of a team who stand in a base, where they count.
Standing(b, team) == {p \in InBase(b, team) : ~life[p].gameclip}

NoGhost == [b \in Bases |-> [team \in Teams \cup {NoTeam} |-> 0]]

MaxConverted == EnemyLimit + NeutralLimit

CaptureTypeOK ==
    /\ life \in [Players -> {NotAlive} \cup
                    [team : Teams, at : Places, gameclip : {FALSE, Clip}]]
    /\ base \in [Bases -> [owner : Teams \cup {NoTeam}, enemy : Teams \cup {NoTeam},
                           owners : Nat, enemies : Nat, converted : 0 .. MaxConverted]]
    /\ notgotbases \in BOOLEAN /\ over \in BOOLEAN
    /\ ghosts \in [Bases -> [Teams \cup {NoTeam} -> Nat]]

CaptureInit ==
    /\ life = [p \in Players |-> NotAlive]
    /\ base = [b \in Bases |-> Neutral]
    /\ notgotbases \in BOOLEAN
    /\ over = FALSE
    /\ ghosts = NoGhost

-----------------------------------------------------------------------------
(* One base                                                                *)

\* enter: a third team is not counted while enemies of another one stand here.
Enter(b, team) ==
    IF b.owner = team THEN [b EXCEPT !.owners = @ + 1]
    ELSE IF b.enemies = 0
         THEN [b EXCEPT !.enemy = team, !.enemies = 1,
                        !.converted = IF b.enemy = team THEN @ ELSE 0]
    ELSE IF b.enemy = team THEN [b EXCEPT !.enemies = @ + 1]
    ELSE b

\* Mutant of LeaveBase: who leaves is not taken off the enemies.
LeaveBase_OwnersOnly(b, team) ==
    IF b.owner = team /\ b.owners > 0 THEN [b EXCEPT !.owners = @ - 1] ELSE b

\* Mutant of LeaveBase: an owner who was not counted is taken off all the same.
LeaveBase_BelowZero(b, team) ==
    IF b.owner = team THEN [b EXCEPT !.owners = @ - 1]
    ELSE IF b.enemy = team /\ b.enemies > 0 THEN [b EXCEPT !.enemies = @ - 1]
    ELSE b

\* leave
LeaveBase(b, team) ==
    IF b.owner = team /\ b.owners > 0 THEN [b EXCEPT !.owners = @ - 1]
    ELSE IF b.enemy = team /\ b.enemies > 0 THEN [b EXCEPT !.enemies = @ - 1]
    ELSE b

\* Mutant of Steals: who was not counted at first never is.
Steals_Never(b, team) == FALSE

\* steal
Steals(b, team) == b.enemies = 0 /\ b.owner # team

\* stealbase: everybody of the team enters.  The mover is where it was, and
\* gameclip is not looked at.
StealBase(rec, b, team) ==
    LET n == Cardinality(InBase(b, team))
    IN  IF n = 0 THEN rec
        ELSE [rec EXCEPT !.enemy = team, !.enemies = n,
                         !.converted = IF rec.enemy = team THEN @ ELSE 0]

\* movebases: nobody is counted while the time is up.
MoveBases(bases, team, from, to) ==
    IF over THEN bases
    ELSE [b \in Bases |->
            IF b = from /\ b # to THEN LeaveBase(bases[b], team)
            ELSE IF b # from /\ b = to THEN Enter(bases[b], team)
            ELSE IF b = from /\ Steals(bases[b], team) THEN StealBase(bases[b], b, team)
            ELSE bases[b]]

\* The ghosts when one of a team goes from one place to another: while the
\* time is up who leaves becomes one, and who comes takes the place of one.
Haunted(team, from, to) ==
    IF ~over \/ notgotbases \/ from = to THEN ghosts
    ELSE [b \in Bases |->
            IF b = from THEN [ghosts[b] EXCEPT ![team] = @ + 1]
            ELSE IF b = to /\ ghosts[b][team] > 0 THEN [ghosts[b] EXCEPT ![team] = @ - 1]
            ELSE ghosts[b]]

\* Where a player counts: nowhere inside gameclip.
Counted(p) == IF life[p].gameclip THEN Away ELSE life[p].at

-----------------------------------------------------------------------------
(* Players                                                                 *)

\* N_SPAWN: spawned.  A dead client may have sent where it is.
Spawn(p, team, at, clip) ==
    /\ p \notin Alive
    /\ life' = [life EXCEPT ![p] = [team |-> team, at |-> at, gameclip |-> clip]]
    /\ base' = IF notgotbases \/ clip THEN base ELSE MoveBases(base, team, Away, at)
    /\ ghosts' = Haunted(team, Away, IF clip THEN Away ELSE at)
    /\ UNCHANGED <<notgotbases, over>>

\* N_POS: moved is called before the new place is stored.
Move(p, to, clip) ==
    /\ p \in Alive
    /\ life' = [life EXCEPT ![p].at = to, ![p].gameclip = clip]
    /\ base' = IF notgotbases THEN base
               ELSE MoveBases(base, life[p].team, Counted(p), IF clip THEN Away ELSE to)
    /\ ghosts' = Haunted(life[p].team, Counted(p), IF clip THEN Away ELSE to)
    /\ UNCHANGED <<notgotbases, over>>

\* died and leavegame: from a player who is alive both do the same.
LeaveGame(p) ==
    /\ p \in Alive
    /\ life' = [life EXCEPT ![p] = NotAlive]
    /\ base' = IF notgotbases \/ life[p].gameclip THEN base
               ELSE MoveBases(base, life[p].team, life[p].at, Away)
    /\ ghosts' = Haunted(life[p].team, Counted(p), Away)
    /\ UNCHANGED <<notgotbases, over>>

\* A listener of the frag changes the team of who is dying, or makes a
\* spectator of it (dodamage): it leaves before, and dies once more.
DieTwice(p, team) ==
    /\ p \in Alive
    /\ life' = [life EXCEPT ![p] = NotAlive]
    /\ base' = IF notgotbases \/ life[p].gameclip THEN base
               ELSE MoveBases(MoveBases(base, life[p].team, life[p].at, Away),
                              team, life[p].at, Away)
    /\ ghosts' = Haunted(life[p].team, Counted(p), Away)
    /\ UNCHANGED <<notgotbases, over>>

\* player_slay without an actor: the mode is not told.
Slay(p) ==
    /\ Slaying
    /\ p \in Alive
    /\ life' = [life EXCEPT ![p] = NotAlive]
    /\ UNCHANGED <<base, notgotbases, over, ghosts>>

\* Mutant of ChangeTeam: the bot stays in its base for its old team.
ChangeTeam_Forgets(p, team) ==
    /\ p \in Alive /\ life[p].team # team
    /\ life' = [life EXCEPT ![p].team = team]
    /\ UNCHANGED <<base, notgotbases, over, ghosts>>

\* changeteam: balanceteams moves a bot that is alive.  Everybody else dies
\* before changing the team.
ChangeTeam(p, team) ==
    /\ p \in Alive /\ life[p].team # team
    /\ life' = [life EXCEPT ![p].team = team]
    /\ base' = IF notgotbases \/ life[p].gameclip THEN base
               ELSE MoveBases(MoveBases(base, life[p].team, life[p].at, Away),
                              team, Away, life[p].at)
    /\ ghosts' = IF over /\ ~notgotbases /\ Counted(p) # Away
                 THEN [ghosts EXCEPT ![life[p].at][life[p].team] = @ + 1,
                                     ![life[p].at][team] = IF @ > 0 THEN @ - 1 ELSE @]
                 ELSE ghosts
    /\ UNCHANGED <<notgotbases, over>>

-----------------------------------------------------------------------------
(* Time                                                                    *)

\* occupy with units of a second in which enemies stand in the base, or none do.
Occupy(b) ==
    LET units     == IF b.enemies > 0 THEN 1 + b.enemies ELSE -(2 + b.owners)
        converted == b.converted + units
        noenemy   == [b EXCEPT !.enemy = NoTeam, !.enemies = 0, !.converted = 0]
    IN  IF units < 0
        THEN IF converted <= 0 THEN noenemy ELSE [b EXCEPT !.converted = converted]
        ELSE IF converted < (IF b.owner # NoTeam THEN EnemyLimit ELSE NeutralLimit)
        THEN [b EXCEPT !.converted = converted]
        ELSE IF b.owner # NoTeam
        THEN [b EXCEPT !.owner = NoTeam, !.converted = 0]
        ELSE [noenemy EXCEPT !.owner = b.enemy, !.owners = b.enemies]

\* Owners and enemies stand in the base: nothing moves.
Contested(b) == b.owners > 0 /\ b.enemies > 0

\* endcheck: every base has one owner.
Dominated == /\ Bases # {} /\ ~notgotbases
             /\ \E team \in Teams : \A b \in Bases : base[b].owner = team

\* update in a call in which a second passes.  endcheck may end the game, and
\* the rest of update is done all the same.
Update ==
    /\ ~over
    /\ over' = Dominated
    /\ base' = IF notgotbases THEN base
               ELSE [b \in Bases |-> IF base[b].enemy # NoTeam /\ ~Contested(base[b])
                                     THEN Occupy(base[b]) ELSE base[b]]
    /\ UNCHANGED <<life, notgotbases, ghosts>>

\* The time is up, or a command ends the game.
EndOfTime == ~over /\ over' = TRUE /\ UNCHANGED <<life, base, notgotbases, ghosts>>

\* changetime: the game goes on with the bases and counters that it had.
Reopen ==
    /\ over /\ over' = FALSE
    /\ UNCHANGED <<life, base, notgotbases, ghosts>>

\* changemap: mapchange leaves nobody alive; setup has the bases of the map if
\* the server could load its entities.
Setup ==
    /\ life' = [p \in Players |-> NotAlive]
    /\ base' = [b \in Bases |-> Neutral]
    /\ notgotbases' \in BOOLEAN
    /\ over' = FALSE
    /\ ghosts' = NoGhost

\* parsebases: the first client that has the map tells the bases, and everybody
\* who is alive enters, in the order of the vector clients.  In a base that
\* is new, only the team of whoever enters first is counted.
ParseBases ==
    /\ notgotbases
    /\ notgotbases' = FALSE
    /\ \E first \in [Bases -> Teams \cup {NoTeam}] :
          /\ \A b \in Bases : first[b] = NoTeam => \A t \in Teams : Standing(b, t) = {}
          /\ \A b \in Bases : first[b] # NoTeam => Standing(b, first[b]) # {}
          /\ base' = IF over THEN base
                     ELSE [b \in Bases |->
                             [Neutral EXCEPT !.enemy = first[b],
                                             !.enemies = Cardinality(Standing(b, first[b]))]]
    /\ UNCHANGED <<life, over, ghosts>>

CaptureNext ==
    \/ \E p \in Players, t \in Teams, at \in Places, clip \in {FALSE, Clip} :
          Spawn(p, t, at, clip)
    \/ \E p \in Players, to \in Places, clip \in {FALSE, Clip} : Move(p, to, clip)
    \/ \E p \in Players : LeaveGame(p) \/ Slay(p)
    \/ \E p \in Players, t \in Teams : ChangeTeam(p, t) \/ DieTwice(p, t)
    \/ Update \/ EndOfTime \/ Reopen \/ Setup \/ ParseBases

CaptureSpec == CaptureInit /\ [][CaptureNext]_cvars

\* Seconds pass, and a client sends where it is many times a second.
CaptureFairness ==
    /\ WF_cvars(Update)
    /\ \A p \in Players : WF_cvars(Move(p, life[p].at, life[p].gameclip))

CaptureFairSpec == CaptureSpec /\ CaptureFairness

-----------------------------------------------------------------------------
(* Properties                                                              *)

\* Who may be counted in a base for a team: who stands there, and the ghosts.
Crowd(b, team) == Cardinality(Standing(b, team)) + ghosts[b][team]

\* The counters of a base never count more than who stands there and the ghosts,
\* whatever killed, moved or removed the players it counted, and however often
\* the time was up and the game went on (enter, leave and stealbase against
\* died, leavegame, changeteam, moved and changetime).
NoGhosts ==
    \A b \in Bases :
        /\ base[b].owners <= Crowd(b, base[b].owner)
        /\ base[b].enemies <= Crowd(b, base[b].enemy)

\* A base becomes a team's only while a player of that team stands in it or has
\* left it while the time was up, and is taken from its owners only while one
\* of another team does or has (occupy, which looks at the counters alone).
TakenByPresence ==
    [][Setup \/ \A b \in Bases : base'[b].owner # base[b].owner =>
         IF base[b].owner = NoTeam THEN Crowd(b, base'[b].owner) > 0
         ELSE /\ base'[b].owner = NoTeam
              /\ \E team \in Teams \ {base[b].owner} : Crowd(b, team) > 0]_cvars

\* The players of team who stand in b are who, and no other team has anybody
\* there, nor a ghost.
Held(b, team, who) == /\ Standing(b, team) = who
                      /\ \A t \in Teams \ {team} : Crowd(b, t) = 0

\* Who stays in a base and keeps the other teams out gets it, although players
\* who were not counted when they entered are found out only when they move
\* (stealbase), unless the game ends for good, the bases are not known, or a
\* ghost of another team is in the base.
HoldersGetTheBase ==
    \A b \in Bases, team \in Teams, who \in SUBSET Players \ {{}} :
        <>[](Held(b, team, who) /\ ~over /\ ~notgotbases) => <>[](base[b].owner = team)
=============================================================================
