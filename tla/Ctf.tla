-------------------------------- MODULE Ctf --------------------------------
(***************************************************************************)
(* The flags of the capture the flag modes: ctf, protect and hold          *)
(* (ctfservmode in src/src/fpsgame/ctf.h), with the rugby extension that   *)
(* passes a flag to the team mate one shoots at.                           *)
(*                                                                         *)
(* A flag is at home, carried, or lies where it was dropped; the server    *)
(* keeps that as two client numbers and four times.  The game calls        *)
(* leavegame, died, changeteam and dropflag when something happens to a    *)
(* player, and nothing else keeps the flags in step with the players.  A   *)
(* client that believes to touch a flag says so with N_TAKEFLAG and the    *)
(* flag's version as it knows it, and may be wrong by then.                *)
(***************************************************************************)
EXTENDS Naturals, Integers, FiniteSets

CONSTANTS
    CtfClients,   \* client numbers, those of bots included
    CtfBots,      \* the client numbers that are bots
    NoClient,     \* owner or dropper -1
    NoTake,       \* no N_TAKEFLAG under way
    Flags,        \* positions in the vector "flags"
    FlagTeam,     \* the team of each flag; not used in hold
    Mode,         \* "ctf", "protect" (m_protect) or "hold" (m_hold)
    Rugby,        \* server.rugby_enabled, with a rugby_mode that passes
    TkPenalty,    \* server.ctf_teamkill_penalty
    Slaying,      \* a script or an administrator uses player_slay
    FlagLimit,    \* FLAGLIMIT
    MaxVersion    \* bound: flags below this version are asked for and passed

CtfTeams == {"good", "evil"}

ASSUME CtfAssumption ==
    /\ Flags \subseteq Nat /\ IsFiniteSet(Flags) /\ CtfBots \subseteq CtfClients
    /\ NoClient \notin CtfClients
    /\ FlagTeam \in [Flags -> CtfTeams]
    /\ Mode \in {"ctf", "protect", "hold"}
    /\ Rugby \in BOOLEAN /\ TkPenalty \in BOOLEAN /\ Slaying \in BOOLEAN
    /\ FlagLimit \in Nat /\ MaxVersion \in Nat
    /\ Mode = "hold" => \E i \in Flags : Flags = {i}    \* HOLDFLAGS

VARIABLES
    fighter,      \* what the flags depend on: state and team of each client
    flag,         \* vector "flags"
    gotflags,     \* ~notgotflags
    flagscores,   \* by team
    gameover,     \* gamemillis >= gamelimit
    report,       \* what the listeners of the last scoreflag event were told
    sent          \* the N_TAKEFLAG each client has under way

ctfvars == <<fighter, flag, gotflags, flagscores, gameover, report, sent>>

Fighter == [state : {"gone", "spectator", "dead", "alive"}, team : CtfTeams]

\* A time stamp: 0, set, or set so long ago that update acts on it.
Timer == {"off", "on", "due"}

\* A streak that runs is as old as the present owner's time, or older.
Streak == Timer \cup {"older"}

\* dropcount of a flag whose owner was killed by a team mate (INT_MAX).
Penalty == 2

(***************************************************************************)
(* drop is droptime, which ownflag does not clear; hold is owntime and     *)
(* streak is starttimemssameteaminarow, kept in hold only, where they are  *)
(* read; timed says tmillis > -1; drops says that drops is not 0; helpers  *)
(* are the clients listed in rugby_clients.                                *)
(***************************************************************************)
Flag == [owner : CtfClients \cup {NoClient}, dropper : CtfClients \cup {NoClient},
         dropcount : Nat, version : Nat,
         drop : Timer, invis : Timer, hold : Timer, streak : Streak,
         timed : BOOLEAN, drops : BOOLEAN, used_rugby : BOOLEAN,
         helpers : SUBSET CtfClients]

\* flag::reset, and ++version in setupholdspawns.
NewFlag == [owner |-> NoClient, dropper |-> NoClient, dropcount |-> 0,
            version |-> IF Mode = "hold" THEN 1 ELSE 0,
            drop |-> "off", invis |-> IF Mode = "protect" THEN "on" ELSE "off",
            hold |-> "off", streak |-> "off",
            timed |-> FALSE, drops |-> FALSE, used_rugby |-> FALSE, helpers |-> {}]

\* stale: since the client sent the message the flag was taken, dropped or
\* returned, or the map changed.  The server does not know; the properties do.
Take == [flag : Flags, version : Nat, stale : BOOLEAN]

ASSUME NoTakeAssumption == NoTake \notin Take

CtfPresent == {c \in CtfClients : fighter[c].state # "gone"}
Alive(c)   == fighter[c].state = "alive"
Carried(c) == {i \in Flags : flag[i].owner = c}
Mates(c, d) == fighter[c].team = fighter[d].team

-----------------------------------------------------------------------------
(* What happens to one flag.  Every caller increments the version as well. *)

\* A former owner is in the team of the new one: the streak goes on.
NextStreak(f) == IF Mode # "hold" THEN "off"
                 ELSE IF f.streak = "off" THEN "on"
                 ELSE IF f.streak = "on" THEN "older" ELSE f.streak

\* ownflag
Owned(f, c) ==
    [owner      |-> c,
     dropper    |-> NoClient,
     dropcount  |-> IF f.dropper = c THEN f.dropcount + 1 ELSE 0,
     version    |-> f.version + 1,
     drop       |-> f.drop,
     invis      |-> "off",
     hold       |-> IF Mode = "hold" THEN "on" ELSE "off",
     streak     |-> NextStreak(f),
     timed      |-> f.timed,
     drops      |-> f.drops,
     used_rugby |-> f.used_rugby,
     helpers    |-> f.helpers \cup {c}]

\* Both functions named dropflag.
Dropped(f, dropper, penalty) ==
    [owner      |-> NoClient,
     dropper    |-> dropper,
     dropcount  |-> IF penalty THEN Penalty ELSE f.dropcount,
     version    |-> f.version + 1,
     drop       |-> "on",
     invis      |-> "off",
     hold       |-> f.hold,
     streak     |-> "off",
     timed      |-> FALSE,
     drops      |-> TRUE,
     used_rugby |-> f.used_rugby \/ Cardinality(f.helpers) > 1,
     helpers    |-> f.helpers]

\* returnflag
Returned(f, invis) ==
    [owner      |-> NoClient,
     dropper    |-> NoClient,
     dropcount  |-> 0,
     version    |-> f.version + 1,
     drop       |-> "off",
     invis      |-> invis,
     hold       |-> f.hold,
     streak     |-> "off",
     timed      |-> FALSE,
     drops      |-> FALSE,
     used_rugby |-> FALSE,
     helpers    |-> {}]

InvisAtHome == IF Mode = "protect" THEN "on" ELSE "off"

\* Clients whose N_TAKEFLAG is in S receive or lose it; the others may be
\* overtaken by what this step does to the flag.
Moved(i) == \/ flag'[i].owner # flag[i].owner
            \/ (flag'[i].drop = "off") # (flag[i].drop = "off")

Track(S) ==
    sent' = [c \in CtfClients |->
                IF c \in S \/ sent[c] = NoTake THEN NoTake
                ELSE [flag |-> sent[c].flag, version |-> sent[c].version,
                      stale |-> sent[c].stale \/ Moved(sent[c].flag)]]

-----------------------------------------------------------------------------
(* What the game tells the mode                                            *)

\* dropflag(ci, dropper)
DropAll(c, dropper, inbase) ==
    [i \in Flags |->
        IF flag[i].owner # c THEN flag[i]
        ELSE IF Mode = "protect" /\ inbase THEN Returned(flag[i], "off")
        ELSE Dropped(flag[i], dropper, dropper # c)]

\* Mutant of Forgotten: dropcount gets the -1 as well.
Forgotten_MinusOne(f, c) ==
    IF f.dropper = c THEN [f EXCEPT !.dropper = NoClient, !.dropcount = -1] ELSE f

\* The second half of leavegame and died.
Forgotten(f, c) == IF f.dropper = c THEN [f EXCEPT !.dropper = NoClient, !.dropcount = 0]
                                    ELSE f

\* Mutant of LeaveGame: the dropper is not forgotten.
LeaveGame_KeepsDropper(c, inbase) == flag' = DropAll(c, c, inbase)

\* leavegame
LeaveGame(c, inbase) ==
    flag' = [i \in Flags |-> Forgotten(DropAll(c, c, inbase)[i], c)]

\* died(ci, actor)
Died(c, actor, inbase) ==
    LET dropper == IF TkPenalty /\ actor # NoClient /\ Mates(actor, c) THEN actor ELSE c
    IN  flag' = [i \in Flags |-> Forgotten(DropAll(c, dropper, inbase)[i], c)]

-----------------------------------------------------------------------------
(* Players                                                                 *)

CtfInit ==
    /\ fighter = [c \in CtfClients |-> [state |-> "gone", team |-> "good"]]
    /\ flag = [i \in Flags |-> NewFlag]
    /\ gotflags = FALSE
    /\ flagscores = [t \in CtfTeams |-> 0]
    /\ gameover = FALSE
    /\ report = [timed |-> FALSE, used_rugby |-> FALSE]
    /\ sent = [c \in CtfClients |-> NoTake]

game == <<gotflags, flagscores, gameover, report>>

\* connected(ci), or addai: a team is chosen, the player is not alive yet.
CtfJoin(c, state, team) ==
    /\ fighter[c].state = "gone"
    /\ state \in {"dead", "spectator"} /\ (c \in CtfBots => state = "dead")
    /\ fighter' = [fighter EXCEPT ![c] = [state |-> state, team |-> team]]
    /\ UNCHANGED <<flag, game, sent>>

\* clientdisconnect of a player, or deleteai.
CtfLeave(c, inbase) ==
    /\ fighter[c].state # "gone"
    /\ LeaveGame(c, inbase)
    /\ fighter' = [fighter EXCEPT ![c] = [state |-> "gone", team |-> "good"]]
    /\ UNCHANGED game
    /\ Track({c})

\* setspectator(ci, true)
CtfSpectate(c, inbase) ==
    /\ fighter[c].state \in {"dead", "alive"} /\ c \notin CtfBots
    /\ LeaveGame(c, inbase)
    /\ fighter' = [fighter EXCEPT ![c].state = "spectator"]
    /\ UNCHANGED game
    /\ Track({})

\* setspectator(ci, false)
CtfUnspectate(c) ==
    /\ fighter[c].state = "spectator"
    /\ fighter' = [fighter EXCEPT ![c].state = "dead"]
    /\ UNCHANGED <<flag, game, sent>>

\* N_SPAWN answers the server: what the client sent before has arrived.
CtfSpawn(c) ==
    /\ fighter[c].state = "dead" /\ sent[c] = NoTake
    /\ fighter' = [fighter EXCEPT ![c].state = "alive"]
    /\ UNCHANGED <<flag, game, sent>>

\* dodamage, or suicide without an actor.  The actor of a rocket or a grenade
\* may be dead or a spectator by now.
CtfDie(c, actor, inbase) ==
    /\ Alive(c) /\ actor \in CtfPresent \cup {NoClient}
    /\ Died(c, actor, inbase)
    /\ fighter' = [fighter EXCEPT ![c].state = "dead"]
    /\ UNCHANGED game
    /\ Track({})

\* player_slay
Slay(c) ==
    /\ Slaying /\ Alive(c)
    /\ fighter' = [fighter EXCEPT ![c].state = "dead"]
    /\ UNCHANGED <<flag, game, sent>>

\* N_SWITCHTEAM, N_SETTEAM and player_changeteam: who is alive dies first.
CtfSwitchTeam(c, team, inbase) ==
    /\ c \in CtfPresent /\ fighter[c].team # team /\ sent[c] = NoTake
    /\ IF Alive(c)
       THEN /\ Died(c, NoClient, inbase)
            /\ fighter' = [fighter EXCEPT ![c] = [state |-> "dead", team |-> team]]
            /\ Track({})
       ELSE /\ fighter' = [fighter EXCEPT ![c].team = team]
            /\ UNCHANGED <<flag, sent>>
    /\ UNCHANGED game

\* Mutant of BalanceBot: the bot keeps what it carries.
BalanceBot_KeepsFlag(c, team, inbase) ==
    /\ c \in CtfBots \cap CtfPresent /\ fighter[c].team # team
    /\ fighter' = [fighter EXCEPT ![c].team = team]
    /\ UNCHANGED <<flag, game, sent>>

\* balanceteams: a bot changes its team and plays on; changeteam drops its flag.
BalanceBot(c, team, inbase) ==
    /\ c \in CtfBots \cap CtfPresent /\ fighter[c].team # team
    /\ flag' = IF Alive(c) THEN DropAll(c, c, inbase) ELSE flag
    /\ fighter' = [fighter EXCEPT ![c].team = team]
    /\ UNCHANGED game
    /\ Track({})

-----------------------------------------------------------------------------
(* Flags                                                                   *)

\* N_TRYDROPFLAG
TryDropFlag(c, inbase) ==
    /\ c \in CtfPresent /\ sent[c] = NoTake /\ Carried(c) # {}
    /\ flag' = DropAll(c, c, inbase)
    /\ UNCHANGED <<fighter, game>>
    /\ Track({})

\* The client runs over a flag that nobody carries.
SendTake(c, i) ==
    /\ Alive(c) /\ sent[c] = NoTake /\ gotflags
    /\ flag[i].owner = NoClient
    /\ flag[i].version < MaxVersion
    /\ sent' = [sent EXCEPT ![c] = [flag |-> i, version |-> flag[i].version, stale |-> FALSE]]
    /\ UNCHANGED <<fighter, flag, game>>

\* A flag that takeflag looks at at all starts the streak, taken or not.
Touched(f) == IF Mode = "hold" /\ f.streak = "off" THEN [f EXCEPT !.streak = "on"] ELSE f

\* Mutant of MayTouch: any version will do.
MayTouch_AnyVersion(c, i, version) == /\ gotflags /\ Alive(c)
                                      /\ flag[i].owner = NoClient

MayTouch(c, i, version) ==
    /\ gotflags /\ Alive(c)
    /\ flag[i].owner = NoClient
    /\ flag[i].version = version
    /\ ~(flag[i].drop # "off" /\ flag[i].dropper = c /\ flag[i].dropcount >= 1)

\* In hold everyone takes the flag, in protect one's own, in ctf the other one's.
TakesFlag(c, i) == \/ Mode = "hold"
                   \/ Mode = "protect" /\ fighter[c].team = FlagTeam[i]
                   \/ Mode = "ctf" /\ fighter[c].team # FlagTeam[i]

\* scoreflag: flag i goes home, and the event is triggered after that.  The
\* listeners of timeupdate may extend the game that the last flag ends.
ScoreFlag(c, i) ==
    LET team == fighter[c].team IN
    /\ report' = [timed |-> flag[i].timed, used_rugby |-> Returned(flag[i], "off").used_rugby]
    /\ flagscores' = [flagscores EXCEPT ![team] = @ + 1]
    /\ IF flagscores[team] + 1 >= FlagLimit THEN gameover' \in BOOLEAN ELSE UNCHANGED gameover
    /\ UNCHANGED <<fighter, gotflags>>

NoScore == UNCHANGED <<fighter, game>>

\* Mutant of HandsFull: one may carry several flags.
HandsFull_Never(c) == FALSE

\* takeflag looks for a flag that the client carries.
HandsFull(c) == Carried(c) # {}

\* tmillis is set unless the flag has been dropped since it was at home.
Timed(f) == IF f.drops THEN f ELSE [f EXCEPT !.timed = TRUE]

Bumped(f) == [f EXCEPT !.version = @ + 1]

\* takeflag, in the order of its branches: nothing, a refusal, a flag taken, ...
TakeIgnored(c) ==
    /\ ~gotflags \/ ~Alive(c)
    /\ UNCHANGED flag /\ NoScore

TakeRefused(c, i, version) ==
    /\ gotflags /\ Alive(c) /\ ~MayTouch(c, i, version)
    /\ flag' = [flag EXCEPT ![i] = Touched(flag[i])]
    /\ NoScore

TakeTheFlag(c, i) ==
    /\ TakesFlag(c, i)
    /\ flag' = [flag EXCEPT ![i] =
                  IF HandsFull(c) THEN Touched(flag[i])
                  ELSE Timed(Owned(flag[i], c))]
    /\ NoScore

\* ... in protect the flag of the others scores unless it is hidden, ...
TouchTheirs(c, i) ==
    /\ Mode = "protect" /\ ~TakesFlag(c, i)
    /\ IF flag[i].invis = "off"
       THEN /\ flag' = [flag EXCEPT ![i] = Returned(flag[i], InvisAtHome)]
            /\ ScoreFlag(c, i)
       ELSE UNCHANGED flag /\ NoScore

\* Mutant of TouchOwn: one's own flag need not be at home.
TouchOwn_Anywhere(c, i) ==
    /\ Mode = "ctf" /\ ~TakesFlag(c, i)
    /\ \E j \in Carried(c) :
          /\ \A k \in Carried(c) : j <= k
          /\ flag' = [flag EXCEPT ![j] = Returned(flag[j], "off"), ![i] = Bumped(flag[i])]
          /\ ScoreFlag(c, j)

\* ... in ctf one's own flag goes home from where it lies, or is the goal for
\* the first flag that the client carries.
TouchOwn(c, i) ==
    /\ Mode = "ctf" /\ ~TakesFlag(c, i)
    /\ \/ /\ flag[i].drop # "off"
          /\ flag' = [flag EXCEPT ![i] = Returned(flag[i], "off")]
          /\ NoScore
       \/ /\ flag[i].drop = "off" /\ ~HandsFull(c)
          /\ UNCHANGED flag /\ NoScore
       \/ /\ flag[i].drop = "off"
          /\ \E j \in Carried(c) :
                /\ \A k \in Carried(c) : j <= k
                /\ flag' = [flag EXCEPT ![j] = Returned(flag[j], "off"), ![i] = Bumped(flag[i])]
                /\ ScoreFlag(c, j)

TakeFlag(c) ==
    /\ sent[c] # NoTake
    /\ \/ TakeIgnored(c)
       \/ TakeRefused(c, sent[c].flag, sent[c].version)
       \/ /\ MayTouch(c, sent[c].flag, sent[c].version)
          /\ \/ TakeTheFlag(c, sent[c].flag)
             \/ TouchTheirs(c, sent[c].flag)
             \/ TouchOwn(c, sent[c].flag)
    /\ Track({c})

\* Mutant of PassFlag: to a team mate who is dead.
PassFlag_ToTheDead(c, d) ==
    /\ Rugby /\ c # d
    /\ Carried(c) # {} /\ d \in CtfPresent /\ Mates(c, d)
    /\ \A i \in Carried(c) : flag[i].version < MaxVersion
    /\ flag' = [i \in Flags |-> IF flag[i].owner = c THEN Owned(flag[i], d) ELSE flag[i]]
    /\ NoScore
    /\ Track({})

Passed(f) == [f EXCEPT !.used_rugby = TRUE]

\* The rugby module's damage listener: the damage of a team mate's shot becomes
\* a pass of what the shooter carries (pass_flag).
PassFlag(c, d) ==
    /\ Rugby /\ c # d
    /\ Carried(c) # {} /\ Alive(d) /\ Mates(c, d)
    /\ \A i \in Carried(c) : flag[i].version < MaxVersion
    /\ flag' = [i \in Flags |->
                  IF flag[i].owner = c
                  THEN Owned(Passed(flag[i]), d)
                  ELSE flag[i]]
    /\ NoScore
    /\ Track({})

-----------------------------------------------------------------------------
(* Time                                                                    *)

\* A flag lies for RESETFLAGTIME; is hidden or held for HOLDSECS.  A streak is
\* shorter than HOLDSECS when it started after the flag was dropped, which
\* resets it, and the flag still lies there.
Tick(i) ==
    /\ \/ /\ flag[i].owner = NoClient /\ flag[i].drop = "on"
          /\ flag' = [flag EXCEPT ![i] = [flag[i] EXCEPT !.drop = "due"]]
       \/ /\ flag[i].invis = "on"
          /\ flag' = [flag EXCEPT ![i] = [flag[i] EXCEPT !.invis = "due"]]
       \/ /\ Mode = "hold" /\ flag[i].owner # NoClient /\ flag[i].hold = "on"
          /\ flag' = [flag EXCEPT ![i] = [flag[i] EXCEPT !.hold = "due", !.streak = "due"]]
       \/ /\ Mode = "hold"
          /\ IF flag[i].owner = NoClient THEN flag[i].streak = "on" /\ flag[i].drop = "off"
                                         ELSE flag[i].streak = "older"
          /\ flag' = [flag EXCEPT ![i] = [flag[i] EXCEPT !.streak = "due"]]
    /\ UNCHANGED <<fighter, game, sent>>

\* Mutant of Resets: a flag that somebody dropped stays.
Resets_NotDropped(i) == /\ flag[i].owner = NoClient /\ flag[i].drop = "due"
                        /\ flag[i].dropper = NoClient

Resets(i) == flag[i].owner = NoClient /\ flag[i].drop = "due"

HoldEnds(i) == /\ Mode = "hold" /\ flag[i].owner # NoClient
               /\ IF Rugby THEN flag[i].streak = "due" ELSE flag[i].hold = "due"

Running == gotflags /\ ~gameover /\ CtfPresent # {}

\* update: flags that have lain long enough go home, hidden ones reappear.
UpdateFlags ==
    /\ Running
    /\ \E i \in Flags : Resets(i) \/ flag[i].invis = "due"
    /\ flag' = [i \in Flags |->
                  IF Resets(i) THEN Returned(flag[i], InvisAtHome)
                  ELSE IF flag[i].invis = "due" THEN [flag[i] EXCEPT !.invis = "off"]
                  ELSE flag[i]]
    /\ flagscores' = [t \in CtfTeams |->
                        IF Mode = "protect"
                        THEN flagscores[t] - Cardinality({i \in Flags : Resets(i) /\ FlagTeam[i] = t})
                        ELSE flagscores[t]]
    /\ UNCHANGED <<fighter, gotflags, gameover, report>>
    /\ Track({})

\* update: the flag of hold has been held long enough.
UpdateHold(i) ==
    /\ Running /\ HoldEnds(i)
    /\ flag' = [flag EXCEPT ![i] = Returned(flag[i], "off")]
    /\ ScoreFlag(flag[i].owner, i)
    /\ Track({})

CtfEndOfTime ==
    /\ ~gameover
    /\ gameover' = TRUE
    /\ UNCHANGED <<fighter, flag, gotflags, flagscores, report, sent>>

\* changetime gives a game whose time was up more of it.
CtfReopen ==
    /\ gameover
    /\ gameover' = FALSE
    /\ UNCHANGED <<fighter, flag, gotflags, flagscores, report, sent>>

\* changemap to a map of the same mode, whose flags the server knows or not.
\* autoteam may put the players into other teams.
CtfChangeMap(known, teams) ==
    /\ fighter' = [c \in CtfClients |->
                     [state |-> IF Alive(c) THEN "dead" ELSE fighter[c].state,
                      team  |-> IF c \in CtfPresent THEN teams[c] ELSE fighter[c].team]]
    /\ flag' = [i \in Flags |-> NewFlag]
    /\ gotflags' = known
    /\ flagscores' = [t \in CtfTeams |-> 0]
    /\ gameover' = FALSE
    /\ sent' = [c \in CtfClients |-> IF sent[c] = NoTake THEN NoTake
                                     ELSE [flag |-> sent[c].flag, version |-> sent[c].version,
                                           stale |-> TRUE]]
    /\ UNCHANGED report

\* N_INITFLAGS: the first client that has the map tells where its flags are.
ParseFlags ==
    /\ ~gotflags /\ \E c \in CtfPresent : fighter[c].state # "spectator"
    /\ gotflags' = TRUE
    /\ flag' = [i \in Flags |-> NewFlag]
    /\ UNCHANGED <<fighter, flagscores, gameover, report, sent>>

-----------------------------------------------------------------------------
CtfNext ==
    \/ \E c \in CtfClients, state \in {"dead", "spectator"}, t \in CtfTeams : CtfJoin(c, state, t)
    \/ \E c \in CtfClients, inbase \in BOOLEAN :
        \/ CtfLeave(c, inbase)
        \/ CtfSpectate(c, inbase)
        \/ TryDropFlag(c, inbase)
        \/ \E actor \in CtfClients \cup {NoClient} : CtfDie(c, actor, inbase)
        \/ \E t \in CtfTeams : CtfSwitchTeam(c, t, inbase) \/ BalanceBot(c, t, inbase)
    \/ \E c \in CtfClients : CtfUnspectate(c) \/ CtfSpawn(c) \/ Slay(c) \/ TakeFlag(c)
    \/ \E c \in CtfClients, i \in Flags : SendTake(c, i)
    \/ \E c, d \in CtfClients : PassFlag(c, d)
    \/ \E i \in Flags : Tick(i) \/ UpdateHold(i)
    \/ UpdateFlags
    \/ CtfEndOfTime \/ CtfReopen
    \/ \E known \in BOOLEAN, teams \in [CtfClients -> CtfTeams] : CtfChangeMap(known, teams)
    \/ ParseFlags

CtfSpec == CtfInit /\ [][CtfNext]_ctfvars

\* The clock runs and the update timer fires while somebody is on the server.
CtfFairness == /\ \A i \in Flags : WF_ctfvars(Tick(i) /\ Running)
               /\ WF_ctfvars(UpdateFlags)

CtfFairSpec == CtfSpec /\ CtfFairness

-----------------------------------------------------------------------------
(* Properties                                                              *)

\* CtfTypeOK: the state is made of the values the code stores.
CtfTypeOK ==
    /\ fighter \in [CtfClients -> Fighter]
    /\ flag \in [Flags -> Flag]
    /\ gotflags \in BOOLEAN /\ gameover \in BOOLEAN
    /\ flagscores \in [CtfTeams -> Int]
    /\ report \in [timed : BOOLEAN, used_rugby : BOOLEAN]
    /\ sent \in [CtfClients -> Take \cup {NoTake}]

\* CarrierPlays: whoever carries a flag is on the server and alive, although
\* nothing but leavegame, died and dropflag keeps the flags in step with the
\* players.  ownflag and anticheat look an owner up without a check.
CarrierPlays == \A i \in Flags : flag[i].owner # NoClient => Alive(flag[i].owner)

\* OneFlagEach: nobody carries two flags, so that dropflag, scoreflag and the
\* search for the carried flag in takeflag mean the same one.
OneFlagEach == \A i, j \in Flags :
                  flag[i].owner # NoClient /\ flag[i].owner = flag[j].owner => i = j

\* RightTeam: in ctf nobody carries the flag of his own team, in protect nobody
\* another one, through every way to change the team or to hand over a flag.
RightTeam == \A i \in Flags : flag[i].owner # NoClient => TakesFlag(flag[i].owner, i)

\* DropperPresent: a number that a flag is barred for belongs to who dropped it
\* and not to a later client with the same number.
DropperPresent == \A i \in Flags : flag[i].dropper # NoClient =>
                     /\ flag[i].dropper \in CtfPresent
                     /\ flag[i].owner = NoClient /\ flag[i].drop # "off"

\* PlaceVersioned: whenever a flag is taken, dropped or returned its version
\* grows; only a new map starts the count again.
PlaceVersioned ==
    [][flag' # [i \in Flags |-> NewFlag] =>
         \A i \in Flags : Moved(i) => flag'[i].version > flag[i].version]_ctfvars

\* TakeIsFresh: takeflag gives a flag, a point or a return only for a message
\* that was sent after the flag last moved, on this map, however long it took.
TakeIsFresh ==
    [][\A c \in CtfClients :
         sent[c] # NoTake /\ sent'[c] = NoTake /\ c \in CtfPresent /\ fighter' = fighter /\ sent[c].stale
            => \A i \in Flags : ~Moved(i) /\ flag'[i].version = flag[i].version]_ctfvars

\* ScoreEarned: in ctf a team scores only when one of its players brings a flag
\* of the other team home, and no flag of that player's team that takeflag saw
\* was away.
ScoreEarned ==
    [][\A t \in CtfTeams : Mode = "ctf" /\ flagscores'[t] > flagscores[t] =>
         \E j \in Flags : /\ flag[j].owner # NoClient /\ flag'[j].owner = NoClient
                          /\ flag'[j].drop = "off"
                          /\ FlagTeam[j] # t /\ fighter[flag[j].owner].team = t
                          /\ \E i \in Flags : FlagTeam[i] = t /\ flag[i].owner = NoClient
                                              /\ flag[i].drop = "off"]_ctfvars

Scores(i) == \E t \in CtfTeams : flagscores'[t] > flagscores[t] /\ flag[i].owner # NoClient
                                                               /\ flag'[i].owner = NoClient

\* FlagrunHonest: the time that scoreflag reports for the flagrun records was
\* run by one player alone, or the report says that the flag had been passed.
FlagrunHonest ==
    [][\A i \in Flags : Scores(i) /\ report'.timed /\ ~report'.used_rugby
            => flag[i].helpers = {flag[i].owner}]_ctfvars

\* SlayFreesFlag: player_slay gets a flag off the player it kills.
SlayFreesFlag == [][\A c \in CtfClients : Slay(c) => \A i \in Flags : flag'[i].owner # c]_ctfvars

\* DroppedFlagReturns: a flag that lies somewhere is taken up or goes home, as
\* long as the game runs and somebody is on the server.
DroppedFlagReturns ==
    \A i \in Flags : flag[i].owner = NoClient /\ flag[i].drop # "off"
                        ~> flag[i].owner # NoClient \/ flag[i].drop = "off" \/ ~Running
=============================================================================
