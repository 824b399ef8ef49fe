------------------------------- MODULE Match -------------------------------
(***************************************************************************)
(* The course of a match (src/src/fpsgame/server.cpp): the clock of the    *)
(* game, the intermission, the votes and the rotation that choose the next *)
(* map, the pause, the demo that is recorded and the queue of packets that *)
(* delayed spectators still have to get.                                   *)
(*                                                                         *)
(* Time is counted in ticks.  One step is one handler of the server's only *)
(* thread: a call of update_server, a message of a client or a call of a   *)
(* Lua script.  Scripts listen to the events of the match and may call     *)
(* back; a script's call is a step of its own unless the code that raised  *)
(* the event looks at the result.                                          *)
(***************************************************************************)
EXTENDS Integers, Sequences, FiniteSets

CONSTANTS
    Clients,        \* players who may be present
    Maps,           \* maps that are voted for
    NoMap,          \* mapvote[0] = 0
    GameTime,       \* gamelimit of a new game
    IntermTime,     \* intermtime
    MaxLimit,       \* bound: gamelimit
    MaxDelay,       \* bound: spectator_delay
    MaxQueue        \* bound: length of delayed_sendpackets

ASSUME MatchAssumption ==
    /\ GameTime \in Nat /\ IntermTime \in Nat \ {0}
    /\ MaxLimit \in Nat /\ GameTime <= MaxLimit
    /\ MaxDelay \in Nat /\ MaxQueue \in Nat
    /\ NoMap \notin Maps

VARIABLES
    standing,           \* "absent"; "voter": plays or is privileged; "watcher"
    mapvote,            \* clientinfo::mapvote
    gamemillis, gamelimit,
    interm,             \* 0, the time at which the intermission ends, or -1
    gamepaused,
    timed,              \* m_timed: not the edit mode
    named,              \* smapname is not empty
    nextset,            \* next_gamemode and next_mapname are not empty
    shouldstep,
    demorecord,         \* a demo is being recorded
    demoffset,          \* gamemillis when the recording began
    demonextmatch,
    spectator_delay,
    delayed             \* delayed_sendpackets: ticks until each is due

clockvars == <<gamemillis, gamelimit, interm, gamepaused, timed, named>>
demovars  == <<demorecord, demoffset, demonextmatch>>
delayvars == <<spectator_delay, delayed>>
votevars  == <<standing, mapvote>>
mvars     == <<votevars, clockvars, nextset, shouldstep, demovars, delayvars>>

Present == {c \in Clients : standing[c] # "absent"}
Voters  == {c \in Clients : standing[c] = "voter"}

\* The clock stops to matter here: no intermission ends later.
Horizon == MaxLimit + IntermTime + MaxDelay + 2

MatchTypeOK ==
    /\ standing \in [Clients -> {"absent", "voter", "watcher"}]
    /\ mapvote \in [Clients -> Maps \cup {NoMap}]
    /\ gamemillis \in 0 .. Horizon
    /\ gamelimit \in 0 .. MaxLimit
    /\ interm \in -1 .. Horizon + IntermTime
    /\ {gamepaused, timed, named, nextset, shouldstep, demorecord, demonextmatch} \subseteq BOOLEAN
    /\ demoffset \in 0 .. Horizon
    /\ spectator_delay \in 0 .. MaxDelay
    /\ delayed \in Seq(0 .. MaxDelay) /\ Len(delayed) <= MaxQueue

\* The game is played: events are processed, items spawn, bots are checked.
Playing == ~timed \/ gamemillis < gamelimit

\* started(): the first rotation, which a script may leave without a map.
MatchInit ==
    /\ standing = [c \in Clients |-> "absent"]
    /\ mapvote = [c \in Clients |-> NoMap]
    /\ gamemillis = 0
    /\ named \in BOOLEAN
    /\ gamelimit = IF named THEN GameTime ELSE 0
    /\ interm = 0
    /\ gamepaused = FALSE
    /\ timed = TRUE
    /\ nextset = FALSE
    /\ shouldstep = TRUE
    /\ demorecord = FALSE /\ demoffset = 0 /\ demonextmatch = FALSE
    /\ spectator_delay = 0 /\ delayed = <<>>

-----------------------------------------------------------------------------
(* Changing the map                                                        *)

\* enddemorecord; demoffset means nothing while nothing is recorded.
EndDemoRecord == demorecord' = FALSE /\ demoffset' = 0

\* Mutant of StopDemo: the recording goes on.
StopDemo_Forgets == UNCHANGED <<demorecord, demoffset>>

\* stopdemo, as changemap calls it with the mode that ends.
StopDemo == EndDemoRecord

\* What changemap leaves in demorecord: a demo of the new game when one was
\* asked for; the edit mode is not recorded, and the file may fail to open.
NewDemo ==
    IF demonextmatch /\ timed'
    THEN /\ demonextmatch' = FALSE
         /\ \/ demorecord' = TRUE /\ demoffset' = 0
            \/ StopDemo
    ELSE demonextmatch' = FALSE /\ StopDemo

ChangeMap ==
    /\ gamepaused' = FALSE
    /\ gamemillis' = 0
    /\ gamelimit' \in {GameTime, 0}
    /\ interm' = 0
    /\ named' = TRUE
    /\ timed' \in BOOLEAN
    /\ mapvote' = [c \in Clients |-> NoMap]
    /\ NewDemo

\* The rotation has no map: interm stays at the -1 it was set to.
NoChange == /\ interm' = -1
            /\ UNCHANGED <<mapvote, gamepaused, gamelimit, timed, named,
                           demonextmatch>>

\* rotatemap: the listeners of setnextgame may name the next map.  modecode
\* takes a name it does not know for ffa, so that every name is good.
RotateMap(millis) ==
    \E answered \in BOOLEAN :
        IF nextset \/ answered
        THEN nextset' = FALSE /\ ChangeMap
        ELSE /\ gamemillis' = millis
             /\ NoChange
             /\ EndDemoRecord
             /\ UNCHANGED nextset

VotesFor(m, votes) == Cardinality({c \in Voters : votes[c] = m})

\* Some map has more votes than bound, and none has more than it.  Which of
\* the best wins (rnd(2)) makes no difference to what follows.
Passes(votes, bound) == \E m \in Maps : VotesFor(m, votes) > bound

\* checkvotes(false) passes: more than half of those who may vote.
CheckVotes(votes) == Passes(votes, Cardinality(Voters) \div 2)

-----------------------------------------------------------------------------
(* Clients                                                                 *)

\* connected: a client plays, or watches when the mastermode is locked.
Join(c) ==
    /\ standing[c] = "absent"
    /\ \E s \in {"voter", "watcher"} : standing' = [standing EXCEPT ![c] = s]
    /\ UNCHANGED <<mapvote, clockvars, nextset, shouldstep, demovars, delayvars>>

\* clientdisconnect.  The votes are not counted again.
Leave(c) ==
    /\ standing[c] # "absent"
    /\ standing' = [standing EXCEPT ![c] = "absent"]
    /\ mapvote' = [mapvote EXCEPT ![c] = NoMap]
    /\ UNCHANGED <<clockvars, nextset, shouldstep, demovars, delayvars>>

\* setspectator, or a privilege given or taken; a vote stays where it is.
ChangeStanding(c) ==
    /\ standing[c] # "absent"
    /\ standing' = [standing EXCEPT ![c] = IF @ = "voter" THEN "watcher" ELSE "voter"]
    /\ UNCHANGED <<mapvote, clockvars, nextset, shouldstep, demovars, delayvars>>

\* N_MAPVOTE and vote.  forced: a privileged client under veto or above.
Vote(c, m, forced) ==
    LET votes == [mapvote EXCEPT ![c] = m]
    IN  /\ standing[c] = "voter"
        /\ IF forced \/ CheckVotes(votes)
           THEN ChangeMap
           ELSE /\ mapvote' = votes
                /\ UNCHANGED <<clockvars, demovars>>
        /\ UNCHANGED <<standing, nextset, shouldstep, delayvars>>

-----------------------------------------------------------------------------
(* Scripts, and commands of privileged clients                             *)

\* server.changemap
ScriptChangeMap ==
    /\ ChangeMap
    /\ UNCHANGED <<standing, nextset, shouldstep, delayvars>>

\* Mutant of ChangeTime: more time reopens a game that is over.
ChangeTime_Reopens(remaining) ==
    /\ gamelimit' = gamemillis + remaining
    /\ gamelimit' <= MaxLimit
    /\ interm' = 0
    /\ UNCHANGED <<votevars, gamemillis, gamepaused, timed, named, nextset,
                   shouldstep, demovars, delayvars>>

\* changetime: in an intermission too, where the game is then played on.
ChangeTime(remaining) ==
    /\ gamelimit' = gamemillis + remaining
    /\ gamelimit' <= MaxLimit
    /\ UNCHANGED <<votevars, gamemillis, interm, gamepaused, timed, named,
                   nextset, shouldstep, demovars, delayvars>>

\* server.next_map and server.next_mode
SetNext(set) ==
    /\ nextset' = set
    /\ UNCHANGED <<votevars, clockvars, shouldstep, demovars, delayvars>>

\* pausegame: N_PAUSEGAME or a script.
PauseGame(val) ==
    /\ gamepaused # val
    /\ gamepaused' = val
    /\ UNCHANGED <<votevars, gamemillis, gamelimit, interm, timed, named, nextset,
                   shouldstep, demovars, delayvars>>

\* N_NEWMAP, which checktype lets through in the edit mode only.
NewMap ==
    /\ ~timed
    /\ named' = FALSE
    /\ UNCHANGED <<votevars, gamemillis, gamelimit, interm, gamepaused, timed,
                   nextset, shouldstep, demovars, delayvars>>

\* server.recorddemo
RecordDemo ==
    /\ ~demorecord
    /\ timed
    /\ demorecord' = TRUE
    /\ demoffset' = gamemillis
    /\ UNCHANGED <<votevars, clockvars, nextset, shouldstep, demonextmatch, delayvars>>

\* N_RECORDDEMO
RecordNext(val) ==
    /\ demonextmatch' = val
    /\ UNCHANGED <<votevars, clockvars, nextset, shouldstep, demorecord, demoffset,
                   delayvars>>

\* N_STOPDEMO and server.stopdemo
StopRecording ==
    /\ EndDemoRecord
    /\ UNCHANGED <<votevars, clockvars, nextset, shouldstep, demonextmatch, delayvars>>

\* server.spectator_delay
SetDelay(d) ==
    /\ spectator_delay' = d
    /\ UNCHANGED <<votevars, clockvars, nextset, shouldstep, demovars, delayed>>

-----------------------------------------------------------------------------
(* The delayed packets                                                     *)

\* Mutant of Delays: packets are queued during the intermission too.
Delays_Always == spectator_delay > 0

\* write_delayed_broadcast queues a packet.
Delays == spectator_delay > 0 /\ interm = 0

\* recordpacket: every packet to everybody, from whichever handler.
Broadcast ==
    /\ Delays
    /\ Len(delayed) < MaxQueue
    /\ delayed' = Append(delayed, spectator_delay)
    /\ UNCHANGED <<votevars, clockvars, nextset, shouldstep, demovars, spectator_delay>>

\* totalmillis goes on by elapsed.
Aged(elapsed) == [i \in DOMAIN delayed |-> IF delayed[i] > elapsed
                                           THEN delayed[i] - elapsed ELSE 0]

\* sendpackets: one packet that is due, and only while somebody is there.
SendPackets(elapsed) ==
    LET queue == Aged(elapsed)
    IN  delayed' = IF Present # {} /\ queue # <<>> /\ Head(queue) = 0
                   THEN Tail(queue) ELSE queue

-----------------------------------------------------------------------------
(* update_server: serverupdate, then sendpackets                           *)

\* checkintermission finds the time to be up.
TimeIsUp(millis, curtime) ==
    timed /\ named /\ millis > curtime /\ millis >= gamelimit /\ interm = 0

\* The queue is looked at before this call's sendpackets.
IntermissionOver(millis) ==
    /\ interm > 0
    /\ millis > interm + spectator_delay
    /\ delayed = <<>>

\* curtime: what gamemillis gains, 0 when the game is paused.
UpdateServer(elapsed) ==
    LET step    == shouldstep /\ ~gamepaused
        curtime == IF step THEN elapsed ELSE 0
        millis  == IF gamemillis + curtime < Horizon THEN gamemillis + curtime
                                                     ELSE Horizon
    IN  /\ \/ \* checkintermission, unless a listener of timeupdate gives more time
              /\ step /\ TimeIsUp(millis, curtime)
              /\ \/ interm' = millis + IntermTime /\ UNCHANGED gamelimit
                 \/ \E r \in 1 .. MaxLimit : /\ millis + r <= MaxLimit
                                             /\ gamelimit' = millis + r
                                             /\ UNCHANGED interm
              /\ gamemillis' = millis
              /\ UNCHANGED <<mapvote, gamepaused, timed, named, nextset, demovars,
                             spectator_delay>>
           \/ \* the intermission ends: checkvotes(true)
              /\ step /\ IntermissionOver(millis)
              /\ spectator_delay' = 0
              /\ IF Passes(mapvote, 1)
                 THEN ChangeMap /\ UNCHANGED nextset
                 ELSE RotateMap(millis)
           \/ /\ ~(step /\ (TimeIsUp(millis, curtime) \/ IntermissionOver(millis)))
              /\ gamemillis' = millis
              /\ UNCHANGED <<mapvote, gamelimit, interm, gamepaused, timed, named,
                             nextset, demovars, spectator_delay>>
        /\ shouldstep' = (Present # {})
        /\ SendPackets(elapsed)
        /\ UNCHANGED standing

MatchNext ==
    \/ \E elapsed \in 0 .. 1 : UpdateServer(elapsed)
    \/ \E c \in Clients : Join(c) \/ Leave(c) \/ ChangeStanding(c)
    \/ \E c \in Clients, m \in Maps, forced \in BOOLEAN : Vote(c, m, forced)
    \/ ScriptChangeMap \/ NewMap \/ RecordDemo \/ StopRecording \/ Broadcast
    \/ \E r \in 0 .. MaxLimit : ChangeTime(r)
    \/ \E b \in BOOLEAN : SetNext(b) \/ PauseGame(b) \/ RecordNext(b)
    \/ \E d \in 0 .. MaxDelay : SetDelay(d)

MatchSpec == MatchInit /\ [][MatchNext]_mvars

\* The timer calls update_server every 5 ms while somebody is connected.
MatchFairness == WF_mvars(UpdateServer(1))

MatchFairSpec == MatchSpec /\ MatchFairness

-----------------------------------------------------------------------------
(* Properties                                                              *)

\* A recording never looks back: gamemillis - demoffset, the stamp writedemo
\* gives the next packet, is not negative, so that a demo holds one game.
DemoStampsForward == demorecord => demoffset <= gamemillis

\* Every intermission ends, although its end waits for the queue of delayed
\* packets and sendpackets takes one of them at a time: with a new game, or
\* with none when the rotation has no map; unless the game is paused or
\* everybody leaves (serverupdate does not step then).
IntermissionEnds ==
    (interm > 0) ~> (interm = 0 \/ (interm = -1 /\ ~nextset) \/ gamepaused \/ Present = {})

\* The match as a cycle of games and intermissions.
Cycle == INSTANCE GameCycle WITH
    phase <- IF interm = 0 THEN "play" ELSE IF interm > 0 THEN "intermission" ELSE "over",
    clock <- IF interm = 0 THEN gamemillis
             ELSE IF interm > 0 THEN gamemillis - (interm - IntermTime) ELSE 0

\* Games and intermissions alternate: no second intermission in one game, none
\* that ends before its time without a map change, and no game that is taken up
\* again (checkintermission, changetime, checkvotes, changemap).
ImplementsGameCycle == Cycle!CycleSpec
=============================================================================
