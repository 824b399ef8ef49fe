------------------------------ MODULE AiManager ------------------------------
(***************************************************************************)
(* The bots of the server (aiman in src/src/fpsgame/aiman.h).              *)
(*                                                                         *)
(* A bot is a client of the game that some player's machine computes, its  *)
(* owner.  The server keeps that twice: the bot has the owner's number, the *)
(* owner has a list of its bots.  Players come, go, watch, gain and lose    *)
(* privileges and teams; each of these handlers shifts bots at once or only *)
(* sets dorefresh, and the next checkai puts right what is left: it evens   *)
(* the teams, deletes the bots that nobody owns, tells the clients who owns *)
(* which, and spreads the bots over the players.                            *)
(*                                                                         *)
(* Which client comes first in the vector "clients" is left open wherever   *)
(* only that order decides who gets a bot.                                  *)
(***************************************************************************)
EXTENDS Naturals, FiniteSets

CONSTANTS
    Humans,     \* client numbers of those that are no bots
    MaxBots,    \* MAXBOTS
    AiTeams,    \* "good" and "evil"; one is enough where no mode has teams
    Limits,     \* the values of botlimit that the configuration and admins use
    NoOwner,    \* ownernum -1
    NoBot,      \* an empty place in the vector "bots"
    Modes,      \* the modes that are played: "team", "ffa", "nobots"
    Reuse,      \* a bot may be added while another waits for its removal
    Unsetting   \* a script uses unsetmaster

ASSUME AiAssumption ==
    /\ IsFiniteSet(Humans) /\ NoOwner \notin Humans
    /\ MaxBots \in Nat /\ Limits \subseteq 0 .. MaxBots
    /\ AiTeams \subseteq {"good", "evil"} /\ "good" \in AiTeams
    /\ Modes \subseteq {"team", "ffa", "nobots"} /\ Modes # {}
    /\ Reuse \in BOOLEAN /\ Unsetting \in BOOLEAN

\* Numbers from MAXCLIENTS on; the last one is out of range.
BotIds == 0 .. MaxBots

VARIABLES
    human,      \* what validaiclient and calcteams look at
    bot,        \* vector "bots"
    runs,       \* clientinfo::bots of each player
    botlimit,
    botbalance,
    dorefresh,
    mode,       \* gamemode: m_teammode, m_botmode
    stopped     \* paused, intermission or demo: serverupdate skips checkai

aivars == <<human, bot, runs, botlimit, botbalance, dorefresh, mode, stopped>>

settings == <<botlimit, botbalance, mode, stopped>>

Human == [state : {"gone", "player", "spectator"},
          priv : {"none", "master", "admin"}, spy : BOOLEAN, team : AiTeams]

\* told: the owner that the last N_INITAI named; reinit: aireinit is 2.
Bot == [owner : Humans \cup {NoOwner}, told : Humans \cup {NoOwner},
        reinit : BOOLEAN, team : AiTeams \cup {""}]

ASSUME NoBotAssumption == NoBot \notin Bot

Gone == [state |-> "gone", priv |-> "none", spy |-> FALSE, team |-> "good"]

HumansHere == {h \in Humans : human[h].state # "gone"}
Privileged == {h \in HumansHere : human[h].priv # "none"}
Bots       == {b \in BotIds : bot[b] # NoBot}
OwnedBots  == {b \in Bots : bot[b].owner # NoOwner}

\* validaiclient; nothing sets "warned".
Valid == {h \in HumansHere : /\ human[h].state = "spectator" => human[h].priv # "none"
                             /\ ~human[h].spy}

Load(h) == Cardinality(runs[h])

Size(t) == Cardinality({h \in Humans : human[h].state = "player" /\ human[h].team = t})
           + Cardinality({b \in Bots : bot[b].team = t})

\* Bot b is shifted to the owner o, or to nobody.
Shifted(b, o) == [owner |-> o, told |-> bot[b].told, reinit |-> o # NoOwner, team |-> bot[b].team]

-----------------------------------------------------------------------------
(* What the handlers share                                                 *)

\* findaiclient: a player with the fewest bots.
Heirs(S) == IF S = {} THEN {NoOwner} ELSE {h \in S : \A k \in S : Load(h) <= Load(k)}

\* The bots S go one by one to whoever of "heirs" has the fewest.
Spread(S, heirs, heir) ==
    LET after(k) == Load(k) + Cardinality({b \in S : heir[b] = k})
    IN  heirs # {} => \A b \in S, k \in heirs : after(heir[b]) <= after(k) + 1

\* shiftai for each bot of h.
Rehome(h) ==
    \E heir \in [runs[h] -> IF Valid \ {h} = {} THEN {NoOwner} ELSE Valid \ {h}] :
        /\ Spread(runs[h], Valid \ {h}, heir)
        /\ runs' = [k \in Humans |-> IF k = h THEN {}
                                     ELSE runs[k] \cup {b \in runs[h] : heir[b] = k}]
        /\ bot' = [b \in BotIds |-> IF b \in runs[h] THEN Shifted(b, heir[b]) ELSE bot[b]]

\* Mutant of RemoveAi: the refresh is forgotten.
RemoveAi_NoRefresh(h) == Rehome(h) /\ UNCHANGED dorefresh

\* removeai: each bot of h is shifted to another player, or is left ownerless.
RemoveAi(h) == Rehome(h) /\ dorefresh' = (dorefresh \/ runs[h] # {})

\* Mutant of DeleteAi: the bot stays in its owner's list.
DeleteAi_KeepsListed(S) ==
    /\ bot' = [b \in BotIds |-> IF b \in S THEN NoBot ELSE bot[b]]
    /\ UNCHANGED runs

\* deleteai for each bot of S: the owner is looked up by the number in the bot.
DeleteAi(S) ==
    /\ bot' = [b \in BotIds |-> IF b \in S THEN NoBot ELSE bot[b]]
    /\ runs' = [h \in Humans |-> runs[h] \ {b \in S : bot[b].owner = h}]

Refresh == dorefresh' = TRUE

NoRefresh == UNCHANGED <<bot, runs, dorefresh>>

-----------------------------------------------------------------------------
(* Players                                                                 *)

AiInit ==
    /\ human = [h \in Humans |-> Gone]
    /\ bot = [b \in BotIds |-> NoBot]
    /\ runs = [h \in Humans |-> {}]
    /\ botlimit \in Limits
    /\ botbalance = TRUE
    /\ dorefresh = FALSE
    /\ mode \in Modes
    /\ stopped = FALSE

\* connected
AiJoin(h, state, team) ==
    /\ h \notin HumansHere
    /\ human' = [human EXCEPT ![h] = [Gone EXCEPT !.state = state, !.team = team]]
    /\ Refresh
    /\ UNCHANGED <<bot, runs, settings>>

\* Mutant of AiLeave: the refresh that follows is forgotten.
AiLeave_NoRefresh(h) ==
    /\ h \in HumansHere
    /\ human' = [human EXCEPT ![h] = Gone]
    /\ Rehome(h)
    /\ UNCHANGED <<dorefresh, settings>>

\* clientdisconnect.  When the last client of all goes no bot is left.
AiLeave(h) ==
    /\ h \in HumansHere
    /\ human' = [human EXCEPT ![h] = Gone]
    /\ Rehome(h)
    /\ dorefresh' = (dorefresh \/ HumansHere # {h} \/ Bots # {})
    /\ UNCHANGED settings

\* setspectator(h, true)
AiSpectate(h) ==
    /\ human[h].state = "player"
    /\ human' = [human EXCEPT ![h].state = "spectator"]
    /\ IF human[h].priv = "none" THEN RemoveAi(h) ELSE NoRefresh
    /\ UNCHANGED settings

\* setspectator(h, false)
AiUnspectate(h) ==
    /\ human[h].state = "spectator" /\ ~human[h].spy
    /\ human' = [human EXCEPT ![h].state = "player"]
    /\ Refresh
    /\ UNCHANGED <<bot, runs, settings>>

\* N_SWITCHTEAM, N_SETTEAM, player_changeteam
AiSwitchTeam(h, team) ==
    /\ mode = "team" /\ h \in HumansHere /\ human[h].team # team
    /\ human' = [human EXCEPT ![h].team = team]
    /\ Refresh
    /\ UNCHANGED <<bot, runs, settings>>

\* N_SETTEAM, player_changeteam of a bot: nothing is refreshed.
SetBotTeam(b, team) ==
    /\ mode = "team" /\ b \in Bots /\ bot[b].team # team
    /\ bot' = [bot EXCEPT ![b].team = team]
    /\ UNCHANGED <<human, runs, dorefresh, settings>>

\* N_SETTEAM of a player that smode, a script or the flood limit refuses.
SetTeamRefused ==
    /\ mode = "team" /\ Privileged # {} /\ ~dorefresh
    /\ Refresh
    /\ UNCHANGED <<human, bot, runs, settings>>

\* set_player_privilege
Raise(h, priv) ==
    /\ h \in HumansHere /\ priv # "none" /\ human[h].priv # priv
    /\ human' = [human EXCEPT ![h].priv = priv]
    /\ NoRefresh
    /\ UNCHANGED settings

\* unset_player_privilege
AiRelinquish(h) ==
    /\ h \in Privileged
    /\ human' = [human EXCEPT ![h].priv = "none"]
    /\ IF human[h].state = "spectator" THEN RemoveAi(h) ELSE NoRefresh
    /\ UNCHANGED settings

\* unsetmaster
AiUnsetMaster ==
    /\ Unsetting
    /\ \E h \in Privileged : human[h].priv = "master"
    /\ human' = [h \in Humans |-> IF human[h].priv = "master"
                                  THEN [human[h] EXCEPT !.priv = "none"] ELSE human[h]]
    /\ NoRefresh
    /\ UNCHANGED settings

\* set_spy(h, true): setspectator first.
AiEnterSpy(h) ==
    /\ h \in HumansHere /\ ~human[h].spy
    /\ human' = [human EXCEPT ![h] = [@ EXCEPT !.state = "spectator", !.spy = TRUE,
                                               !.priv = "admin"]]
    /\ IF human[h].state = "player" /\ human[h].priv = "none" THEN RemoveAi(h) ELSE NoRefresh
    /\ UNCHANGED settings

\* set_spy(h, false): with an open mastermode h plays at once.
AiLeaveSpy(h, open) ==
    /\ human[h].spy
    /\ human' = [human EXCEPT ![h].spy = FALSE,
                              ![h].state = IF open THEN "player" ELSE human[h].state]
    /\ dorefresh' = (dorefresh \/ open)
    /\ UNCHANGED <<bot, runs, settings>>

-----------------------------------------------------------------------------
(* Bots                                                                    *)

\* Mutant of Room: one too many.
Room_OneMore(limit) == Cardinality(OwnedBots) <= limit

\* numai < maxai
Room(limit) == Cardinality(OwnedBots) < limit

\* chooseteam
Smallest == IF mode = "team" THEN {t \in AiTeams : \A u \in AiTeams : Size(t) <= Size(u)} ELSE {""}

\* Mutant of AddBot: the owner is not told to its list.
AddBot_Unlisted(b, o, team) ==
    /\ bot' = [bot EXCEPT ![b] = [owner |-> o, told |-> NoOwner, reinit |-> TRUE, team |-> team]]
    /\ UNCHANGED runs

AddBot(b, o, team) ==
    /\ bot' = [bot EXCEPT ![b] = [owner |-> o, told |-> NoOwner, reinit |-> TRUE, team |-> team]]
    /\ runs' = [h \in Humans |-> IF h = o THEN runs[h] \cup {b} ELSE runs[h]]

\* The place of a bot that was going to be removed.
ReuseBot(b, o) ==
    /\ Reuse
    /\ bot' = [bot EXCEPT ![b] = [@ EXCEPT !.owner = o, !.reinit = TRUE]]
    /\ UNCHANGED runs

\* addai: the first place that is empty or whose bot has no owner.
AddAi(limit) ==
    /\ Room(limit)
    /\ \E b \in BotIds \ OwnedBots, o \in Heirs(Valid), team \in Smallest :
          /\ \A d \in BotIds \ OwnedBots : b <= d
          /\ IF b \in Bots THEN ReuseBot(b, o) ELSE AddBot(b, o, team)
    /\ Refresh
    /\ UNCHANGED <<human, settings>>

\* N_ADDBOT: a master adds up to botlimit, an admin up to MAXBOTS.
ReqAdd == \E h \in Privileged :
              AddAi(IF human[h].priv = "admin" THEN MaxBots ELSE botlimit)

\* server.addbot, run from the event loop.
ExecuteAddBot == AddAi(MaxBots)

\* N_DELBOT: the last bot that has an owner.
ReqDel ==
    /\ Privileged # {}
    /\ \E b \in OwnedBots : (\A d \in OwnedBots : d <= b) /\ DeleteAi({b})
    /\ Refresh
    /\ UNCHANGED <<human, settings>>

\* server.deletebot, run from the event loop: whatever bot has that number by then.
ExecuteDeleteBot(b) ==
    /\ b \in Bots
    /\ DeleteAi({b})
    /\ Refresh
    /\ UNCHANGED <<human, settings>>

\* setbotlimit, setbotbalance; a script that sets the variable refreshes nothing.
SetBots(limit, balance, refresh) ==
    /\ <<limit, balance>> # <<botlimit, botbalance>>
    /\ botlimit' = limit /\ botbalance' = balance
    /\ dorefresh' = (dorefresh \/ refresh)
    /\ UNCHANGED <<human, bot, runs, mode, stopped>>

\* changemap: clearai, then aiman::changemap.
AiChangeMap(m) ==
    /\ DeleteAi(Bots)
    /\ mode' = m
    /\ botbalance' = (botbalance \/ Privileged = {})
    /\ stopped' = FALSE
    /\ Refresh
    /\ UNCHANGED <<human, botlimit>>

\* pausegame, or the time is over.
Stop(on) ==
    /\ stopped # on
    /\ stopped' = on
    /\ UNCHANGED <<human, bot, runs, botlimit, botbalance, dorefresh, mode>>

-----------------------------------------------------------------------------
(* checkai                                                                 *)

\* balanceteams: "moved" go from the larger team to the other one, one by one,
\* until the sizes differ by one at most or the larger team has no bot left.
Evens(moved, from, to) ==
    LET k == Cardinality(moved) IN
    /\ Size(from) >= Size(to) /\ \A b \in moved : bot[b].team = from
    /\ k > 0 => Size(from) - (k - 1) > Size(to) + (k - 1) + 1
    /\ \/ Size(from) - k <= Size(to) + k + 1
       \/ \A b \in Bots : bot[b].team = from => b \in moved

\* Mutant of Settle: a deletion is not followed by another refresh.
Settle_DeletesLast(deleted, shifted) == dorefresh' = shifted

\* deleteai and shiftai ask for another round.
Settle(deleted, shifted) == dorefresh' = (deleted \/ shifted)

\* Mutant of Even: a difference of one is not enough.
Even_Exactly(load) == \A h, k \in Valid : load[h] <= load[k]

\* reassignai has nothing to do.
Even(load) == \A h, k \in Valid : load[h] <= load[k] + 1

\* reassignai until it has nothing to do: "owner" for each bot of a valid player.
Reassigned(owner) ==
    LET mine(h) == {b \in DOMAIN owner : owner[b] = h}
        gives == {h \in Valid : ~(runs[h] \subseteq mine(h))}
        takes == {h \in Valid : ~(mine(h) \subseteq runs[h])}
    IN  IF Even([h \in Valid |-> Load(h)]) THEN gives \cup takes = {}
        ELSE /\ Even([h \in Valid |-> Cardinality(mine(h))])
             /\ \A h \in gives, k \in takes : Cardinality(mine(h)) >= Cardinality(mine(k))
             /\ gives \cap takes = {}

\* balanceteams, reinitai for each bot, reassignai.
CheckSetup(moved, to) ==
    LET deleted == Bots \ OwnedBots
        kept    == UNION {runs[h] : h \in Valid}
    IN \E owner \in [kept -> Valid] :
        /\ Reassigned(owner)
        /\ runs' = [h \in Humans |-> IF h \in Valid THEN {b \in kept : owner[b] = h} ELSE runs[h]]
        /\ bot' = [b \in BotIds |->
             IF b \notin OwnedBots THEN NoBot
             ELSE LET o == IF b \in kept THEN owner[b] ELSE bot[b].owner IN
                  [owner  |-> o,
                   told   |-> IF bot[b].reinit THEN bot[b].owner ELSE bot[b].told,
                   reinit |-> o # bot[b].owner,
                   team   |-> IF b \in moved THEN to ELSE bot[b].team]]
        /\ Settle(deleted # {}, \E b \in kept : owner[b] # bot[b].owner)

CheckAi ==
    /\ dorefresh /\ ~stopped
    /\ IF mode # "nobots" /\ \E h \in HumansHere : ~human[h].spy
       THEN IF mode = "team" /\ botbalance
            THEN \E from, to \in AiTeams, moved \in SUBSET Bots :
                    from # to /\ Evens(moved, from, to) /\ CheckSetup(moved, to)
            ELSE CheckSetup({}, "")
       ELSE DeleteAi(Bots) /\ dorefresh' = (Bots # {})
    /\ UNCHANGED <<human, settings>>

-----------------------------------------------------------------------------
AiNext ==
    \/ \E h \in Humans :
        \/ \E state \in {"player", "spectator"}, t \in AiTeams : AiJoin(h, state, t)
        \/ AiLeave(h) \/ AiSpectate(h) \/ AiUnspectate(h)
        \/ \E t \in AiTeams : AiSwitchTeam(h, t)
        \/ \E p \in {"master", "admin"} : Raise(h, p)
        \/ AiRelinquish(h) \/ AiEnterSpy(h)
        \/ \E open \in BOOLEAN : AiLeaveSpy(h, open)
    \/ \E b \in BotIds, t \in AiTeams : SetBotTeam(b, t)
    \/ SetTeamRefused
    \/ AiUnsetMaster
    \/ ReqAdd \/ ExecuteAddBot \/ ReqDel
    \/ \E b \in BotIds : ExecuteDeleteBot(b)
    \/ \E limit \in Limits, balance, refresh \in BOOLEAN : SetBots(limit, balance, refresh)
    \/ \E m \in Modes : AiChangeMap(m)
    \/ \E on \in BOOLEAN : Stop(on)
    \/ CheckAi

AiSpec == AiInit /\ [][AiNext]_aivars

\* The update timer fires while a client, a bot included, is on the server.
AiFairSpec == AiSpec /\ WF_aivars(CheckAi)

-----------------------------------------------------------------------------
(* Properties                                                              *)

\* AiTypeOK: the state is made of the values the code stores, and no bot has a
\* number beyond MAXCLIENTS + MAXBOTS, where the numbers of the spies begin.
AiTypeOK ==
    /\ human \in [Humans -> Human]
    /\ bot \in [BotIds -> Bot \cup {NoBot}] /\ bot[MaxBots] = NoBot
    /\ runs \in [Humans -> SUBSET BotIds]
    /\ botlimit \in Limits /\ botbalance \in BOOLEAN
    /\ dorefresh \in BOOLEAN /\ mode \in Modes /\ stopped \in BOOLEAN

\* NoDanglingBot: what is in a player's list is a bot, and that player's: deleteai
\* frees a bot after looking up only the owner whose number the bot has.
NoDanglingBot == \A h \in Humans : \A b \in runs[h] : b \in Bots /\ bot[b].owner = h

\* OwnersRun: a bot that names an owner is in that player's list, so that
\* removeai shifts it, reassignai counts it and the pings reach it; and nobody
\* owns one who may not run bots (validaiclient), but a spy, who keeps them.
OwnersRun == \A b \in OwnedBots : LET h == bot[b].owner
                                IN  h \in HumansHere /\ b \in runs[h] /\ (h \in Valid \/ human[h].spy)

\* Settled: when checkai has nothing left to do every bot has an owner, all
\* clients know which, and no player runs two bots more than another one.
Settled ==
    ~dorefresh =>
        /\ \A b \in Bots : bot[b].owner # NoOwner /\ bot[b].told = bot[b].owner
        /\ \A h, k \in Humans : human[h].state = "player" /\ human[k].state = "player"
                                    => Load(h) <= Load(k) + 1

\* TeamsEvened: when checkai is content the teams differ by one at most, or the
\* larger one has no bot that could be moved.
TeamsEvened ==
    [][CheckAi /\ ~dorefresh' /\ mode = "team" /\ botbalance /\ Bots' # {} =>
         \A t, u \in AiTeams : Size(t)' > Size(u)' + 1 => \A b \in Bots' : bot'[b].team # t]_aivars

\* RemovalDecides: removeai leaves no bot with the client that goes.
RemovalDecides ==
    [][\A h \in Humans : AiLeave(h) => \A b \in Bots' : bot'[b].owner # h]_aivars

\* RefreshSettles: left alone, checkai comes to an end: what deleteai and shiftai
\* ask for again is soon nothing.
RefreshSettles == <>[][CheckAi]_aivars /\ <>[]~stopped => <>[]~dorefresh

\* BotsFollow: the bots go when the last human has gone.
BotsFollow == HumansHere = {} ~> Bots = {} \/ HumansHere # {} \/ stopped
=============================================================================
