------------------------------- MODULE Combat -------------------------------
(***************************************************************************)
(* Shots, deaths and spawns (src/src/fpsgame/server.cpp).  What a client   *)
(* says it did is queued and carried out later, when its time has come     *)
(* (flushevents), and a hit names the player it hits by a number and by    *)
(* lifesequence, a count of spawns modulo 128, "sequence id for each       *)
(* respawn, used in damage test" (src/src/fpsgame/game.h:585).  The server *)
(* offers a spawn and the client takes it with N_SPAWN, a message that may *)
(* be late.                                                                *)
(*                                                                         *)
(* An event that has no effect whenever it is processed (the gun is not    *)
(* ready, too far away, refused by a listener) is left out.                *)
(***************************************************************************)
EXTENDS Integers, Sequences, FiniteSets

CONSTANTS
    Players,        \* client numbers
    AiPlayers,      \* the client numbers that are bots
    LifeSequences,  \* 128
    MaxHealth,      \* hits that kill
    MaxProjectiles, \* size of a projectilestate
    MaxEvents,      \* addevent refuses when more than these wait
    Hunted,         \* the clients whose team a listener of event_frag may change
    ShiftAlive,     \* a bot that is alive gets another owner
    MaxOffers       \* bound: offers that a client has not answered

VARIABLES
    player,     \* gamestate of each client
    events,     \* clientinfo::events
    offers      \* lifesequence of each N_SPAWNSTATE that is not answered yet

fvars == <<player, events, offers>>

\* lastspawn: lastspawn >= 0; deadflush: deadflush # 0; deaths: those counted
\* since the life was offered.  hunted: a listener of event_frag will change the team
\* of this player when he is killed (hide_and_seek.lua, by_moving_players.lua).  The
\* script makes up its mind then; here it has when the life begins.
PlayerState == [state : {"gone", "spectator", "dead", "alive"},
                health : 0 .. MaxHealth, lifesequence : 0 .. LifeSequences - 1,
                lastspawn : BOOLEAN, deadflush : BOOLEAN,
                projectiles : 0 .. MaxProjectiles, deaths : 0 .. 2,
                hunted : BOOLEAN]

\* stale: the target has spawned since it was hit; the server does not know.
Hit == [target : Players, lifesequence : 0 .. LifeSequences - 1, stale : BOOLEAN]

\* rays: how often the hit is listed.
Event == [kind : {"shot", "explode"}, hit : Hit, rays : 1 .. 2]
         \cup [kind : {"launch", "suicide"}]

CombatTypeOK ==
    /\ player \in [Players -> PlayerState]
    /\ \A c \in Players : /\ events[c] \in Seq(Event) /\ Len(events[c]) <= MaxEvents + 1
                          /\ offers[c] \in Seq(0 .. LifeSequences - 1)

Absent == [state |-> "gone", health |-> MaxHealth, lifesequence |-> 0,
           lastspawn |-> FALSE, deadflush |-> FALSE, projectiles |-> 0, deaths |-> 0,
           hunted |-> FALSE]

CombatInit ==
    /\ player = [c \in Players |-> Absent]
    /\ events = [c \in Players |-> <<>>]
    /\ offers = [c \in Players |-> <<>>]

Names(e, t) == e.kind \in {"shot", "explode"} /\ e.hit.target = t

\* Bound: lifesequence does not come round to that of a hit that waits.
NoWrap(t) ==
    \A c \in Players : \A i \in DOMAIN events[c] :
        Names(events[c][i], t) =>
            events[c][i].hit.lifesequence # (player[t].lifesequence + 1) % LifeSequences

Plays(c) == player[c].state \in {"dead", "alive"}

-----------------------------------------------------------------------------
(* What happens to the state s of a player, or to w, those of all          *)

\* gamestate::respawn
Respawned(s) == [s EXCEPT !.health = MaxHealth, !.deadflush = FALSE, !.lastspawn = FALSE]

\* gamestate::reset
Reset(s) == [Respawned(s) EXCEPT !.projectiles = 0, !.deaths = 0, !.hunted = FALSE,
                                 !.state = IF @ = "alive" THEN "dead" ELSE @]

\* sendspawn, which nothing of the mode or of a script forbids.
Offered(s) == [s EXCEPT !.lastspawn = TRUE, !.lifesequence = (@ + 1) % LifeSequences,
                        !.deaths = 0, !.hunted = FALSE]

Fallen(s) == [s EXCEPT !.state = "dead", !.deaths = @ + 1]

\* dodamage with no health left.  A listener of event_frag that changes the team of
\* the victim makes him commit suicide while he is still CS_ALIVE (player_changeteam):
\* the life counts a second death, and he lies dead with his health restored.
Felled(s) ==
    IF s.hunted THEN [Fallen(Respawned([s EXCEPT !.deaths = @ + 1])) EXCEPT !.deadflush = TRUE]
    ELSE [Fallen(s) EXCEPT !.health = 0, !.deadflush = TRUE]

\* dodamage
Damaged(w, t) ==
    IF w[t].health > 1 THEN [w EXCEPT ![t].health = @ - 1]
    ELSE [w EXCEPT ![t] = Felled(@)]

\* Mutant of Suicided: who is dead dies once more.
Suicided_Again(w, c) == [w EXCEPT ![c] = Fallen(Respawned(@))]

\* suicide
Suicided(w, c) ==
    IF w[c].state # "alive" THEN w ELSE [w EXCEPT ![c] = Fallen(Respawned(@))]

\* Mutant of Counts: whoever is alive is hit.
Counts_AnyLife(w, h) == w[h.target].state = "alive"

\* The hit is one of the life that the target is in.
Counts(w, h) == /\ w[h.target].state = "alive"
                /\ h.lifesequence = w[h.target].lifesequence

Struck(w, h) == IF Counts(w, h) THEN Damaged(w, h.target) ELSE w

\* shotevent::process: each ray counts, unless the target has died of the last.
Shot(w, c, e) ==
    IF w[c].state \notin {"alive", "dead"} THEN w
    ELSE IF e.rays = 1 THEN Struck(w, e.hit) ELSE Struck(Struck(w, e.hit), e.hit)

\* projectilestate::add, which starts again when it is full.
Launched(w, c) ==
    IF w[c].state \notin {"alive", "dead"} THEN w
    ELSE [w EXCEPT ![c].projectiles = IF @ = MaxProjectiles THEN 1 ELSE @ + 1]

\* explodeevent::process: a projectile explodes once, and hits a target once;
\* who launched it need not be alive, nor a player any more.
Exploded(w, c, e) ==
    IF w[c].projectiles = 0 THEN w
    ELSE Struck([w EXCEPT ![c].projectiles = @ - 1], e.hit)

Process(w, c, e) ==
    CASE e.kind = "shot"    -> Shot(w, c, e)
      [] e.kind = "explode" -> Exploded(w, c, e)
      [] e.kind = "launch"  -> Launched(w, c)
      [] e.kind = "suicide" -> Suicided(w, c)

\* flushevents for the first n events of c.
Flush(w, c, n) ==
    LET flushed[k \in 0 .. n] ==
            IF k = 0 THEN w ELSE Process(flushed[k - 1], c, events[c][k])
    IN  flushed[n]

\* Where flushevents may stop: at an event that has a time.
Stops(c, n) == n <= Len(events[c]) /\ (n < Len(events[c]) => events[c][n + 1].kind # "suicide")

After(c, n) == SubSeq(events[c], n + 1, Len(events[c]))

\* cleartimedevents: explosions wait for their projectiles.
Keepable(s) ==
    LET kept[k \in 0 .. Len(s)] ==
            IF k = 0 THEN <<>>
            ELSE IF s[k].kind = "explode" THEN Append(kept[k - 1], s[k]) ELSE kept[k - 1]
    IN  kept[Len(s)]

-----------------------------------------------------------------------------
(* Messages of the clients                                                 *)

\* addevent
Queue(c, e) ==
    /\ Plays(c) /\ Len(events[c]) <= MaxEvents
    /\ events' = [events EXCEPT ![c] = Append(@, e)]
    /\ UNCHANGED <<player, offers>>

\* N_SHOOT and N_EXPLODE: c saw t alive, as it is now, when it shot.
Fire(c, t, kind, rays) ==
    /\ player[t].state = "alive" /\ (kind = "explode" => rays = 1)
    /\ Queue(c, [kind |-> kind, rays |-> rays,
                 hit |-> [target |-> t, lifesequence |-> player[t].lifesequence,
                          stale |-> FALSE]])

\* N_SHOOT with a rocket or a grenade.
Launch(c) == Queue(c, [kind |-> "launch"])

\* N_SUICIDE
Suicide(c) == Queue(c, [kind |-> "suicide"])

\* N_SWITCHTEAM, N_SETTEAM and player_changeteam: suicide, at once.  Inside
\* dodamage it is part of Felled.
SwitchTeam(c) ==
    /\ player[c].state = "alive"
    /\ player' = Suicided(player, c)
    /\ UNCHANGED <<events, offers>>

\* try_respawn: N_TRYSPAWN, or a script.
TryRespawn(c) ==
    /\ player[c].state = "dead" /\ ~player[c].lastspawn
    /\ Len(offers[c]) < MaxOffers /\ NoWrap(c)
    /\ \E n \in 0 .. Len(events[c]) :
          /\ IF player[c].deadflush THEN Stops(c, n) ELSE n = 0
          /\ LET flushed == Flush(player, c, n)
                 ready   == IF player[c].deadflush THEN Respawned(flushed[c]) ELSE flushed[c]
             IN  player' = [flushed EXCEPT ![c] = Offered(ready)]
          /\ events' = [events EXCEPT ![c] = Keepable(After(c, n))]
    /\ offers' = [offers EXCEPT ![c] = Append(@, player'[c].lifesequence)]

Takes(c, ls) == Plays(c) /\ ls = player[c].lifesequence /\ player[c].lastspawn

\* N_SPAWN
Spawn(c) ==
    /\ offers[c] # <<>>
    /\ offers' = [offers EXCEPT ![c] = Tail(@)]
    /\ IF Takes(c, Head(offers[c]))
       THEN /\ \E hunted \in BOOLEAN :
                 /\ hunted => c \in Hunted
                 /\ player' = [player EXCEPT ![c] = [@ EXCEPT !.state = "alive",
                                                     !.lastspawn = FALSE, !.hunted = hunted]]
            /\ events' = [d \in Players |-> [i \in DOMAIN events[d] |->
                             IF Names(events[d][i], c)
                             THEN [events[d][i] EXCEPT !.hit.stale = TRUE]
                             ELSE events[d][i]]]
       ELSE UNCHANGED <<player, events>>

-----------------------------------------------------------------------------
(* The server                                                              *)

\* The events of the clients in their order, the first n[c] of each.
FlushAll(order, n) ==
    LET processed[k \in 0 .. Cardinality(Players)] ==
            IF k = 0 THEN player ELSE Flush(processed[k - 1], order[k], n[order[k]])
    IN  processed[Cardinality(Players)]

\* The orders that the vector clients may have.
Orders == {order \in [1 .. Cardinality(Players) -> Players] :
              \A i, j \in 1 .. Cardinality(Players) : i # j => order[i] # order[j]}

\* processevents
ProcessEvents ==
    \E n \in [Players -> 0 .. MaxEvents + 1], order \in Orders :
        /\ \A c \in Players : Stops(c, n[c])
        /\ \E c \in Players : n[c] > 0
        /\ player' = FlushAll(order, n)
        /\ events' = [c \in Players |-> After(c, n[c])]
        /\ UNCHANGED offers

\* connected and sendwelcome; no score is restored.  No number is given again
\* while a hit on it waits: see the README.
Connected(c, how) ==
    /\ player[c].state = "gone"
    /\ \A d \in Players : \A i \in DOMAIN events[d] : ~Names(events[d][i], c)
    /\ IF how = "offered"
       THEN /\ player' = [player EXCEPT ![c] = Offered([Absent EXCEPT !.state = "dead"])]
            /\ offers' = [offers EXCEPT ![c] = <<1 % LifeSequences>>]
       ELSE /\ player' = [player EXCEPT ![c].state = how]
            /\ UNCHANGED offers
    /\ UNCHANGED events

\* clientdisconnect, and deleteai for a bot.
Disconnected(c) ==
    /\ player[c].state # "gone"
    /\ player' = [player EXCEPT ![c] = Absent]
    /\ events' = [events EXCEPT ![c] = <<>>]
    /\ offers' = [offers EXCEPT ![c] = <<>>]

\* setspectator: the events stay.
Spectate(c) ==
    /\ Plays(c) /\ c \notin AiPlayers
    /\ player' = [player EXCEPT ![c].state = "spectator"]
    /\ UNCHANGED <<events, offers>>

Unspectate(c) ==
    /\ player[c].state = "spectator"
    /\ player' = [player EXCEPT ![c] = [Respawned(@) EXCEPT !.state = "dead"]]
    /\ UNCHANGED <<events, offers>>

\* player_slay
Slay(c) ==
    /\ player[c].state = "alive"
    /\ player' = [player EXCEPT ![c].state = "dead"]
    /\ UNCHANGED <<events, offers>>

\* changemap
ChangeMap ==
    /\ \A c \in Players : Len(offers[c]) < MaxOffers
    /\ player' = [c \in Players |-> IF Plays(c) THEN Offered(Reset(player[c]))
                                    ELSE Reset(player[c])]
    /\ events' = [c \in Players |-> <<>>]
    /\ offers' = [c \in Players |-> IF Plays(c) THEN Append(offers[c], player'[c].lifesequence)
                                    ELSE offers[c]]

\* reinitai: a bot that got another owner, whom nobody has offered anything.
Reassign(b) ==
    /\ b \in AiPlayers /\ Plays(b) /\ (player[b].state = "alive" => ShiftAlive)
    /\ LET reassigned == [Respawned(player[b]) EXCEPT !.projectiles = 0]
       IN  IF player[b].state = "alive"
           THEN /\ player' = [player EXCEPT ![b] = Offered(reassigned)]
                /\ offers' = [offers EXCEPT ![b] = <<player'[b].lifesequence>>]
           ELSE /\ player' = [player EXCEPT ![b] = reassigned]
                /\ offers' = [offers EXCEPT ![b] = <<>>]
    /\ events' = [events EXCEPT ![b] = <<>>]

CombatNext ==
    \/ \E c, t \in Players, kind \in {"shot", "explode"}, rays \in 1 .. 2 : Fire(c, t, kind, rays)
    \/ \E c \in Players :
          \/ Launch(c) \/ Suicide(c) \/ SwitchTeam(c) \/ TryRespawn(c) \/ Spawn(c)
          \/ Disconnected(c) \/ Spectate(c) \/ Unspectate(c) \/ Slay(c) \/ Reassign(c)
          \/ \E how \in {"offered", "dead", "spectator"} : Connected(c, how)
    \/ ProcessEvents
    \/ ChangeMap

CombatSpec == CombatInit /\ [][CombatNext]_fvars

-----------------------------------------------------------------------------
(* Properties                                                              *)

\* What only a hit does to a player.
Suffers(s, r) == r.health < s.health \/ r.deaths > s.deaths + 1

\* Whoever loses health, or dies twice over of a hit, is hit in the very life in
\* which the shooter saw him, however long the event has waited and whoever died,
\* spawned, watched or was shifted meanwhile (flushevents, try_respawn, lifesequence).
HitsOwnLife ==
    [][\A t \in Players : Suffers(player[t], player'[t]) =>
            \E c \in Players : \E i \in DOMAIN events[c] :
               Names(events[c][i], t) /\ ~events[c][i].hit.stale]_fvars

\* A life is lived with health left and ends once: nobody comes alive without
\* health, and no life counts two deaths, whichever of several hits, explosions
\* and suicides in one flush killed him (dodamage, suicide), unless a listener of
\* event_frag changes his team: then it counts two, and no more.
DiesOnce ==
    \A c \in Players :
        /\ player[c].state = "alive" => player[c].health > 0 /\ player[c].deaths = 0
        /\ player[c].deaths <= IF player[c].hunted THEN 2 ELSE 1
=============================================================================
