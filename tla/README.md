# zuckerserv: TLA+ models, model checking and proofs

zuckerserv is a game server for Sauerbraten (Cube 2), a fork of the HopMod / SuckerServ line.
It is one process with one thread: an asio event loop (`src/src/engine/server.cpp`) that
serves an ENet host, a 5 ms update timer and whatever the Lua scripts post to it.  On top of
the loop sit the game (`src/src/fpsgame`), the bindings that expose the game to Lua
(`src/src/hopmod`), a few network modules, and the scripts (`src/script`).

Nothing in it runs in parallel.  What makes it hard is the order in which handlers run:
packets of many clients, ENet connects and disconnects, timers, work posted to the loop,
callbacks that call back into the game while it is in the middle of a handler, and slots and
numbers that are reused while something still names their former owner.

## 1. Inventory

### 1.1 Components, state, operations

| component | where | state | operations |
|---|---|---|---|
| Engine: event loop, client slots | `engine/server.cpp` | vector of slots (`ST_EMPTY`, `ST_TCPIP`), peers, timers | `addclient`, `delclient`, `disconnect_client`, `serverhost_process_event`, `update_server` |
| Admission | `fpsgame/server.cpp` (`clientconnect`, `clientdisconnect`, `allowconnect`, `connected`, N_CONNECT), `hopmod/server_functions.cpp` (`disconnect`, `player_join_game`) | `connects`, `clients`, `maxclients`, `reservedslots`, `reservedslots_use`, `spies`, posted tasks | connect, N_CONNECT, auth answer, 15 s timeout, posted disconnection, leave |
| Spy mode | `fpsgame/server.cpp` (`set_spy`, `getinfo`, `real_cn`) | `spies`, `clientnum` of a spy | enter, leave, disconnect |
| Capture the flag | `fpsgame/ctf.h` | `flags[]` (owner, dropper, times, version), team scores | take, drop, try-drop, return, score, pass (rugby), update, leave, die, change team |
| Bots | `fpsgame/aiman.h` | `bots`, `clientinfo::bots`, `ownernum`, `aireinit`, limits | add, delete, assign, remove, reassign, checkai |
| Match | `fpsgame/server.cpp` (`changemap`, `serverupdate`, `startintermission`, votes, demo) | `gamemillis`, `gamelimit`, `interm`, `gamepaused`, votes, demo recording | change map, pause, vote, end, intermission, rotate |
| Mastermode and privileges | `server_functions.cpp`, N_MASTERMODE, N_SETMASTER, N_SPECTATOR, N_PAUSEGAME | `privilege`, `mastermode`, `allowedips`, `gamepaused` | claim, grant, relinquish, change mode, kick, spectate |
| Events and combat | `fpsgame/server.cpp` (`gameevent`, `flushevents`, `dodamage`, `try_respawn`) | event queue per client, `lifesequence`, health, frags, projectiles | shot, explode, suicide, pickup, spawn |
| Positions and messages | `fpsgame/server.cpp` (`buildworldstate`, `sendpackets`, delayed broadcast) | world states with reference counts, per client buffers, delayed queue | queue, build, send, clean |
| Capture, collect | `fpsgame/capture.h`, `fpsgame/collect.h` | bases, tokens, team scores | enter, leave, capture, deposit, drop |
| Scores, teams, items | `fpsgame/server.cpp` | `scores`, `teaminfos`, `sents` | save, restore, respawn |
| Anticheat, extinfo | `fpsgame/anticheat.h`, `fpsgame/extinfo.h` | counters per client | classify packets, answer queries |
| Bans | `hopmod/netbans.cpp`, `prefix_tree`, `kickban.lua`, `bans` | tree of networks, undo stack | add, delete, push, pop, check |
| Lua runtime | `hopmod/lua*.cpp`, `events.cpp`, `scheduler.cpp`, `base/event.lua`, `event_emitter.lua`, `deferred.lua` | listeners, timers, deferreds | add, remove, trigger, sleep, interval, cancel |
| Master authentication | `masterauth/core.lua`, `client.lua`, `masterauth/server` | requests by id, per client state, connection to the domain's server | challenge, answer, complete, time out, cancel |
| Scripts | `script/modules-available`, `script/commands-available` | per module | balance, votes, stats, irc, map rotation ... |
| authserver, monitor | `src/src/authserver`, `src/src/standalone` | sockets, users | separate programs |

### 1.2 How the parts interact

* **Engine and game.** ENet events reach the game as calls of `clientconnect`, `process`
  and `clientdisconnect` with the number of a slot.  The slot vector is recycled at once; the
  game keeps its `clientinfo` in `connects` or `clients` and finds it again by that number.
* **Game and scripts.** The game fires events (`event_connecting`, `event_damage`,
  `event_takeflag`, ...) in the middle of its handlers; listeners may veto, and may call back
  into the game through the bindings.  Bindings that would pull the rug from under the running
  handler (`disconnect`, `addbot`, `deletebot`) are posted to the event loop and run later.
* **Game and mode.** `smode` points to the flag, base or token mode.  The game tells it of
  spawns, deaths, team changes and departures; it tells the game of scores.
* **Game and bots.** Handlers call `aiman` to shift bots at once, or set `dorefresh` for the
  next update.  A bot is a client like any other to the mode and to the scripts.
* **Admission and authentication.** A client that is refused may be referred to a domain; the
  Lua module `masterauth` asks it and later calls `player_join_game` or
  `player_reject_join_game` with the client's number.

### 1.3 What is hard, and what makes each component correct

| component | hard because | correct when |
|---|---|---|
| Admission | three counters that nothing recomputes; answers, timeouts and posted work race with the client's leaving; slots and numbers are used again | no place is lost or made up; the capacity is never exceeded; every client that connects is let in or sent away; a late action hits the session it was meant for |
| Spy mode | a spy's number is its position in a vector that moves | the count of spies is right; a number leads to its own spy |
| Capture the flag | the owner of a flag is a bare number; some twelve handlers must tell the mode; messages arrive after the flag has moved | who carries plays, alive and in the right team; a message acts only on the flag its sender saw; a dropped flag comes back |
| Bots | owner kept twice; work left to the next refresh; the refresh asks for itself again | the two records agree; when nothing is left to do every bot is owned, told and spread evenly; the refreshes end |
| Match | several clocks, votes and listeners end or restart a game from inside each other | one intermission per game, and every intermission ends in a new map |
| Mastermode and privileges | the same state is reset by leaving, by scripts and by commands | no mode or pause outlives the last master when `reset_mm` is set |
| Events and combat | events are queued with the sender's clock and handled later, when the player may have died or respawned | an event acts only on the life it was sent in |
| Positions and messages | one buffer is shared by many packets and freed by ENet | freed once, after the last packet |
| Bans | undo by a stack, erasure while iterating | merging keeps exactly the persistent and the confirmed bans |
| Lua runtime | listeners come and go while events are dispatched | each listener that stays is called once per event, and the one that is removed is the one that was named |
| Master authentication | a request outlives its client; numbers are used again | each request is completed once, for the client that made it |

### 1.4 Status

| part | modules | proofs |
|---|---|---|
| admission, spies | `Admission`, abstract `SlotPool` | `AdmissionProofs` |
| ctf, protect, hold, rugby | `Ctf` | `CtfProofs` |
| bots | `AiManager` | `AiManagerProofs` |
| match, votes, demos, delayed packets | `Match`, abstract `GameCycle` | `MatchProofs` |
| privileges, mastermode, pause | `Mastermode` | `MastermodeProofs` |
| capture | `Capture` | `CaptureProofs` |
| collect | `Collect` | `CollectProofs` |
| positions and messages | `WorldState` | `ServerProofs` |
| events, damage, respawn | `Combat` | `ServerProofs` |

The rest is planned (section 7) or left out (section 8).

## 2. Modules and how they correspond to the code

Every handler runs to its end before the next one starts, so one handler is one action, with
all the calls it makes.  Which definition stands for which lines is listed in `PROJECT.json`
under `map`.  Definitions named `X_Something` before a definition `X` are mutants: what `X`
would be with a plausible mistake in the code.  They are used to see that a property notices.

### 2.1 Admission

State: `client[slot]` (the engine's slot and the game's `clientinfo` in one record), `spies`,
`maxclients`, `reservedslots`, `reservedslots_use`, and `tasks`, the disconnections posted to
the loop.  `phase` says which vector the client is in: `pending` and `auth` are in `connects`
(without and with `connectauth`), `joined` is in `clients`.

| action | code |
|---|---|
| `ClientConnect` | ENet connect, `clientconnect` |
| `ConnectRequest` | N_CONNECT: `setmaster.lua` on event_connecting, `allowconnect` in its order (reserved place, capacity, password, mastermode), `connected` or `disconnect_client`, or the referral to a domain |
| `AuthAnswer` | `player_join_game`, `player_reject_join_game` |
| `GrowLate`, `ConnectTimeout` | 15 s pass; the loop over `connects` in `serverupdate` |
| `Disconnect`, `ExecuteDisconnect` | the binding that posts, and the posted call with its session check |
| `PeerGone` | ENet disconnect, `clientdisconnect` |
| `SetSpectator`, `EnterSpy`, `LeaveSpy` | `setspectator`, `set_spy` and its `/spy` command |

Abstractions: passwords are kinds of login; hosts, bans and scripts' vetoes are a choice of the
environment; mastermode and the list of invited addresses are inputs.  A session number is
drawn from 24 bits; the model takes fresh ones, so a collision of two draws is left out.
`clientconnect` that refuses at once (DISC_PRIVATE, a server of local play) is left out, and so is
what `addclient` may do when all slots are taken: it calls `update_server` before it looks again
(`engine/server.cpp:466`), which the model has as steps before the connection.  A
step that would follow an entry of `spies` to a freed client has no defined outcome and is cut.

`SlotPool` is the abstract specification: three sets, no counters.  `ImplementsPool` says that
`Admission` implements it with `inside`, `holders` and `referred` read off the clients.

### 2.2 Ctf

State: `fighter` (alive, dead, spectator, gone; team), `flag` (the struct `flag`, times reduced
to `off`, `on`, `due`), `gotflags`, `flagscores`, `gameover`, `report` (what the last scoreflag event
told) and `sent`, the N_TAKEFLAG that each client has under way with the version it carries.
`stale` in a message is a history bit: the flag has moved, or the map has changed, since it
was sent.

| action | code |
|---|---|
| `CtfJoin`, `CtfLeave`, `CtfSpectate`, `CtfUnspectate`, `CtfSpawn` | `connected`, `clientdisconnect`, `setspectator`, N_SPAWN |
| `CtfDie` | `dodamage` and `suicide` with `smode->died`; `TkPenalty` is `ctf_teamkill_penalty` |
| `Slay` | `player_slay` |
| `CtfSwitchTeam`, `BalanceBot` | N_SWITCHTEAM, N_SETTEAM, `player_changeteam`; `aiman::balanceteams` |
| `TryDropFlag`, `SendTake`, `TakeFlag` | N_TRYDROPFLAG; a client that sends N_TAKEFLAG; `takeflag` with its refusals |
| `PassFlag` | the damage listener of the rugby module and `pass_flag` |
| `Tick`, `UpdateFlags`, `UpdateHold`, `CtfEndOfTime` | time, `update`, the end of the game |
| `CtfChangeMap`, `ParseFlags` | `changemap` and `setup`; N_INITFLAGS |

Abstractions: a position is in the base or not; `dropcount` is small or the penalty; a
suicide is never vetoed by a script; `player_changeteam` is called with suicide, as every script of
the repository does (`dosuicide` may be turned off; the flag of who changes sides alive is then left
to its owner); the map changes within one flag mode; hold has one flag
(`HOLDFLAGS`); the spawn points of hold and the texts of rugby credits are left out.  A client's
messages arrive in order, so an N_TAKEFLAG from before a map change arrives before the N_SPAWN
that follows it.  `CtfReopen` is `changetime` that gives a game whose time was up more of it.  A listener
of event_frag that changes the team of the victim makes it die twice (section 5); the flag is dropped
the first time, so for this mode both deaths are the one of `CtfDie`.

### 2.3 AiManager

State: `human` (state, privilege, spy, team of each human), `bot` (owner, the owner the
clients were last told, whether `aireinit` is 2, team), `runs` (`clientinfo::bots` of each
player), `botlimit`, `botbalance`, `dorefresh`, the mode, and `stopped` (paused, or time over:
`serverupdate` does not reach `checkai`).

| action | code |
|---|---|
| `AiJoin`, `AiLeave`, `AiSpectate`, `AiUnspectate`, `AiSwitchTeam`, `SetBotTeam`, `SetTeamRefused` | the handlers in `server.cpp` with their calls of `aiman` |
| `Raise`, `AiRelinquish`, `AiUnsetMaster`, `AiEnterSpy`, `AiLeaveSpy` | privileges and spy mode, as far as `validaiclient` looks at them |
| `ReqAdd`, `ExecuteAddBot`, `ReqDel`, `ExecuteDeleteBot` | N_ADDBOT, N_DELBOT and the posted bindings |
| `SetBots`, `AiChangeMap`, `Stop` | limits, `clearai` with `aiman::changemap`, pause and end |
| `CheckAi` | `checkai`: `balanceteams`, `reinitai` for each bot, `reassignai` until it has nothing to do |

Abstractions: which client comes first in `clients` is open wherever only that decides who
gets a bot; `balanceteams` and the loop of `reassignai` are described by their results; there
are two teams; local clients and `warned`, which nothing sets, are left out; `PRIV_AUTH`
behaves like `PRIV_MASTER`.  Two constants switch behaviour that is known to break the
records: `Reuse` (a bot is added while another one waits for its removal) and `Unsetting`
(scripts use `unsetmaster`, which leaves a spectator's bots with it).

### 2.4 Match and GameCycle

State: the clock (`gamemillis`, `gamelimit`, `interm`, `gamepaused`, `timed` for `m_timed`,
`named` for a non-empty `smapname`), the votes (`standing`, `mapvote`), what a script set for the
next game (`nextset`), `shouldstep`, the demo (`demorecord`, `demoffset`, `demonextmatch`) and the
packets that spectators get late (`spectator_delay`, `delayed`).  Time is counted in ticks.

| action | code |
|---|---|
| `UpdateServer` | `update_server`: `serverupdate` with `checkintermission`, the end of the intermission (`checkvotes(true)`, `rotatemap`, `changemap`), then `sendpackets` |
| `Join`, `Leave`, `ChangeStanding` | `connected`, `clientdisconnect`, `setspectator` and privileges as far as votes are concerned |
| `Vote` | N_MAPVOTE: `vote`, `checkvotes(false)`, forced for the privileged |
| `ScriptChangeMap`, `ChangeTime`, `SetNext`, `PauseGame` | bindings and N_PAUSEGAME |
| `NewMap` | N_NEWMAP in edit mode |
| `RecordDemo`, `RecordNext`, `StopRecording` | `server.recorddemo`, N_RECORDDEMO, N_STOPDEMO |
| `SetDelay`, `Broadcast` | `server.spectator_delay`, `write_delayed_broadcast` |

Abstractions: which of several best votes wins; the contents of demos, and their playback;
`forcemap` of local clients; the game speed.  A listener that calls back into the match is a
step of its own, except where `serverupdate` looks at what it did (`timeupdate` that gives more
time, `setnextgame` that names a map).  A name that `modecode` does not know is taken for ffa.

`GameCycle` is the abstract specification, with a phase and a clock: games and intermissions
alternate.  `ImplementsGameCycle` maps `interm` (0, the time it ends, or -1) to the phase, and
`gamemillis` to the time since the game, or the intermission, began.

### 2.5 Mastermode

State: `state` and `privilege` of each client, `mastermode` with who set it (`setby`, a history
variable), `allowedips`, `gamepaused` with `pausegame_owner`, spies, and whether a script let a
spectator end his own watching.

| action | code |
|---|---|
| `Connect`, `Disconnect` | `connected` with `setmaster.lua`, `clientdisconnect` with its calls of `setmaster`, `cleanup_masterstate`, `checkpausegame` |
| `Claim`, `Relinquish`, `GiveMaster` | N_SETMASTER for oneself and for others |
| `ScriptGrant`, `ScriptUnset`, `UnsetMaster` | the bindings that give and take a privilege |
| `EnterSpy`, `LeaveSpy` | `set_spy` |
| `RequestMode`, `ScriptMode` | N_MASTERMODE with `mastermask`, `server.mastermode` |
| `PauseGame`, `ScriptPause` | N_PAUSEGAME, `pausegame` |
| `Spectate`, `ScriptSpectate` | N_SPECTATOR, `player_spec` and its relatives |

Abstractions: passwords are a choice; `PRIV_AUTH` behaves like `PRIV_MASTER` here; the
optional module `default_mastermode.lua`, which resets the mode by itself, is not loaded.

### 2.6 Capture

A base has two counters and no list of who stands in it.  State: `life` (team and place of
each living player, and whether the place is gameclip), `base` (`baseinfo`), `notgotbases`,
`over`.  Actions: `Spawn`, `Move` (`moved`, on each N_POS), `LeaveGame` (death, spectating,
leaving), `DieTwice` (a listener of event_frag changes the team of who is dying, or makes it watch,
so that the mode takes it off twice), `Slay` (`player_slay`), `ChangeTeam` (`changeteam`,
`balanceteams`), `Update` (the `occupy` of each second and `endcheck`), `EndOfTime`, `Reopen`
(`changetime` after the time was up), `Setup`, `ParseBases` (N_BASES).

While the time is up `movebases` counts nobody, and `changetime` may take the game up again with
the counters as they were.  So a counter may count players who have left the base, more than there are
on the server, and such a base changes hands or is contested with nobody there.  `ghosts` is a history
variable, not in the code: how many of each team have left each base while the time was up, less those
who came in meanwhile, who are not counted either.  The `Crowd` of a team in a base is who stands there
and its ghosts, and the properties speak of crowds: the ghosts that `changetime` makes are the only
ones.  What a player sees of it is in section 5.

Scores, ammunition and regeneration are left out: nothing about who owns a base reads them.
Two constants switch what is known to break the counters: `Clip` (gameclip material inside a
base: `enter` and `leave` disagree about it) and `Slaying`.  Both are off in the run.  `ParseBases`
gives the result of the loop that calls `enter` for each living player, in whatever order.  Nobody
spawns who is alive: a bot that changes its owner while alive, which is offered a spawn and
enters its base a second time when its new owner answers, is left out, as `ShiftAlive` is in `Combat`.

### 2.7 Collect

State: each player's team and state with what he carries (`player`), the tokens that lie about
by dropper and kind (`heap`), `scores`, the time each base may be stolen from, `notgotbases`,
`over`.  Actions: `Join`, `Spawn`, `Die`, `DieTwice` (a listener of event_frag changes the team of who is
dying: it drops a skull for the old team and one for the new), `Watch`, `Leave`, `ChangeTeam`, `TakeToken`,
`Deposit`, `Steal`, `Expire`, `StealTime`, `EndOfTime`, `Reopen`, `ChangeMap`, `ParseBases`.  Positions and
token numbers are left out, and which old tokens go when there are too many is a choice.

### 2.8 WorldState

State: the vector `clients`, the `owner` of each bot, `position` and `messages` (what each sender
has put into the buffers), `worldstates` (the reference count of each buffer) and `packets` (the
packets ENet still holds, by buffer and client).  Actions: `Move`, `Say`, `Arrive`, `Shift`, `Depart`,
`Free` (ENet frees a packet: `cleanworldstate`), `BuildWorldState` (`buildworldstate` with
`addposition`, `sendpositions`, `addmessages`, `sendmessages`; `refused` are those to whom ENet
cannot send).  A unit of data stands for one position or one message with its header.  The code
doubles each buffer and gives every client a window of it that leaves out the client's own part;
`Fillers` is the order in which the buffer is filled, `Added` and `Parts` are how it is split at the
size of a packet, and `Window` is that computation.  `EverybodyElse` is what it is for: `Shown(h)`, what
the windows of `h` show packet after packet, is all of the others' units, and `Before` holds of any two
of one sender.

### 2.9 Combat

State: `player` (state, health, `lifesequence`, `lastspawn`, `deadflush`, `projectiles`, deaths
since the life was offered, `hunted`), `events` (`clientinfo::events`) and `offers` (N_SPAWNSTATE on
the way).  Actions: `Fire`, `Launch`, `Suicide`, `SwitchTeam` (what a client queues or does at once),
`TryRespawn`, `Spawn`, `ProcessEvents` (`processevents`, with the events that are due), `Connected`,
`Disconnected`, `Spectate`, `Unspectate`, `Slay`, `ChangeMap`, `Reassign` (a bot gets another owner).

`dodamage` raises event_frag after it has counted the death and before it makes the victim CS_DEAD.
`hide_and_seek.lua` and `by_moving_players.lua` call `changeteam` on the victim there, which commits
suicide while it is still CS_ALIVE.  `Felled` has both ways: with such a listener one life counts two
deaths, and the dead has its health restored.  Whether the listener does so is for the script to
say when it comes to it; in the model it is decided when the life begins (`hunted`), for the clients in the
constant `Hunted`.  A listener that changes the team of somebody else, or makes somebody a spectator, is a
step after the flush; one that looks at event_suicide changes the team before anything is counted.

`stale` in a hit is a history bit: the target has spawned since.  Damage is counted in
hits; ranges, reload times, armour, pickups are left out.  A client names the life it sees (the
server cannot check more), a hit does not wait for all `LifeSequences` lives to go by
(`lifesequence` wraps at 128 in the code), and a number is not given to another client while a
hit on it waits.  `ShiftAlive` (a bot changes owner while alive, whose death then comes with the
old owner's events) breaks `DiesOnce` and is off.

## 3. Runs

Components that share no variable of the model are checked side by side in one run: `part` says which of
them moves, the others rest in an initial state.  A side-by-side run has as many states as its
parts together, not their product; each fairness condition holds in the behaviours of its part.
What they do share in the code, who is connected and whether the time is up, each of them models for itself
and lets it change in all the ways it can: `over` of `Capture` and of `Collect`, `gameover` of `Ctf` and `stopped`
of `AiManager` are the clock of `Match`, and like it they turn back when `changetime` gives more time.
`MCSlots`, `MCLive`, `MCPlay` and `MCGame` extend the modules they put side by side, so that names that
would meet carry the component (`CtfJoin`, `AiJoin`), and it is proved that what they specify implies
each of the components (section 6).

| run | expects | states | question |
|---|---|---|---|
| `slots` | pass | 362 000 | admission without spies: do the counters stay in step with who is inside, is the capacity kept, do they implement the pool, does a posted disconnection hit its own session?  Does everybody get the others' positions and messages, from buffers freed in time?  Does a hit count in its own life only, and does a life end once, or count two deaths at most? |
| `live` | pass | 285 000 | admission with spies and a domain, and bots with `Reuse`, `Unsetting` and a mode without bots, under fairness: is the count of spies right, does every connection end in or out, is each posted disconnection carried out?  Is no freed bot listed, are bots shared out when no refresh is due, do the refreshes end, do the bots follow the last human out? |
| `admission_spies_capacity` | violation of `MaxClientsRespected` | | does the capacity hold with spies? |
| `admission_spies_leave` | violation of `LeaveSpyIsOwn` | | does a spy's number lead to that spy? |
| `ctf_ctf` | pass | 1 380 000 | ctf with rugby passes: carrier, dropper, team, version and score stay consistent whatever happens in between |
| `ctf_hold` | pass | 12 000 | hold with `player_slay`, under fairness: a dropped flag is taken up or goes home |
| `ctf_rugby_flagrun` | violation of `FlagrunHonest` | | is a flag run with a pass marked? |
| `ctf_slay` | violation of `SlayFreesFlag` | | does `player_slay` free the flag? |
| `bots_removal` | violation of `RemovalDecides` | | does `removeai` decide about every bot of who leaves? |
| `play` | pass | 549 000 | privileges without spies: does a mode or a pause outlive who set it?  Bots in team mode: the two records of ownership, and even teams.  Protect: one flag each.  Collect: are the tokens bounded? |
| `game` | pass | 298 000 | does the match implement the cycle of games and intermissions, do intermissions end, do demos hold one game?  Do the counters of the bases count who is there, and does who holds a base get it? |
| `mastermode_spy` | violation of `MasterlessIsReset` | | is the mastermode of a spy reset when he leaves? |

### Bounds, and why they are enough

* **Admission.** Three slots with a capacity of one and two reserved places: the server is
  full, over-full by one and by two, and there is always a slot left for the one that waits
  or is refused.  Four session numbers allow a slot to be used again while a disconnection of
  its former occupant waits in the queue; `MaxTasks` (one) bounds that queue, `NumSlots` the
  connections.  `MaxSpies` is above what the slots can reach, so that the path of a full spy
  vector is not taken.  `live` has two slots: symmetry cannot be used with a liveness
  property.
* **Ctf.** Two clients, one of them a bot in the ctf and hold runs (only bots are moved by
  `balanceteams`), in any two teams: a flag has at most a carrier and one other player who
  passes, kills, takes or blocks.  Two flags are the smallest number at which a player can
  carry one and touch another.  `MaxVersion` bounds the versions for which a message is sent
  or a flag is passed; a message under way can be overtaken by all versions up to the bound
  and the later steps of time.  Versions start again with a map, so that equal versions of
  two maps do occur.
* **AiManager.** Two humans and two bots: an owner with two bots and one with none is the
  smallest load that `reassignai` changes, and two bots in one team the smallest that
  `balanceteams` does.  `MaxBots` bounds the bots below MAXBOTS (32); the place after the last
  one is kept to show that it is never used.  `botlimit` is `MaxBots`, so that a master may do
  what an admin may and only one of the two is needed; where no mode has teams, `botbalance`
  stays as it is.
* **Match.** Games and intermissions of one tick, a limit of two (`changetime` can lengthen a
  game and cut it short).  Votes are studied with two clients, where a majority needs both,
  and without delay; the delay with one client, one tick and two packets, so that the queue
  outlives the intermission's time.  `Horizon` bounds the clock past the latest end.
* **Mastermode.** Two clients: the one who sets and the one who stays, goes or is given.
* **Capture.** Two players, two bases, limits of three and two, so that a conversion takes
  several seconds and can be interrupted in between.  One ghost at a time (`MaxGhosts`): it is
  enough for counters above the number of players, and for a base that nobody is in to change hands.
* **Collect.** Two clients, one base, limits of one: the second token is the one too many.
* **WorldState.** Three clients and a bot, packets of three units and one message at a time:
  the first, the last and one in the middle, data that is split and data that is not; a
  buffer is used again when it is free.
* **Combat.** A player and a bot, two values of `lifesequence`, one hit kills, one projectile,
  one offer under way and one event at a time (`MaxEvents` is what a queue holds besides it).  The player is in `Hunted`, the
  bot is not, so that both ways of dying meet.

### Fairness

* `Admission`: time passes and the loop over `connects` runs while a client is connected
  (`GrowLate`, `ConnectTimeout` per slot), and the loop runs what was posted to it
  (`ExecuteDisconnect`).  The update timer is re-armed each time it fires, and asio runs
  posted handlers in order, so weak fairness is what the loop gives.  No answer of a domain,
  and nothing a client does, is assumed to happen.
* `Ctf`: `Tick` while the game runs, and `UpdateFlags`: `serverupdate` calls `smode->update`
  in every step in which the game is not paused and somebody is on the server.  A pause is
  not an action of `Ctf`: the property speaks of games that run.
* `AiManager`: `CheckAi`, which `serverupdate` calls in the same steps.  `RefreshSettles`
  assumes besides that nobody does anything for good, `BotsFollow` speaks of games that are
  not stopped.
* `Match`: `UpdateServer(1)`, the timer with time going by.  The property is silent about games
  that are paused and servers without clients, where `serverupdate` does not step.
* `Capture`: `Update`, and each player sends his position now and then (`Move` to where he is):
  clients send N_POS some thirty times a second.  That is all `HoldersGetTheBase` needs of them.

## 4. Properties

Type invariants apart, the properties are aimed at the hazards listed in `PROJECT.json`:

* `SlotAccounting`, `RaisedOnlyWhenFull`, `MaxClientsRespected`, `ImplementsPool`: the
  bookkeeping of places over any sequence of joins and leaves.
* `DisconnectHitsItsSession`, `DisconnectTakesEffect`: a posted disconnection is carried out,
  and on nobody else.
* `SpyCount`, `LeaveSpyIsOwn`: the vector of spies and the numbers made of it.
* `ConnectResolved`: nobody waits for ever.  Spies are left out of it by name: a spy that
  waits for a domain cannot be found by its number and is never timed out.
* `CarrierPlays`, `RightTeam`, `DropperPresent`, `OneFlagEach`: flags against players.
* `TakeIsFresh`: messages that were overtaken.
* `ScoreEarned`, `FlagrunHonest`, `SlayFreesFlag`, `DroppedFlagReturns`: what scoring,
  reporting, slaying and the reset timer promise.
* `OwnersRun`, `NoDanglingBot`, `Settled`, `TeamsEvened`, `RemovalDecides`, `RefreshSettles`,
  `BotsFollow`: the two records of who computes a bot, and what the next refresh makes of what
  the handlers left behind.
* `ImplementsGameCycle`, `IntermissionEnds`, `DemoStampsForward`: several clocks, votes and
  listeners that end, lengthen or restart a game.
* `MasterlessIsReset`, `PauseIsRevocable`: what is left when the last privilege goes, by
  whichever of a dozen handlers.
* `NoGhosts`, `TakenByPresence`, `HoldersGetTheBase`: counters of bases against players and the
  ghosts that are known.
* `TokensBounded`, `DroppersPresent`: limits that are kept up one dropper at a time.
* `EverybodyElse`, `BuffersShared`: one buffer that many packets show parts of.
* `HitsOwnLife`, `DiesOnce`: events that wait while the player they name dies and spawns.

## 5. Findings

* **Capacity with spies** (`admission_spies_capacity`).  `numclients` leaves spies out, and
  `allowconnect` adds their number to the capacity once more: each spy lets one more player in.
* **Numbers of spies** (`admission_spies_leave`).  After a spy that is not the last one has
  left, numbers and positions differ; `/spy 0` takes out somebody else.
* **Passed flags count as flag runs** (`ctf_rugby_flagrun`).  `scoreflag` resets `used_rugby`
  before it reports it.
* **Slain carriers keep the flag** (`ctf_slay`).  `player_slay` does not tell the mode.
* **Bots that nobody decides about** (`bots_removal`).  `addai` gives a bot that waits for its
  removal a new owner, but does not add it to that owner's list.
* **A spy's mode stays** (`mastermode_spy`).  `clientdisconnect` takes a spy off `spies` before the
  listener that unsets his privilege looks for him by number, so that nothing is cleaned up.

Observed while modelling, without a run of their own:

* In hold with rugby a refused N_TAKEFLAG starts the clock that the next carrier scores by.
* `unsetmaster` leaves a spectator his bots; a player who starts to watch without having bots
  does not ask for a refresh, so teams may stay uneven until something else does.
* `changetime` in an intermission takes up the play again while the intermission goes on.  In the capture
  mode the counters of the bases still count who left, died or disconnected since the time was up: such
  a base may change hands with nobody in it, and a ghost of another team contests it until the map
  changes, so that who holds it never gets it.
* A listener of event_frag that calls `changeteam` on the victim (`hide_and_seek.lua:300`,
  `by_moving_players.lua:107`) is called between `deaths++` and CS_DEAD in `dodamage`.  The suicide that comes with
  the change of team finds the victim alive: one life counts two deaths and a suicide, the clients are told N_DIED twice, in
  collect a second skull is dropped, and in capture a second player of the new team is taken off the base.
* World states reach delayed spectators without the delay.
* N_SETMASTER with value 0 for somebody else gives that client master.
* `clientinfo::allow_self_unspec` is read before anything sets it.
* Votes are not counted again when a client leaves, so a majority may wait for the next vote.
* Bots that `balanceteams` moves keep the tokens of their former team; deposits count after the
  game is over.  Gameclip inside a base (`Clip`) breaks `NoGhosts` and `TakenByPresence`.
* With `restrict_pausegame` an admin whose privilege a script takes away leaves a pause that no
  remaining master may end (`RestrictPause` breaks `PauseIsRevocable`), and a living bot that
  changes owner may die twice (`ShiftAlive` breaks `DiesOnce`), and enter a base twice: it answers the
  offer while it is alive.

The hazards in `PROJECT.json` list the others.

## 6. Proofs

TLC shows a property for the instances above; the theorems show it for every value of the
constants that satisfies the assumptions of the module (finite, possibly empty sets; any
capacity; any number of reserved places, clients and flags).

### 6.1 AdmissionProofs

* `TypeCorrect`.  The invariant `TInv` adds to `TypeOK` that an occupied slot has a session
  and that only a player holds a reserved place: without it `clientdisconnect` of a client that
  is not in the game could give back a place.
* `SlotsAccountedFor` (`SlotAccounting`), for all logins, spies included.  A step is one of a
  few shapes (somebody enters with or without a place, leaves, waits, nothing), and a lemma per
  shape says what it does to the sets; the counters follow by cardinalities.
* `MaxClientsNeverSpent` (`RaisedOnlyWhenFull`), assuming that no spy logs in.  The invariant
  `PInv` adds `SlotAccounting` and that there is no spy.  It is needed because the comparison
  in `allowconnect` is right only when the two counts of spies are zero.
* `MaxClientsEnforced` (`MaxClientsRespected`) and `PoolImplemented` (`ImplementsPool`),
  assuming no spies and no places for spectators: `PInv` turns `maxclients` into the configured
  capacity plus the raise, and the raise into the fact that the server is full.

* `PostedWorkHitsItsSession` (`DisconnectHitsItsSession`), for all logins: a step that takes the
  first posted call is `ExecuteDisconnect`, because no other one shortens the queue, and that
  leaves every client whose session is not the one named.

* `SpiesAreCounted` (`SpyCount`), for all logins and any configuration.  `SpyInv` adds to `TInv` what
  makes the count right although `set_spy` removes by an index that may be wrong: who has only
  connected is no spy, entries of the vector differ, and an entry whose session is the client's
  own is a spy's.  `RemovedIs` says what `vector::remove` leaves; a spy that leaves takes out one
  entry, whosever it is, and the lengths agree (`LeaveKeepsCount`).

* `CapacityWithSpies`, for all logins and any configuration: an ordinary client is let in only while
  fewer are inside than `MaxClients`, the holders of reserved places and twice the spies (and, with
  `specslots`, the spectators).  It puts `SlotAccounting` and `SpyCount` together with the comparison
  in `allowconnect`, and is the other side of `admission_spies_capacity`: this is all that spies cost.
* `LoneSpyLeaves`, the other side of `admission_spies_leave`: a live entry of the vector is a spy's
  (`SpyInv`), so that `/spy 0` can take somebody else out of the mode only if there is a second spy.
* `LiveIsBoth`: `LiveSpec`, which the run `live` checks, implies `Spec` and `AiSpec`, and so `SpyCount`
  and `DisconnectHitsItsSession`.

The run `admission_spies_capacity` shows that the assumption about spies in `MaxClientsNeverSpent`,
`MaxClientsEnforced` and `PoolImplemented` cannot be dropped.

### 6.2 CtfProofs

`CarriersPlay`, `CarriersInRightTeam` and `PointsAreEarned` assume `~Slaying`; `ctf_slay` shows that a
slain player keeps its flag, dead, and may then change its team.  `NobodyCarriesTwo` and
`FlagrunsAreHonest` assume `~Rugby`.  The others hold for all uses of the server.

* The inductive invariant is `Inv`: `CtfTypeOK`, and for each flag `Sound`: a carrier `Plays`, that is,
  is on the server and, without `player_slay`, alive and of the right team; a dropper is on the server,
  and the flag is on the ground.  The lemmas follow the code: what `ownflag`, `dropflag`, `returnflag`
  and so on make of one flag, what `dropflag` with `leavegame` or `died` makes of all flags, then one
  lemma per action.
* `CtfTyped`, `CarriersPlay`, `CarriersInRightTeam`, `FlagDroppersArePresent` follow from `Inv`, and so
  does `CarriersArePresent`: whatever is slain, `ownflag` and the anticheat find the owner they look up.
* `VersionsGrow`: every step but a new map or new flags is `Orderly`:
  versions never shrink, grow when the flag moves, and messages follow the flags.
* `TakesAreFresh` (`TakeIsFresh`) from `FreshInv`: the message of a living player is of the
  present map and not newer than the flag, and older than it if the flag has moved.  It does
  not hold of dead players; that a message is handled before the spawn that follows it in the
  client's stream is what closes the gap.
* `NobodyCarriesTwo` (`OneFlagEach`): `NextOwners` says that a step gives no
  flag a new owner (`Drained`), or one flag to a client that had none (`Gained`), or starts afresh.
  `pass_flag` does not look at what the team mate carries.
* `PointsAreEarned` (`ScoreEarned`), with or without rugby: the same lemma says that in ctf the
  scores grow by `scoreflag` only, in the branch of `takeflag` where a carried flag reaches a flag
  that is at home (`GoalEarned`); that scores are not negative excludes the reset by a new map.
* `FlagrunsAreHonest` (`FlagrunHonest`) in ctf and hold, the other side of `ctf_rugby_flagrun`: without
  passes the report of a flag run is right although `used_rugby` is cleared first.  `Runs` says that
  while a flag is carried and timed its only helper is its owner; `Positive` again tells goals from resets.

### 6.3 MatchProofs

* `MatchTyped` (`MatchTypeOK`).  `UpdateDoes` sums up the three ways `update_server` can go, and
  `ChangeMapDoes` what every path to a new map leaves; the other lemmas and theorems use these.
* `DemosLookForward` (`DemoStampsForward`): whatever sets the clock back stops the recording or
  starts it at 0.  With the types the property is inductive as it stands.
* `CycleImplemented` (`ImplementsGameCycle`): each action maps to one of `GameCycle` or to a
  stutter.  The one place where the numbers matter is the end without a map: `millis` of the
  step is past `interm` and at most one past the clock, so `Close` finds `IntermTime` gone by.

### 6.4 MastermodeProofs

* `PrivilegesTyped` (`MastermodeTypeOK`).
* `ModesAreReset` (`MasterlessIsReset`), assuming `~Spies`; `mastermode_spy` shows that it needs
  that.  `PausesAreRevocable` (`PauseIsRevocable`), assuming `~RestrictPause`.  Steps are sorted by
  what they do to presence and privilege: those that only add keep the property, and those that
  take one away end in `cleanup_masterstate` or `checkpausegame`, for which there is a lemma.

### 6.5 AiManagerProofs

* `AiTyped` (`AiTypeOK`) and `NoDangling` (`NoDanglingBot`), for all uses of the server, from
  `ListInv`: the types, and that what is in a player's list is a bot that names that player.
  `RehomeDoes`, `AddDoes`, `DeleteDoes` and `CheckSetupDoes` say what `shiftai`, `addai`, `deleteai`
  and `checkai` leave; each handler is one of these and a change of the players.  That no bot gets
  the number after the last (`PlaceFound`) is a counting argument: fewer than `limit` bots have
  an owner, so one of the first `limit` numbers is free.
* `OwnersRunTheirBots` (`OwnersRun`) and `RemovalTakesAll` (`RemovalDecides`), assuming `~Reuse` and
  `~Unsetting`.  `OwnerInv` adds the converse, `Named`: a bot with an owner is in that player's
  list, and the owner is there and, if it watches, has a privilege.  `validaiclient` itself is not
  inductive: a spy is no valid owner and keeps the bots it had, and is one again as soon as
  it leaves spy mode.  `bots_removal` shows that `~Reuse` cannot be dropped; `unsetmaster` calls the
  variant of `cleanup_masterstate` that leaves the bots where they are.
* `RefreshesSettle` (`Settled`), for all uses of the server, `Reuse` and `Unsetting` included.  The
  property is not inductive: while a refresh is due, bots wait without an owner or with one that
  not all clients know.  `SettledInv` adds to `ListInv` that a bot whose owner the clients were not
  told is marked for it (`Honest`), that spies do not play, and that either a refresh is due or
  everything is in order (`Calm`): each handler that disturbs `Calm` sets `dorefresh`, and `checkai`
  clears it only in a round in which it found nothing to shift.
* `TeamsAreEvened` (`TeamsEvened`): the round of `checkai` that asks for no other has not moved a bot,
  so `balanceteams` found the teams even or nobody to move; `SizesAfter` counts what a move does.

### 6.6 CaptureProofs

All theorems assume `Parameters` (finitely many players, names that differ, limits in `Nat`) and
`Plain`: no gameclip inside a base, where `stealbase` counts who stands and `enter` and `leave` do
not, and no `player_slay`, which takes a life without telling the mode.

* The inductive invariant is `CaptureInv`: the types, `Unknown` (before a client tells the bases
  they are `Neutral`) and `AllFair`.  `Fair` is `NoGhosts` for one base against a crowd of numbers,
  and that the enemy is not the owner; without this one player who leaves would have to be
  taken off both counters.  One lemma each for `enter`, `leave`, `steal` and `occupy` says what they
  do to `Fair` when the crowd changes by one; `CrowdChange` gets that change from the cardinalities
  of who stands where, and `MoveFair` puts a move from base to base together.  While the time is up no
  crowd shrinks, since who leaves becomes a ghost, and no counter moves.
* `CaptureTyped` (`CaptureTypeOK`), `NoBaseHasGhosts` (`NoGhosts`) and `BasesAreTakenByPresence`
  (`TakenByPresence`) follow from it.  They hold however often `changetime` takes the game up again.  A
  counter is a number, and bounded by the crowd, but not by the number of players; what is excluded
  is a counter below zero, although players leave a base who were never counted in it.
* `GameIsMatchAndCapture`: `GameSpec`, which the run `game` checks, implies `MatchSpec` and `CaptureSpec`,
  without any assumption.  `GameIsTyped` (`GameTypeOK`) and `GameIsSafe` (all that the run checks but
  liveness) carry the theorems about the two over to it.

### 6.7 CollectProofs

* `DroppersArePresent` (`DroppersPresent`), for all clients, bases and limits, assuming only that
  no base and not `Unowned` is a client number (`DroppersDiffer`).  With the shape of the token table the
  property is inductive: each action drops for a client that is there, or disowns.
* `TokensAreBounded` (`TokensBounded`) and `CollectTyped` (`CollectTypeOK`), assuming besides that the
  limits are numbers and that bases have teams.  The types are part of the invariant, because what
  a player drops is what it carries, and it carries no more than `TOKENLIMIT`; `Trimmed` bounds what
  `droptokens` leaves before it drops, and `leavegame` what becomes nobody's.
* `PlayIsEachPart`: `PlaySpec`, which the run `play` checks, implies `MastermodeSpec`, `AiSpec`, `CtfSpec`
  and `CollectSpec`, without any assumption.  `PlayIsTyped` (`PlayTypeOK`) and `PlayIsSafe` (all that the
  run checks) carry the theorems about the four over to it, under the assumptions of these.

### 6.8 ServerProofs

The functions of `Combat` and `WorldState` are recursive on how many events, clients or pieces there
are.  `NaturalInduction` gets induction from the well-foundedness of `Nat`; `RunExists` and `RunStays`
say that such a function exists and keeps what each of its steps keeps.

* `LivesEndOnce` (`DiesOnce`), `HitsAreOfTheLife` (`HitsOwnLife`) and `CombatTyped` (`CombatTypeOK`), for any
  players and limits and any set `Hunted`, assuming `~ShiftAlive`.  `FightInv` adds to the types that a
  player is `Sane` (who is alive, or may come alive, has not died since its offer; a life ends with one
  death, or two if a listener ends it; who has no health is flushed before the next offer) and
  `InTime`: a hit whose target has spawned since, or has been offered to, does not name the life the
  target is in.  `Turned` is what processing any event may make of a player.
* `BuffersAreShared` (`BuffersShared`) and `WorldStateTyped` (`WorldStateTypeOK`), assuming finitely many
  clients and bots, of different numbers.  The two are inductive together; `UsesIs` counts packets.
* `OthersAreShown` (`EverybodyElse`), under the same assumptions, for any size of a packet: even a
  piece that is larger.  `FillersInOrder`: everybody stands in the order once, the bots behind their
  owner.  `AddedGrows` and `StreamGrows` follow the pieces into the parts, whose units come in that
  order (`Earlier`).  So what belongs to one client is a `Stretch` of each part (`Between`), and
  `WindowShows` says that the window of the doubled buffer is the rest of the part, what stood behind
  the stretch first.  That turns units around, but never two of one sender: the stretch would lie
  between them, and be that sender's.
* `ServerIsSafe` (`ServerTypeOK`): `SlotsSpec`, which the run `slots` checks, implies the two
  specifications, and so all of the above; it implies `Spec` of `Admission`, too (`SlotsIsEachPart`).

### 6.9 Only model-checked

Liveness (`ConnectResolved`, `DisconnectTakesEffect`, `DroppedFlagReturns`, `RefreshSettles`,
`BotsFollow`, `IntermissionEnds`, `HoldersGetTheBase`): out of the prover's reach.
Every invariant and every action property of a passing run is stated by a theorem.  The runs that
expect a violation are refuted by TLC; for the findings about spies and flag runs there is a
theorem about when the code does what was expected (`LoneSpyLeaves`, `CapacityWithSpies`,
`FlagrunsAreHonest`, `RemovalTakesAll`, `ModesAreReset`).

The proofs need the assumptions named above where a run or an observation of section 5 shows that the
code breaks the property without them (`~Slaying`, `~Rugby`, `~Reuse`, `~Unsetting`, `~Spies`,
`~RestrictPause`, `Plain`, `~ShiftAlive`), where the statement is about one configuration (no `specslots` in
`MaxClientsEnforced` and `PoolImplemented`; a mode other than protect, where one scores by touching the others' flag,
in `FlagrunsAreHonest`), and otherwise only that constants are of their types and that names differ.

## 7. Plan

1. *Done*: `Admission` with `SlotPool`, `Ctf`, `AiManager`, `Match` with `GameCycle`, `Mastermode`,
   `Capture`, `Collect`, `WorldState`, `Combat`; the proofs of section 6.
2. *Done*: that the specifications of the side-by-side runs imply those of their parts
   (`SlotsIsEachPart`, `LiveIsBoth`, `GameIsMatchAndCapture`, `PlayIsEachPart`).
3. **AuthFlow**: the requests of `masterauth/core.lua` with their 10 s timer, the connection to
   the domain's server and the listeners, composed with the clients of `Admission`.  Promise:
   each request is completed once, for the client that made it.  (The disconnect handler looks for
   requests with `ipairs`, although they are keyed by their numbers: `core.lua:270`.)
4. **Listeners**: `event.lua`, `event_emitter.lua`, `deferred.lua` against a set of listeners.
5. **NetBans**: the stack of pushed bans (`pop_bans` restores them and leaves them on the stack,
   `netbans.cpp:140`) and what merging keeps.

Bounds stay at two or three actors each, as in section 3; components that share no variable
are checked side by side.

## 8. Not modelled

Packet formats, sockets and files; the anticheat heuristics (thresholds on what clients send,
no state worth a model); extinfo (read only); the authentication server, the monitor and the
key generator (separate programs); statistics, chat bridges and the optional script modules
(output, or one table each); vendored libraries; the shared Cube code except `vector::remove`.
`PROJECT.json` lists each with its reason.
