------------------------------ MODULE Admission ------------------------------
(***************************************************************************)
(* How a connection becomes a player, and how it stops being one.          *)
(*                                                                         *)
(* The engine (src/src/engine/server.cpp) keeps a vector of client slots   *)
(* that are recycled; the game (src/src/fpsgame/server.cpp) keeps the      *)
(* clients that have not been let in yet in "connects", those that have    *)
(* in "clients", and counts the places that are left with three integers   *)
(* (maxclients, reservedslots, reservedslots_use) that allowconnect and    *)
(* clientdisconnect adjust and that nothing recomputes.  A spy is a client *)
(* that also sits in the vector "spies" and is addressed by a number that  *)
(* is derived from its position there.                                     *)
(*                                                                         *)
(* The server is one thread: every handler is one step.  What interleaves  *)
(* is the order of the network events, the timers and the work that a Lua  *)
(* script posts to the event loop.                                         *)
(***************************************************************************)
EXTENDS Integers, Sequences, FiniteSets

CONSTANTS
    NumSlots,       \* bound: client slots 0 .. NumSlots-1 of the engine
    MaxClients,     \* server.maxclients as configured
    ReservedSlots,  \* server.reserved_slots as configured
    MaxSpies,       \* MAXSPIES
    SpecSlots,      \* server.specslots: each spectator opens one more place
    ServerPass,     \* a server password is set
    ServerAuth,     \* an authentication domain lets the refused in
    Logins,         \* kinds of password the clients present
    SessionIds,     \* the draws of clientinfo::sessionid
    NoSession,      \* the session of an empty slot
    MaxTasks        \* bound: disconnections posted and not run yet

AllLogins == {"plain", "slotpass", "admin", "spy", "serverpass"}

\* MM_OPEN and MM_VETO never differ here.
MasterModes == {"open", "locked", "private"}

ASSUME ConstantsAssumption ==
    /\ NumSlots \in Nat /\ MaxClients \in Nat /\ ReservedSlots \in Nat
    /\ MaxSpies \in Nat /\ MaxTasks \in Nat
    /\ SpecSlots \in BOOLEAN /\ ServerPass \in BOOLEAN /\ ServerAuth \in BOOLEAN
    /\ Logins \subseteq AllLogins
    /\ NoSession \notin SessionIds

Slots == 0 .. NumSlots - 1

VARIABLES
    client,             \* the client in each slot of the engine
    spies,              \* vector "spies": which object each entry points to
    maxclients,         \* the places, the reserved ones in use included
    reservedslots,      \* reserved places nobody holds
    reservedslots_use,  \* by how many maxclients is raised
    tasks               \* execute_disconnect calls posted to the event loop

vars == <<client, spies, maxclients, reservedslots, reservedslots_use, tasks>>

slotvars == <<maxclients, reservedslots, reservedslots_use>>

(***************************************************************************)
(* phase: "empty" is ST_EMPTY; "pending" is in connects and has not been   *)
(* let in; "auth" is pending with connectauth # 0; "joined" is in clients. *)
(* num is clientnum - spycn of a spy.  late: connected 15 s ago or more.   *)
(***************************************************************************)
Client == [phase   : {"empty", "pending", "auth", "joined"},
           session : SessionIds \cup {NoSession},
           admin   : BOOLEAN,
           using   : BOOLEAN,
           spy     : BOOLEAN,
           spec    : BOOLEAN,
           late    : BOOLEAN,
           num     : Nat]

Vacant == [phase |-> "empty", session |-> NoSession, admin |-> FALSE,
           using |-> FALSE, spy |-> FALSE, spec |-> FALSE, late |-> FALSE,
           num |-> 0]

Joined     == {c \in Slots : client[c].phase = "joined"}
Waiting    == {c \in Slots : client[c].phase \in {"pending", "auth"}}
Spectators == {c \in Joined : client[c].spec /\ ~client[c].spy}

\* numclients(-1, false, true)
ClientCount == Cardinality(Joined) - Len(spies)

-----------------------------------------------------------------------------
(* The vector of spies                                                     *)

\* vector<T>::remove(i): closes the gap, or drops the last entry when i is
\* past the end.
Removed(s, i) == IF i <= Len(s) THEN SubSeq(s, 1, i - 1) \o SubSeq(s, i + 1, Len(s))
                                 ELSE SubSeq(s, 1, Len(s) - 1)

\* An entry points to a client that has not been deleted.
Live(entry) == client[entry.cn].session = entry.session

\* getinfo(spycn + n): the first spy with that number.  Every entry it looks at
\* must be live: what reading a deleted client returns is not defined.
FindsSpy(n, i) ==
    /\ i \in DOMAIN spies
    /\ \A j \in 1 .. i : Live(spies[j])
    /\ client[spies[i].cn].num = n
    /\ \A j \in 1 .. i - 1 : client[spies[j].cn].num # n

-----------------------------------------------------------------------------
(* Engine                                                                  *)

Init ==
    /\ client = [c \in Slots |-> Vacant]
    /\ spies = <<>>
    /\ maxclients = MaxClients
    /\ reservedslots = ReservedSlots
    /\ reservedslots_use = 0
    /\ tasks = <<>>

\* Session ids are drawn at random from 24 bits: a draw that is already in use
\* or that a posted task still names is left out.
FreshSession(s) == /\ \A c \in Slots : client[c].session # s
                   /\ \A i \in DOMAIN tasks : tasks[i].session # s
                   /\ \A i \in DOMAIN spies : spies[i].session # s

\* ENET_EVENT_TYPE_CONNECT: the first empty slot, then clientconnect.
ClientConnect(c, s) ==
    /\ client[c].phase = "empty"
    /\ \A d \in Slots : d < c => client[d].phase # "empty"
    /\ FreshSession(s)
    /\ client' = [client EXCEPT ![c] = [Vacant EXCEPT !.phase = "pending", !.session = s]]
    /\ UNCHANGED <<spies, slotvars, tasks>>

\* Mutants of Leave: the reserved place is not given back; the entry in spies stays.
Leave_KeepsReserved(c) ==
    /\ client' = [client EXCEPT ![c] = Vacant]
    /\ spies' = IF client[c].spy THEN Removed(spies, client[c].num + 1) ELSE spies
    /\ IF client[c].phase = "joined" /\ reservedslots_use > 0
       THEN /\ maxclients' = maxclients - 1
            /\ reservedslots_use' = reservedslots_use - 1
       ELSE UNCHANGED <<maxclients, reservedslots_use>>
    /\ UNCHANGED reservedslots

Leave_KeepsSpy(c) ==
    /\ client' = [client EXCEPT ![c] = Vacant]
    /\ UNCHANGED <<spies, slotvars>>

\* clientdisconnect and delclient.
Leave(c) ==
    /\ client' = [client EXCEPT ![c] = Vacant]
    /\ spies' = IF client[c].spy THEN Removed(spies, client[c].num + 1) ELSE spies
    /\ IF client[c].phase = "joined"
       THEN /\ maxclients' = IF reservedslots_use > 0 THEN maxclients - 1 ELSE maxclients
            /\ reservedslots_use' = IF reservedslots_use > 0 THEN reservedslots_use - 1
                                                             ELSE reservedslots_use
            /\ reservedslots' = IF client[c].using THEN reservedslots + 1 ELSE reservedslots
       ELSE UNCHANGED slotvars

\* ENET_EVENT_TYPE_DISCONNECT: the peer left, or ENet gave up on it.
PeerGone(c) ==
    /\ client[c].phase # "empty"
    /\ Leave(c)
    /\ UNCHANGED tasks

-----------------------------------------------------------------------------
(* N_CONNECT                                                               *)

\* The client as the listeners of event_connecting leave it: setmaster.lua
\* grants admin or the spy mode to whoever presents that password.
LoggedIn(c, login) == [client[c] EXCEPT !.admin = @ \/ login \in {"admin", "spy"},
                                        !.spy   = login = "spy",
                                        !.num   = IF login = "spy" THEN Len(spies) ELSE 0]

SpiesWith(c, login) == IF login = "spy"
                       THEN Append(spies, [cn |-> c, session |-> client[c].session])
                       ELSE spies

\* set_spy disconnects the client when the vector is full, and allowconnect goes
\* on with the deleted object: left out, MaxSpies is above what the runs reach.
CanLogIn(c, login) == /\ client[c].phase = "pending"
                      /\ login = "spy" => Len(spies) < MaxSpies

\* Mutant of TakesReserved: the number of reserved places is not looked at.
TakesReserved_Unlimited(c, login) ==
    client[c].admin \/ login \in {"slotpass", "admin", "spy"}

\* (is_admin || is_reserved) && reservedslots > 0
TakesReserved(c, login) ==
    /\ client[c].admin \/ login \in {"slotpass", "admin", "spy"}
    /\ reservedslots > 0

\* Mutant of Full: off by one.
Full_OffByOne(login) == ClientCount > maxclients

\* clientcount was taken before the listeners ran, spies.length() after.
Full(login) ==
    ClientCount >= maxclients
                   + (IF SpecSlots THEN Cardinality(Spectators) ELSE 0)
                   + Len(spies) + (IF login = "spy" THEN 2 ELSE 0)

Private(login, mm, invited) == IF ServerPass THEN login # "serverpass"
                                             ELSE mm = "private" /\ ~invited

\* connected(ci)
Playing(ci, mm) == [ci EXCEPT !.phase = "joined", !.spec = mm # "open"]

Join(c, ci, mm) == client' = [client EXCEPT ![c] = Playing(ci, mm)]

\* Mutant of AdmitReserved: maxclients is raised whether or not the server is full.
AdmitReserved_AlwaysRaises(c, login, mm) ==
    /\ CanLogIn(c, login)
    /\ TakesReserved(c, login)
    /\ maxclients' = maxclients + 1
    /\ reservedslots_use' = reservedslots_use + 1
    /\ reservedslots' = reservedslots - 1
    /\ spies' = SpiesWith(c, login)
    /\ Join(c, [LoggedIn(c, login) EXCEPT !.using = TRUE], mm)
    /\ UNCHANGED tasks

AdmitReserved(c, login, mm) ==
    /\ CanLogIn(c, login)
    /\ TakesReserved(c, login)
    /\ IF ClientCount >= maxclients
       THEN /\ maxclients' = maxclients + 1
            /\ reservedslots_use' = reservedslots_use + 1
       ELSE UNCHANGED <<maxclients, reservedslots_use>>
    /\ reservedslots' = reservedslots - 1
    /\ spies' = SpiesWith(c, login)
    /\ Join(c, [LoggedIn(c, login) EXCEPT !.using = TRUE], mm)
    /\ UNCHANGED tasks

AdmitOrdinary(c, login, mm, invited) ==
    /\ CanLogIn(c, login)
    /\ ~TakesReserved(c, login)
    /\ ~Full(login)
    /\ ~Private(login, mm, invited)
    /\ spies' = SpiesWith(c, login)
    /\ Join(c, LoggedIn(c, login), mm)
    /\ UNCHANGED <<slotvars, tasks>>

\* A listener vetoes the connection (bans), or there is no place.
Refused(c, login, mm, invited, veto) ==
    /\ CanLogIn(c, login)
    /\ \/ veto
       \/ ~TakesReserved(c, login) /\ (Full(login) \/ Private(login, mm, invited))

\* The refused client holds a key of the domain: it waits for the answer.
ReferToAuth(c, login, mm, invited, veto) ==
    /\ ServerAuth
    /\ Refused(c, login, mm, invited, veto)
    /\ client' = [client EXCEPT ![c] = [LoggedIn(c, login) EXCEPT !.phase = "auth"]]
    /\ spies' = SpiesWith(c, login)
    /\ UNCHANGED <<slotvars, tasks>>

\* The refused client is disconnected; a spy loses the entry it just got.
TurnAway(c, login, mm, invited, veto) ==
    /\ Refused(c, login, mm, invited, veto)
    /\ client' = [client EXCEPT ![c] = Vacant]
    /\ UNCHANGED <<spies, slotvars, tasks>>

ConnectRequest(c) ==
    \E login \in Logins, mm \in MasterModes, invited, veto \in BOOLEAN :
        \/ AdmitReserved(c, login, mm)
        \/ AdmitOrdinary(c, login, mm, invited)
        \/ ReferToAuth(c, login, mm, invited, veto)
        \/ TurnAway(c, login, mm, invited, veto)

\* player_join_game and player_reject_join_game: the answer of the domain.
JoinGame(c, mm) ==
    /\ client[c].phase \in {"pending", "auth"}
    /\ Join(c, client[c], mm)
    /\ UNCHANGED <<spies, slotvars, tasks>>

RejectJoinGame(c) ==
    /\ client[c].phase \in {"pending", "auth"}
    /\ Leave(c)
    /\ UNCHANGED tasks

AuthAnswer(c) ==
    /\ client[c].phase = "auth"
    /\ \/ \E mm \in MasterModes : JoinGame(c, mm)
       \/ RejectJoinGame(c)

-----------------------------------------------------------------------------
(* Timers and posted work                                                  *)

\* 15 seconds pass.
GrowLate(c) ==
    /\ client[c].phase \in {"pending", "auth"}
    /\ ~client[c].late
    /\ client' = [client EXCEPT ![c].late = TRUE]
    /\ UNCHANGED <<spies, slotvars, tasks>>

\* Mutant of ConnectTimeout: who waits for an authentication domain is spared.
ConnectTimeout_SparesAuth(c) ==
    /\ client[c].phase = "pending"
    /\ client[c].late
    /\ ~client[c].spy
    /\ Leave(c)
    /\ UNCHANGED tasks

\* serverupdate: disconnect_client(clientnum), which ignores the number of a spy.
ConnectTimeout(c) ==
    /\ client[c].phase \in {"pending", "auth"}
    /\ client[c].late
    /\ ~client[c].spy
    /\ Leave(c)
    /\ UNCHANGED tasks

\* Mutant of Disconnect: an empty slot is accepted (get_ci raises an error).
Disconnect_AnySlot(c, bySpyNumber) ==
    /\ Len(tasks) < MaxTasks
    /\ tasks' = Append(tasks, [cn |-> c, session |-> client[c].session, spy |-> bySpyNumber])
    /\ UNCHANGED <<client, spies, slotvars>>

\* server.disconnect(cn, ...) from Lua: names the client by number and session.
\* A script knows a spy by its spy number or still by the number of its slot.
Disconnect(c, bySpyNumber) ==
    /\ client[c].phase # "empty"
    /\ bySpyNumber => client[c].spy
    /\ Len(tasks) < MaxTasks
    /\ tasks' = Append(tasks, [cn |-> c, session |-> client[c].session, spy |-> bySpyNumber])
    /\ UNCHANGED <<client, spies, slotvars>>

\* Mutants of Matches: the session is not compared; only players are found.
Matches_AnySession(task) == client[task.cn].phase # "empty"

Matches_OnlyJoined(task) == /\ client[task.cn].phase = "joined"
                            /\ client[task.cn].session = task.session

\* getinfo(info->cn) is still the client the task was posted for.
Matches(task) == /\ client[task.cn].phase # "empty"
                 /\ client[task.cn].session = task.session

\* execute_disconnect; disconnect_client ignores the number of a spy.
ExecuteDisconnect ==
    /\ tasks # <<>>
    /\ tasks' = Tail(tasks)
    /\ LET task == Head(tasks) IN
       IF ~task.spy /\ Matches(task) THEN Leave(task.cn)
                                     ELSE UNCHANGED <<client, spies, slotvars>>

-----------------------------------------------------------------------------
(* Joined clients                                                          *)

\* setspectator
SetSpectator(c, val) ==
    /\ client[c].phase = "joined"
    /\ ~client[c].spy
    /\ client[c].spec # val
    /\ client' = [client EXCEPT ![c].spec = val]
    /\ UNCHANGED <<spies, slotvars, tasks>>

\* set_spy(cn, true) for a client that plays.
EnterSpy(c) ==
    /\ "spy" \in Logins
    /\ client[c].phase = "joined"
    /\ ~client[c].spy
    /\ Len(spies) < MaxSpies
    /\ client' = [client EXCEPT ![c] = [@ EXCEPT !.spy = TRUE, !.admin = TRUE,
                                               !.spec = TRUE, !.num = Len(spies)]]
    /\ spies' = Append(spies, [cn |-> c, session |-> client[c].session])
    /\ UNCHANGED <<slotvars, tasks>>

Unspied(ci, mm) == [ci EXCEPT !.spy = FALSE, !.num = 0,
                              !.spec = IF mm = "open" THEN FALSE ELSE @]

\* set_spy(cn, false) asked for by spy c: getinfo maps c's number to a client.
LeaveSpy(c, mm) ==
    /\ client[c].phase = "joined"
    /\ client[c].spy
    /\ \E i \in DOMAIN spies :
        /\ FindsSpy(client[c].num, i)
        /\ spies' = Removed(spies, i)
        /\ client' = [client EXCEPT ![spies[i].cn] = Unspied(client[spies[i].cn], mm)]
    /\ UNCHANGED <<slotvars, tasks>>

-----------------------------------------------------------------------------
Next ==
    \/ \E c \in Slots, s \in SessionIds : ClientConnect(c, s)
    \/ \E c \in Slots : PeerGone(c)
    \/ \E c \in Slots : ConnectRequest(c)
    \/ \E c \in Slots : AuthAnswer(c)
    \/ \E c \in Slots : GrowLate(c)
    \/ \E c \in Slots : ConnectTimeout(c)
    \/ \E c \in Slots, bySpyNumber \in BOOLEAN : Disconnect(c, bySpyNumber)
    \/ ExecuteDisconnect
    \/ \E c \in Slots, val \in BOOLEAN : SetSpectator(c, val)
    \/ \E c \in Slots : EnterSpy(c)
    \/ \E c \in Slots, mm \in MasterModes : LeaveSpy(c, mm)

Spec == Init /\ [][Next]_vars

\* Time passes, the update timer fires while a client is connected, and the
\* event loop runs what was posted to it.
Fairness ==
    /\ \A c \in Slots : WF_vars(GrowLate(c)) /\ WF_vars(ConnectTimeout(c))
    /\ WF_vars(ExecuteDisconnect)

FairSpec == Spec /\ Fairness

-----------------------------------------------------------------------------
(* Properties                                                              *)

\* TypeOK: the state is made of the values the code stores.
TypeOK ==
    /\ client \in [Slots -> Client]
    /\ spies \in Seq([cn : Slots, session : SessionIds])
    /\ maxclients \in Int /\ reservedslots \in Int /\ reservedslots_use \in Int
    /\ tasks \in Seq([cn : Slots, session : SessionIds, spy : BOOLEAN])

Holders == {c \in Joined : client[c].using}

\* SlotAccounting: however clients with and without a reserved place come and
\* go, what allowconnect takes is what clientdisconnect gives back: no place is
\* lost or made up, and maxclients is never raised by more than the reserved
\* places that are in use.
SlotAccounting ==
    /\ maxclients = MaxClients + reservedslots_use
    /\ reservedslots + Cardinality(Holders) = ReservedSlots
    /\ reservedslots_use \in 0 .. Cardinality(Holders)

\* RaisedOnlyWhenFull: while maxclients is raised (allowconnect) the server is
\* full, so that nobody without a reserved place profits from it.
RaisedOnlyWhenFull == reservedslots_use > 0 => ClientCount >= maxclients

\* OrdinaryAdmitted: a step that lets in a client that is no spy, holds no
\* reserved place and was not referred to an authentication domain.
OrdinaryAdmitted(c) == /\ client[c].phase = "pending" /\ client'[c].phase = "joined"
                       /\ ~client'[c].using /\ ~client'[c].spy

\* MaxClientsRespected: allowconnect lets in an ordinary client only while fewer
\* than MaxClients players, whoever they are, are on the server.
MaxClientsRespected ==
    [][\A c \in Slots : OrdinaryAdmitted(c) =>
            Cardinality({d \in Joined : ~client[d].spy}) < MaxClients]_vars

\* PoolSpec: the three counters of allowconnect and clientdisconnect implement
\* the pool of places that is described by sets alone.
Pool == INSTANCE SlotPool WITH
    inside   <- Joined,
    holders  <- Holders,
    referred <- {c \in Slots : client[c].phase = "auth"}

ImplementsPool == Pool!PoolSpec

\* DisconnectHitsItsSession: a posted disconnection removes nobody but the session
\* it was posted for, although the slot may have a new occupant when it runs.
DisconnectHitsItsSession ==
    [][\A c \in Slots :
        tasks # <<>> /\ tasks' = Tail(tasks) /\ client[c].session # Head(tasks).session
            => client'[c] = client[c]]_vars

\* SpyCount: numclients and allowconnect take spies.length() for the number of
\* spies; it is, even when an entry of the vector is another client's.
SpyCount == Len(spies) = Cardinality({c \in Slots : client[c].spy})

\* LeaveSpyIsOwn: "/spy 0" takes the spy that typed it out of the spy mode.
LeaveSpyIsOwn ==
    [][\A c \in Slots : (\E mm \in MasterModes : LeaveSpy(c, mm)) => ~client'[c].spy]_vars

\* ConnectResolved: who is connected and is no spy is let in or disconnected,
\* whether or not the authentication domain ever answers.
ConnectResolved ==
    \A c \in Slots : c \in Waiting /\ ~client[c].spy ~> c \notin Waiting \/ client[c].spy

\* DisconnectTakesEffect: a disconnection posted for the number of a slot is
\* carried out.
DisconnectTakesEffect ==
    \A s \in SessionIds :
        (\E i \in DOMAIN tasks : tasks[i].session = s /\ ~tasks[i].spy)
            ~> \A c \in Slots : client[c].session # s
=============================================================================
