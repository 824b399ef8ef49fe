----------------------------- MODULE Mastermode -----------------------------
(***************************************************************************)
(* Privileges and what hangs on them: the mastermode, the addresses that   *)
(* may come back to a private game, the pause and the spectators           *)
(* (src/src/fpsgame/server.cpp, src/src/hopmod/server_functions.cpp and    *)
(* src/script/base/setmaster.lua, which grants and revokes).  A privilege  *)
(* is lost in several places; each of them has to undo what its owner did. *)
(***************************************************************************)
EXTENDS Integers, FiniteSets

CONSTANTS
    Clients,        \* players who may be present, each with its own address
    Nobody,         \* pausegame_owner = -1
    ResetMM,        \* reset_mm
    DisplayOpen,    \* display_open, from allow_setmaster
    RestrictPause,  \* restrictpausegame
    Reconnect,      \* allow_mm_private_reconnect
    Mask,           \* mastermodes a master may set (mastermask)
    Spies           \* the spy mode is used

\* PRIV_AUTH differs from PRIV_MASTER in nothing that follows.
PRIV_NONE   == 0
PRIV_MASTER == 1
PRIV_ADMIN  == 3
Privileges == {PRIV_NONE, PRIV_MASTER, PRIV_ADMIN}

MM_AUTH    == -1
MM_OPEN    == 0
MM_VETO    == 1
MM_LOCKED  == 2
MM_PRIVATE == 3

ASSUME MastermodeAssumption ==
    /\ {ResetMM, DisplayOpen, RestrictPause, Reconnect, Spies} \subseteq BOOLEAN
    /\ Mask \subseteq MM_OPEN .. MM_PRIVATE
    /\ Nobody \notin Clients

VARIABLES
    state,              \* of each client: "absent", "player" or "spectator"
    privilege,
    spy,                \* clients in the spy mode
    selfunspec,         \* clients with allow_self_unspec
    mastermode,
    allowedips,
    gamepaused,
    pausegame_owner,
    setby               \* history: who set the mastermode, "client" or "server"

privvars  == <<state, privilege, spy, selfunspec>>
pausevars == <<gamepaused, pausegame_owner>>
mmvars    == <<mastermode, allowedips, setby>>
pvars     == <<privvars, mmvars, pausevars>>

Present == {c \in Clients : state[c] # "absent"}

MastermodeTypeOK ==
    /\ state \in [Clients -> {"absent", "player", "spectator"}]
    /\ privilege \in [Clients -> Privileges]
    /\ spy \subseteq Clients /\ selfunspec \subseteq Clients
    /\ mastermode \in MM_AUTH .. MM_PRIVATE
    /\ allowedips \subseteq Clients
    /\ gamepaused \in BOOLEAN
    /\ pausegame_owner \in Clients \cup {Nobody}
    /\ setby \in {"client", "server"}

DefaultMode == IF DisplayOpen THEN MM_OPEN ELSE MM_AUTH

MastermodeInit ==
    /\ state = [c \in Clients |-> "absent"]
    /\ privilege = [c \in Clients |-> PRIV_NONE]
    /\ spy = {} /\ selfunspec = {}
    /\ mastermode = MM_OPEN
    /\ allowedips = {}
    /\ gamepaused = FALSE /\ pausegame_owner = Nobody
    /\ setby = "server"

-----------------------------------------------------------------------------
(* Losing a privilege.  Each operator is applied to the privileges and the *)
(* clients that are left when the code looks at them.                      *)

PausePriv == IF RestrictPause THEN PRIV_ADMIN ELSE PRIV_MASTER

HasMaster(priv, present) == \E c \in present : priv[c] >= PRIV_MASTER

MayPause(priv, present) == \E c \in present : priv[c] >= PausePriv

\* Mutant of CleanupMasterstate: an old private game lets its players in.
CleanupMasterstate_KeepsMode(priv, present) ==
    UNCHANGED <<mastermode, allowedips, setby>>

\* cleanup_masterstate, but for the pause.
CleanupMasterstate(priv, present) ==
    IF ResetMM /\ ~HasMaster(priv, present)
    THEN /\ mastermode' = DefaultMode
         /\ allowedips' = {}
         /\ setby' = "server"
    ELSE UNCHANGED mmvars

Unpause == gamepaused' = FALSE /\ pausegame_owner' = Nobody

\* Mutant of CleanupPause: the pause outlives the masters.
CleanupPause_Forgets(priv, present) == UNCHANGED pausevars

\* The pause of cleanup_masterstate: it ends with the last master.
CleanupPause(priv, present) ==
    IF ResetMM /\ gamepaused /\ ~HasMaster(priv, present)
    THEN Unpause ELSE UNCHANGED pausevars

\* checkpausegame if reset_mm: it ends with the last client who could end it.
CheckPause(priv, present) ==
    IF ResetMM /\ gamepaused /\ ~MayPause(priv, present)
    THEN Unpause ELSE UNCHANGED pausevars

-----------------------------------------------------------------------------
(* Clients come and go                                                     *)

\* A private game takes a client whose address is allowed, or one with a
\* reserved slot.
Admits(c) == mastermode < MM_PRIVATE \/ c \in allowedips

\* connected.  A password at the connection may have made the client a master,
\* an admin or a spy (setmaster.lua, "connecting").  allow_self_unspec is not
\* set by the constructor.
Connect(c, priv, asSpy, reserved) ==
    /\ state[c] = "absent"
    /\ Admits(c) \/ reserved
    /\ asSpy => Spies /\ priv = PRIV_ADMIN
    /\ state' = [state EXCEPT ![c] = IF mastermode >= MM_LOCKED THEN "spectator" ELSE "player"]
    /\ privilege' = [privilege EXCEPT ![c] = priv]
    /\ spy' = IF asSpy THEN spy \cup {c} ELSE spy
    /\ \E garbage \in BOOLEAN : selfunspec' = IF garbage THEN selfunspec \cup {c} ELSE selfunspec
    /\ UNCHANGED <<mmvars, pausevars>>

\* clientdisconnect: the listeners of setmaster revoke the privilege.  A spy has
\* been taken off "spies" by then: unsetpriv finds no client with its number,
\* and fails (or finds another spy that has the same number).
Disconnect(c) ==
    /\ state[c] # "absent"
    /\ state' = [state EXCEPT ![c] = "absent"]
    /\ spy' = spy \ {c} /\ selfunspec' = selfunspec \ {c}
    /\ \E found \in IF c \in spy THEN {{}} \cup {{d} : d \in spy \ {c}} ELSE {{c}} :
         LET unset == [d \in Clients |-> IF d \in found THEN PRIV_NONE ELSE privilege[d]]
             left  == [unset EXCEPT ![c] = PRIV_NONE]
         IN  /\ privilege' = left
             /\ IF privilege[c] # PRIV_NONE /\ found # {}
                THEN CleanupMasterstate(unset, Present)
                ELSE UNCHANGED mmvars
             /\ IF ResetMM /\ gamepaused
                   /\ \/ privilege[c] # PRIV_NONE /\ found # {} /\ ~HasMaster(unset, Present)
                      \/ ~MayPause(left, Present \ {c})
                THEN Unpause ELSE UNCHANGED pausevars

-----------------------------------------------------------------------------
(* Privileges                                                              *)

SetPrivilege(c, priv) == privilege' = [privilege EXCEPT ![c] = priv]

\* N_SETMASTER for oneself: allow_setmaster when there is no master, or the
\* password of a master or an admin (setmaster.lua).
Claim(c, priv) ==
    /\ c \in Present
    /\ priv # PRIV_NONE
    /\ SetPrivilege(c, priv)
    /\ CheckPause(privilege', Present)
    /\ UNCHANGED <<state, spy, selfunspec, mmvars>>

\* unset_player_privilege
Unset(c) ==
    /\ privilege[c] # PRIV_NONE
    /\ SetPrivilege(c, PRIV_NONE)
    /\ CleanupMasterstate(privilege', Present)
    /\ UNCHANGED <<state, spy, selfunspec>>

\* N_SETMASTER 0: checkpausegame follows.
Relinquish(c) == c \in Present /\ Unset(c) /\ CheckPause(privilege', Present)

\* server.unsetpriv from a script: nothing follows.
ScriptUnset(c) == c \in Present /\ Unset(c) /\ CleanupPause(privilege', Present)

\* N_SETMASTER for another client: it becomes a master whatever val says.
GiveMaster(c, d, val) ==
    /\ {c, d} \subseteq Present /\ c # d
    /\ privilege[c] > privilege[d]
    /\ val => privilege[d] = PRIV_NONE
    /\ SetPrivilege(d, PRIV_MASTER)
    /\ UNCHANGED <<state, spy, selfunspec, mmvars, pausevars>>

\* server.setmaster and server.setadmin from a script.
ScriptGrant(c, priv) ==
    /\ c \in Present
    /\ priv # PRIV_NONE
    /\ SetPrivilege(c, priv)
    /\ UNCHANGED <<state, spy, selfunspec, mmvars, pausevars>>

\* unsetmaster: every plain master.
UnsetMaster ==
    /\ privilege' = [c \in Clients |-> IF privilege[c] = PRIV_MASTER THEN PRIV_NONE
                                                                     ELSE privilege[c]]
    /\ CleanupMasterstate(privilege', Present)
    /\ CleanupPause(privilege', Present)
    /\ UNCHANGED <<state, spy, selfunspec>>

\* set_spy of a client that is connected.
EnterSpy(c) ==
    /\ Spies /\ c \in Present \ spy
    /\ spy' = spy \cup {c}
    /\ SetPrivilege(c, PRIV_ADMIN)
    /\ state' = [state EXCEPT ![c] = "spectator"]
    /\ UNCHANGED <<selfunspec, mmvars, pausevars>>

LeaveSpy(c) ==
    /\ c \in spy
    /\ spy' = spy \ {c}
    /\ state' = IF mastermode <= MM_VETO THEN [state EXCEPT ![c] = "player"] ELSE state
    /\ UNCHANGED <<privilege, selfunspec, mmvars, pausevars>>

-----------------------------------------------------------------------------
(* Mastermode, pause and spectators                                        *)

\* set_mastermode_cn.  A spy is listed under its spy number, which has no address.
SetMode(mm, by) ==
    /\ mm # mastermode
    /\ mastermode' = mm
    /\ allowedips' = IF Reconnect /\ mm >= MM_PRIVATE THEN Present \ spy ELSE {}
    /\ setby' = by
    /\ UNCHANGED <<privvars, pausevars>>

\* N_MASTERMODE
RequestMode(c, mm) ==
    /\ c \in Present
    /\ privilege[c] # PRIV_NONE
    /\ mm \in MM_OPEN .. MM_PRIVATE
    /\ privilege[c] >= PRIV_ADMIN \/ mm \in Mask
    /\ SetMode(mm, "client")

\* server.mastermode = mm
ScriptMode(mm) == SetMode(mm, "server")

\* N_PAUSEGAME: whoever sends it last owns the pause.
PauseGame(c, val) ==
    /\ c \in Present
    /\ privilege[c] >= PausePriv
    /\ gamepaused' = val
    /\ pausegame_owner' = c
    /\ UNCHANGED <<privvars, mmvars>>

\* server.pausegame, and the pausegame(false) of changemap.
ScriptPause(val) ==
    /\ gamepaused' = val
    /\ pausegame_owner' = Nobody
    /\ UNCHANGED <<privvars, mmvars>>

MaySpectate(c, d, val) ==
    \/ privilege[c] # PRIV_NONE
    \/ /\ c = d
       /\ ~(state[c] = "spectator" /\ (mastermode >= MM_LOCKED \/ (~val /\ c \notin selfunspec)))

\* N_SPECTATOR and setspectator.  A spy stays where it is.
Spectate(c, d, val) ==
    /\ {c, d} \subseteq Present
    /\ MaySpectate(c, d, val)
    /\ ~(d # c /\ d \in spy)
    /\ ~(val /\ d # c /\ privilege[d] # PRIV_NONE /\ privilege[c] < PRIV_ADMIN)
    /\ selfunspec' = IF c = d /\ val THEN selfunspec \cup {d} ELSE selfunspec \ {d}
    /\ state' = IF d \in spy THEN state
                ELSE [state EXCEPT ![d] = IF val THEN "spectator" ELSE "player"]
    /\ UNCHANGED <<privilege, spy, mmvars, pausevars>>

\* player_force_spec, player_unforce_spec, player_spec, player_unspec.
ScriptSpectate(d, val, self) ==
    /\ d \in Present
    /\ selfunspec' = IF self THEN selfunspec \cup {d} ELSE selfunspec \ {d}
    /\ state' = IF d \in spy THEN state
                ELSE [state EXCEPT ![d] = IF val THEN "spectator" ELSE "player"]
    /\ UNCHANGED <<privilege, spy, mmvars, pausevars>>

MastermodeNext ==
    \/ \E c \in Clients, p \in Privileges, s, r \in BOOLEAN : Connect(c, p, s, r)
    \/ \E c \in Clients : \/ Disconnect(c) \/ Relinquish(c) \/ ScriptUnset(c)
                          \/ EnterSpy(c) \/ LeaveSpy(c)
    \/ \E c \in Clients, p \in Privileges : Claim(c, p) \/ ScriptGrant(c, p)
    \/ UnsetMaster
    \/ \E c \in Clients, mm \in MM_OPEN .. MM_PRIVATE : RequestMode(c, mm)
    \/ \E mm \in MM_AUTH .. MM_PRIVATE : ScriptMode(mm)
    \/ \E b \in BOOLEAN : ScriptPause(b) \/ \E c \in Clients : PauseGame(c, b)
    \/ \E c, d \in Clients, b \in BOOLEAN :
          GiveMaster(c, d, b) \/ Spectate(c, d, b) \/ ScriptSpectate(d, b, c = d)

MastermodeSpec == MastermodeInit /\ [][MastermodeNext]_pvars

-----------------------------------------------------------------------------
(* Properties                                                              *)

\* The mastermode a client set does not outlive the last privileged client: when
\* nobody present has a privilege, no mode that a client set is in force
\* (cleanup_masterstate; conf/server_conf.lua.dist:192, "Reset mastermode when last
\* master leaves / drops privileges").
MasterlessIsReset ==
    ResetMM /\ ~HasMaster(privilege, Present) => setby = "server"

\* A game that a client paused can be resumed by some client who is present:
\* every loss of privilege on the way ends the pause (checkpausegame,
\* cleanup_masterstate).
PauseIsRevocable ==
    ResetMM /\ gamepaused /\ pausegame_owner # Nobody => MayPause(privilege, Present)
=============================================================================
