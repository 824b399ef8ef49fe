-------------------------- MODULE MastermodeProofs --------------------------
(***************************************************************************)
(* Proofs about Mastermode for every set of clients and every setting.     *)
(*                                                                         *)
(* The mode and the pause hang on the clients that are present and on      *)
(* their privileges only, so the steps are sorted by what they do to these *)
(* two: those that only add, and those that take a privilege away.         *)
(***************************************************************************)
EXTENDS Mastermode, TLAPS

USE DEF PRIV_NONE, PRIV_MASTER, PRIV_ADMIN

-----------------------------------------------------------------------------
(* Types                                                                   *)

LEMMA InitType == MastermodeInit => MastermodeTypeOK
  <1> SUFFICES ASSUME MastermodeInit PROVE MastermodeTypeOK
    OBVIOUS
  <1>1. mastermode \in MM_AUTH .. MM_PRIVATE
    BY DEF MastermodeInit, MM_AUTH, MM_OPEN, MM_PRIVATE
  <1>2. privilege \in [Clients -> Privileges]
    BY DEF MastermodeInit, Privileges
  <1>3. state \in [Clients -> {"absent", "player", "spectator"}]
    BY DEF MastermodeInit
  <1>4. QED
    BY <1>1, <1>2, <1>3 DEF MastermodeInit, MastermodeTypeOK

\* Losing the last master leaves a mode and a pause of the right type.
LEMMA CleanupType ==
    ASSUME MastermodeTypeOK, NEW priv, NEW present, CleanupMasterstate(priv, present)
    PROVE  /\ mastermode' \in MM_AUTH .. MM_PRIVATE
           /\ allowedips' \subseteq Clients
           /\ setby' \in {"client", "server"}
  BY DEF MastermodeTypeOK, CleanupMasterstate, mmvars, DefaultMode,
         MM_AUTH, MM_OPEN, MM_PRIVATE

LEMMA PauseType ==
    ASSUME MastermodeTypeOK, NEW priv, NEW present,
           Unpause \/ CleanupPause(priv, present) \/ CheckPause(priv, present)
                   \/ UNCHANGED pausevars
    PROVE  gamepaused' \in BOOLEAN /\ pausegame_owner' \in Clients \cup {Nobody}
  BY DEF MastermodeTypeOK, CleanupPause, CheckPause, Unpause, pausevars

LEMMA StepType ==
    ASSUME MastermodeTypeOK, [MastermodeNext]_pvars
    PROVE  MastermodeTypeOK'
  <1> USE DEF MastermodeTypeOK
  <1>1. ASSUME NEW c \in Clients, NEW p \in Privileges, NEW s \in BOOLEAN, NEW r \in BOOLEAN,
               Connect(c, p, s, r)
        PROVE  MastermodeTypeOK'
    BY <1>1 DEF Connect, mmvars, pausevars
  <1>2. ASSUME NEW c \in Clients, Disconnect(c)
        PROVE  MastermodeTypeOK'
    <2> PICK found : LET unset == [d \in Clients |-> IF d \in found THEN PRIV_NONE ELSE privilege[d]]
                         left  == [unset EXCEPT ![c] = PRIV_NONE]
                     IN  /\ privilege' = left
                         /\ IF privilege[c] # PRIV_NONE /\ found # {}
                            THEN CleanupMasterstate(unset, Present)
                            ELSE UNCHANGED mmvars
                         /\ IF ResetMM /\ gamepaused
                               /\ \/ privilege[c] # PRIV_NONE /\ found # {} /\ ~HasMaster(unset, Present)
                                  \/ ~MayPause(left, Present \ {c})
                            THEN Unpause ELSE UNCHANGED pausevars
      BY <1>2 DEF Disconnect
    <2>1. privilege' \in [Clients -> Privileges]
      BY DEF Privileges
    <2>2. /\ mastermode' \in MM_AUTH .. MM_PRIVATE
          /\ allowedips' \subseteq Clients
          /\ setby' \in {"client", "server"}
      BY CleanupType DEF mmvars
    <2>3. gamepaused' \in BOOLEAN /\ pausegame_owner' \in Clients \cup {Nobody}
      BY PauseType
    <2>4. QED
      BY <1>2, <2>1, <2>2, <2>3 DEF Disconnect
  <1>3. ASSUME NEW c \in Clients, Unset(c),
               CheckPause(privilege', Present) \/ CleanupPause(privilege', Present)
        PROVE  MastermodeTypeOK'
    BY <1>3, CleanupType, PauseType DEF Unset, SetPrivilege, Privileges
  <1>4. ASSUME NEW c \in Clients, NEW p \in Privileges, Claim(c, p) \/ ScriptGrant(c, p)
        PROVE  MastermodeTypeOK'
    BY <1>4, PauseType DEF Claim, ScriptGrant, SetPrivilege, mmvars, pausevars
  <1>5. CASE UnsetMaster
    BY <1>5, CleanupType, PauseType DEF UnsetMaster, Privileges
  <1>6. ASSUME NEW c \in Clients, EnterSpy(c) \/ LeaveSpy(c)
        PROVE  MastermodeTypeOK'
    BY <1>6 DEF EnterSpy, LeaveSpy, SetPrivilege, Present, Privileges, mmvars, pausevars
  <1>7. ASSUME NEW mm \in MM_AUTH .. MM_PRIVATE, NEW by \in {"client", "server"}, SetMode(mm, by)
        PROVE  MastermodeTypeOK'
    BY <1>7 DEF SetMode, Present, privvars, pausevars
  <1>8. ASSUME NEW b \in BOOLEAN, ScriptPause(b) \/ \E c \in Clients : PauseGame(c, b)
        PROVE  MastermodeTypeOK'
    BY <1>8 DEF ScriptPause, PauseGame, privvars, mmvars
  <1>9. ASSUME NEW c \in Clients, NEW d \in Clients, NEW b \in BOOLEAN,
               GiveMaster(c, d, b) \/ Spectate(c, d, b) \/ ScriptSpectate(d, b, c = d)
        PROVE  MastermodeTypeOK'
    BY <1>9 DEF GiveMaster, Spectate, ScriptSpectate, SetPrivilege, Privileges, mmvars, pausevars
  <1>10. CASE UNCHANGED pvars
    BY <1>10 DEF pvars, privvars, mmvars, pausevars
  <1>11. QED
    <2>1. MM_OPEN .. MM_PRIVATE \subseteq MM_AUTH .. MM_PRIVATE
      BY DEF MM_OPEN, MM_AUTH, MM_PRIVATE
    <2>2. QED
      BY <1>1, <1>2, <1>3, <1>4, <1>5, <1>6, <1>7, <1>8, <1>9, <1>10, <2>1
      DEF MastermodeNext, Relinquish, ScriptUnset, RequestMode, ScriptMode

\* PrivilegesTyped: the state is made of the values that the code stores, for
\* every set of clients, with and without spies.
THEOREM PrivilegesTyped == MastermodeSpec => []MastermodeTypeOK
  BY InitType, StepType, PTL DEF MastermodeSpec

-----------------------------------------------------------------------------
(* Whoever may end the pause or take back the mode                         *)

LEMMA PausePrivType == PausePriv \in {PRIV_MASTER, PRIV_ADMIN}
  BY DEF PausePriv

\* Nobody loses anything: whoever was there is, with no smaller privilege.
Upward == /\ Present \subseteq Present'
          /\ \A c \in Present : privilege'[c] >= privilege[c]

LEMMA UpwardKeeps ==
    ASSUME MastermodeTypeOK, MastermodeTypeOK', Upward
    PROVE  /\ HasMaster(privilege, Present) => HasMaster(privilege', Present')
           /\ MayPause(privilege, Present) => MayPause(privilege', Present')
  <1>1. \A c \in Present : c \in Clients /\ privilege[c] \in Int /\ privilege'[c] \in Int
    BY DEF MastermodeTypeOK, Present, Privileges
  <1>2. PausePriv \in Int
    BY PausePrivType
  <1>3. QED
    BY <1>1, <1>2 DEF Upward, HasMaster, MayPause

\* The steps that take nothing from anybody.
LEMMA UpwardSteps ==
    ASSUME MastermodeTypeOK, NEW c \in Clients, NEW d \in Clients,
           NEW p \in Privileges, NEW s \in BOOLEAN, NEW r \in BOOLEAN,
           \/ Connect(c, p, s, r) \/ EnterSpy(c) \/ LeaveSpy(c)
           \/ Spectate(c, d, s) \/ ScriptSpectate(d, s, r) \/ GiveMaster(c, d, s)
           \/ UNCHANGED privvars
    PROVE  Upward
  <1>1. \A e \in Clients : privilege[e] \in {PRIV_NONE, PRIV_MASTER, PRIV_ADMIN}
    BY DEF MastermodeTypeOK, Privileges
  <1>2. state \in [Clients -> {"absent", "player", "spectator"}] /\ privilege \in [Clients -> Privileges]
    BY DEF MastermodeTypeOK
  <1>3. CASE Connect(c, p, s, r)
    BY <1>1, <1>2, <1>3 DEF Connect, Upward, Present
  <1>4. CASE EnterSpy(c) \/ LeaveSpy(c)
    BY <1>1, <1>2, <1>4 DEF EnterSpy, LeaveSpy, SetPrivilege, Upward, Present
  <1>5. CASE Spectate(c, d, s) \/ ScriptSpectate(d, s, r)
    BY <1>1, <1>2, <1>5 DEF Spectate, ScriptSpectate, Upward, Present
  <1>6. CASE GiveMaster(c, d, s)
    BY <1>1, <1>2, <1>6 DEF GiveMaster, SetPrivilege, Upward, Present
  <1>7. CASE UNCHANGED privvars
    BY <1>1, <1>7 DEF privvars, Upward, Present
  <1>8. QED
    BY <1>3, <1>4, <1>5, <1>6, <1>7

-----------------------------------------------------------------------------
(* The pause                                                               *)

LEMMA PauseStep ==
    ASSUME ~RestrictPause, MastermodeTypeOK, MastermodeTypeOK', PauseIsRevocable,
           [MastermodeNext]_pvars
    PROVE  PauseIsRevocable'
  <1>1. PausePriv = PRIV_MASTER
    BY DEF PausePriv
  <1>2. \A priv, present : MayPause(priv, present) <=> HasMaster(priv, present)
    BY <1>1 DEF MayPause, HasMaster
  <1>3. ASSUME Upward, UNCHANGED pausevars
        PROVE  PauseIsRevocable'
    BY <1>3, UpwardKeeps DEF PauseIsRevocable, pausevars
  <1>4. ASSUME Present' = Present,
               CheckPause(privilege', Present) \/ CleanupPause(privilege', Present)
        PROVE  PauseIsRevocable'
    BY <1>2, <1>4 DEF CheckPause, CleanupPause, PauseIsRevocable, Unpause, pausevars, MayPause, PausePriv
  <1>5. ASSUME NEW c \in Clients, Disconnect(c)
        PROVE  PauseIsRevocable'
    <2>1. Present' = Present \ {c}
      BY <1>5 DEF Disconnect, Present, MastermodeTypeOK
    <2>2. CASE Unpause
      BY <2>2 DEF Unpause, PauseIsRevocable
    <2>3. CASE ~Unpause
      <3>1. UNCHANGED pausevars /\ (ResetMM /\ gamepaused => MayPause(privilege', Present \ {c}))
        BY <1>5, <2>3 DEF Disconnect
      <3>2. QED
        BY <2>1, <3>1 DEF PauseIsRevocable, pausevars
    <2>4. QED
      BY <2>2, <2>3
  <1>6. ASSUME NEW c \in Clients, NEW p \in Privileges, Claim(c, p) \/ ScriptGrant(c, p)
        PROVE  PauseIsRevocable'
    <2>1. c \in Present /\ Present' = Present /\ privilege'[c] = p /\ p # PRIV_NONE
      BY <1>6 DEF Claim, ScriptGrant, SetPrivilege, Present, MastermodeTypeOK
    <2>2. MayPause(privilege', Present')
      BY <1>2, <2>1 DEF HasMaster, Privileges
    <2>3. QED
      BY <2>2 DEF PauseIsRevocable
  <1>7. ASSUME NEW c \in Clients, Relinquish(c) \/ ScriptUnset(c)
        PROVE  PauseIsRevocable'
    BY <1>4, <1>7 DEF Relinquish, ScriptUnset, Unset, Present
  <1>8. CASE UnsetMaster
    BY <1>4, <1>8 DEF UnsetMaster, Present
  <1>9. ASSUME NEW c \in Clients, NEW b \in BOOLEAN, PauseGame(c, b)
        PROVE  PauseIsRevocable'
    BY <1>9 DEF PauseGame, PauseIsRevocable, MayPause, Present, privvars, PausePriv
  <1>10. ASSUME NEW b \in BOOLEAN, ScriptPause(b)
         PROVE  PauseIsRevocable'
    BY <1>10 DEF ScriptPause, PauseIsRevocable
  <1>11. ASSUME NEW mm, NEW by, SetMode(mm, by)
         PROVE  PauseIsRevocable'
    BY <1>11 DEF SetMode, privvars, pausevars, PauseIsRevocable, MayPause, Present, PausePriv
  <1>12. ASSUME NEW c \in Clients, NEW d \in Clients,
                NEW p \in Privileges, NEW s \in BOOLEAN, NEW r \in BOOLEAN,
                \/ Connect(c, p, s, r) \/ EnterSpy(c) \/ LeaveSpy(c)
                \/ Spectate(c, d, s) \/ ScriptSpectate(d, s, r) \/ GiveMaster(c, d, s)
         PROVE  PauseIsRevocable'
    <2>1. Upward
      BY <1>12, UpwardSteps
    <2>2. UNCHANGED pausevars
      BY <1>12 DEF Connect, EnterSpy, LeaveSpy, Spectate, ScriptSpectate, GiveMaster
    <2>3. QED
      BY <1>3, <2>1, <2>2
  <1>13. CASE UNCHANGED pvars
    BY <1>13 DEF pvars, privvars, pausevars, PauseIsRevocable, MayPause, Present, PausePriv
  <1>14. QED
    <2>1. ASSUME NEW c \in Clients, NEW p \in Privileges, NEW s \in BOOLEAN, NEW r \in BOOLEAN,
                 Connect(c, p, s, r)
          PROVE  PauseIsRevocable'
      BY <1>12, <2>1
    <2>2. ASSUME NEW c \in Clients, EnterSpy(c) \/ LeaveSpy(c)
          PROVE  PauseIsRevocable'
      BY <1>12, <2>2 DEF Privileges
    <2>3. ASSUME NEW c \in Clients, NEW d \in Clients, NEW b \in BOOLEAN,
                 GiveMaster(c, d, b) \/ Spectate(c, d, b) \/ ScriptSpectate(d, b, c = d)
          PROVE  PauseIsRevocable'
      BY <1>12, <2>3 DEF Privileges
    <2>4. QED
      BY <2>1, <2>2, <2>3, <1>5, <1>6, <1>7, <1>8, <1>9, <1>10, <1>11, <1>13
      DEF MastermodeNext, RequestMode, ScriptMode

\* PausesAreRevocable: where masters may pause, whatever way privileges are given,
\* changed and lost, a client's pause ends or somebody present may end it.
THEOREM PausesAreRevocable ==
    ASSUME ~RestrictPause
    PROVE  MastermodeSpec => []PauseIsRevocable
  <1>1. MastermodeInit => PauseIsRevocable
    BY DEF MastermodeInit, PauseIsRevocable
  <1>2. MastermodeTypeOK /\ MastermodeTypeOK' /\ PauseIsRevocable /\ [MastermodeNext]_pvars
          => PauseIsRevocable'
    BY PauseStep
  <1>3. QED
    BY <1>1, <1>2, PrivilegesTyped, PTL DEF MastermodeSpec

-----------------------------------------------------------------------------
(* The mastermode                                                          *)

\* Without spies the listeners of setmaster always find who leaves.
NoSpies == spy = {}

LEMMA NoSpyStep ==
    ASSUME ~Spies, NoSpies, [MastermodeNext]_pvars
    PROVE  NoSpies'
  <1>1. ASSUME NEW c \in Clients, Disconnect(c)
        PROVE  NoSpies'
    BY <1>1 DEF Disconnect, NoSpies
  <1>2. QED
    BY <1>1 DEF NoSpies, MastermodeNext, pvars, privvars, Connect, Relinquish, ScriptUnset,
        Unset, EnterSpy, LeaveSpy, Claim, ScriptGrant, UnsetMaster, RequestMode, ScriptMode,
        SetMode, ScriptPause, PauseGame, GiveMaster, Spectate, ScriptSpectate

LEMMA ModeStep ==
    ASSUME MastermodeTypeOK, MastermodeTypeOK', NoSpies, MasterlessIsReset,
           [MastermodeNext]_pvars
    PROVE  MasterlessIsReset'
  <1>1. ASSUME Upward, UNCHANGED mmvars
        PROVE  MasterlessIsReset'
    BY <1>1, UpwardKeeps DEF MasterlessIsReset, mmvars
  <1>2. ASSUME Present' = Present, CleanupMasterstate(privilege', Present)
        PROVE  MasterlessIsReset'
    BY <1>2 DEF CleanupMasterstate, MasterlessIsReset
  <1>3. ASSUME NEW c \in Clients, Disconnect(c)
        PROVE  MasterlessIsReset'
    <2>1. Present' = Present \ {c} /\ c \in Present
      BY <1>3 DEF Disconnect, Present, MastermodeTypeOK
    <2> DEFINE left == [privilege EXCEPT ![c] = PRIV_NONE]
    <2>2. /\ privilege' = left
          /\ IF privilege[c] # PRIV_NONE THEN CleanupMasterstate(left, Present)
                                         ELSE UNCHANGED mmvars
      <3>1. PICK found \in {{c}} :
              LET unset == [d \in Clients |-> IF d \in found THEN PRIV_NONE ELSE privilege[d]]
              IN  /\ privilege' = [unset EXCEPT ![c] = PRIV_NONE]
                  /\ IF privilege[c] # PRIV_NONE /\ found # {}
                     THEN CleanupMasterstate(unset, Present)
                     ELSE UNCHANGED mmvars
        BY <1>3 DEF Disconnect, NoSpies
      <3>2. [d \in Clients |-> IF d \in found THEN PRIV_NONE ELSE privilege[d]] = left
        BY DEF MastermodeTypeOK
      <3>3. [left EXCEPT ![c] = PRIV_NONE] = left
        BY DEF MastermodeTypeOK
      <3>4. QED
        BY <3>1, <3>2, <3>3
    <2>3. \A d \in Present : left[d] = IF d = c THEN PRIV_NONE ELSE privilege[d]
      BY DEF MastermodeTypeOK, Present
    <2>4. HasMaster(left, Present) => HasMaster(left, Present \ {c})
      BY <2>3 DEF HasMaster
    <2>5. CASE privilege[c] # PRIV_NONE
      BY <2>1, <2>2, <2>4, <2>5 DEF CleanupMasterstate, MasterlessIsReset
    <2>6. CASE privilege[c] = PRIV_NONE
      <3>1. HasMaster(privilege, Present) => HasMaster(left, Present)
        BY <2>3, <2>6 DEF HasMaster
      <3>2. QED
        BY <2>1, <2>2, <2>4, <2>6, <3>1 DEF MasterlessIsReset, mmvars
    <2>7. QED
      BY <2>5, <2>6
  <1>4. ASSUME NEW c \in Clients, NEW p \in Privileges, Claim(c, p) \/ ScriptGrant(c, p)
        PROVE  MasterlessIsReset'
    <2>1. c \in Present /\ Present' = Present /\ privilege'[c] = p /\ p # PRIV_NONE
      BY <1>4 DEF Claim, ScriptGrant, SetPrivilege, Present, MastermodeTypeOK
    <2>2. HasMaster(privilege', Present')
      BY <2>1 DEF HasMaster, Privileges
    <2>3. QED
      BY <2>2 DEF MasterlessIsReset
  <1>5. ASSUME NEW c \in Clients, Relinquish(c) \/ ScriptUnset(c)
        PROVE  MasterlessIsReset'
    BY <1>2, <1>5 DEF Relinquish, ScriptUnset, Unset, Present
  <1>6. CASE UnsetMaster
    BY <1>2, <1>6 DEF UnsetMaster, Present
  <1>7. ASSUME NEW c \in Clients, NEW mm, RequestMode(c, mm)
        PROVE  MasterlessIsReset'
    <2>1. c \in Present /\ privilege[c] \in {PRIV_MASTER, PRIV_ADMIN}
      BY <1>7 DEF RequestMode, MastermodeTypeOK, Privileges
    <2>2. HasMaster(privilege', Present')
      BY <1>7, <2>1 DEF RequestMode, SetMode, HasMaster, privvars, Present
    <2>3. QED
      BY <2>2 DEF MasterlessIsReset
  <1>8. ASSUME NEW mm, ScriptMode(mm)
        PROVE  MasterlessIsReset'
    BY <1>8 DEF ScriptMode, SetMode, MasterlessIsReset
  <1>9. ASSUME NEW b \in BOOLEAN, ScriptPause(b) \/ \E c \in Clients : PauseGame(c, b)
        PROVE  MasterlessIsReset'
    BY <1>9 DEF PauseGame, ScriptPause, MasterlessIsReset, HasMaster, Present, privvars, mmvars
  <1>10. ASSUME NEW c \in Clients, NEW d \in Clients,
                NEW p \in Privileges, NEW s \in BOOLEAN, NEW r \in BOOLEAN,
                \/ Connect(c, p, s, r) \/ EnterSpy(c) \/ LeaveSpy(c)
                \/ Spectate(c, d, s) \/ ScriptSpectate(d, s, r) \/ GiveMaster(c, d, s)
         PROVE  MasterlessIsReset'
    <2>1. Upward
      BY <1>10, UpwardSteps
    <2>2. UNCHANGED mmvars
      BY <1>10 DEF Connect, EnterSpy, LeaveSpy, Spectate, ScriptSpectate, GiveMaster
    <2>3. QED
      BY <1>1, <2>1, <2>2
  <1>11. CASE UNCHANGED pvars
    BY <1>11 DEF pvars, privvars, mmvars, MasterlessIsReset, HasMaster, Present
  <1>12. QED
    <2>1. ASSUME NEW c \in Clients, NEW p \in Privileges, NEW s \in BOOLEAN, NEW r \in BOOLEAN,
                 Connect(c, p, s, r)
          PROVE  MasterlessIsReset'
      BY <1>10, <2>1
    <2>2. ASSUME NEW c \in Clients, EnterSpy(c) \/ LeaveSpy(c)
          PROVE  MasterlessIsReset'
      BY <1>10, <2>2 DEF Privileges
    <2>3. ASSUME NEW c \in Clients, NEW d \in Clients, NEW b \in BOOLEAN,
                 GiveMaster(c, d, b) \/ Spectate(c, d, b) \/ ScriptSpectate(d, b, c = d)
          PROVE  MasterlessIsReset'
      BY <1>10, <2>3 DEF Privileges
    <2>4. QED
      BY <2>1, <2>2, <2>3, <1>3, <1>4, <1>5, <1>6, <1>7, <1>8, <1>9, <1>11 DEF MastermodeNext

\* ModesAreReset: without spies, every way in which the last privileged client
\* may lose its privilege resets the mastermode that a client set.
THEOREM ModesAreReset ==
    ASSUME ~Spies
    PROVE  MastermodeSpec => []MasterlessIsReset
  <1>1. MastermodeInit => MasterlessIsReset /\ NoSpies
    BY DEF MastermodeInit, MasterlessIsReset, NoSpies
  <1>2. NoSpies /\ [MastermodeNext]_pvars => NoSpies'
    BY NoSpyStep
  <1>3. MastermodeTypeOK /\ MastermodeTypeOK' /\ NoSpies /\ MasterlessIsReset
          /\ [MastermodeNext]_pvars => MasterlessIsReset'
    BY ModeStep
  <1>4. QED
    BY <1>1, <1>2, <1>3, PrivilegesTyped, PTL DEF MastermodeSpec
=============================================================================
