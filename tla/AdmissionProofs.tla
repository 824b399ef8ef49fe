--------------------------- MODULE AdmissionProofs ---------------------------
(***************************************************************************)
(* Proofs about Admission for every number of slots, places and spies.  At *)
(* the end, what the run live puts side by side is each of its two parts.  *)
(***************************************************************************)
EXTENDS MCLive, TLAPS, FiniteSetTheorems, SequenceTheorems

Entry == [cn : Slots, session : SessionIds]
Task  == [cn : Slots, session : SessionIds, spy : BOOLEAN]

\* An occupied slot has a session, and only a player holds a reserved place.
WellFormed == \A c \in Slots :
    /\ client[c].phase # "empty" => client[c].session \in SessionIds
    /\ client[c].using => client[c].phase = "joined"

TInv == TypeOK /\ WellFormed

\* RemovedType: vector::remove leaves a vector of the same things.
LEMMA RemovedType ==
    ASSUME NEW T, NEW s \in Seq(T), NEW i \in Nat \ {0}
    PROVE  Removed(s, i) \in Seq(T)
  <1>1. Len(s) \in Nat
    BY LenProperties
  <1>2. CASE i <= Len(s)
    <2>1. SubSeq(s, 1, i - 1) \in Seq(T)
      BY <1>1, <1>2, SubSeqProperties
    <2>2. SubSeq(s, i + 1, Len(s)) \in Seq(T)
      BY <1>1, <1>2, SubSeqProperties
    <2> QED BY <1>2, <2>1, <2>2, ConcatProperties DEF Removed
  <1>3. CASE ~(i <= Len(s)) /\ Len(s) # 0
    <2>1. SubSeq(s, 1, Len(s) - 1) \in Seq(T)
      BY <1>1, <1>3, SubSeqProperties
    <2> QED BY <1>3, <2>1 DEF Removed
  <1>4. CASE Len(s) = 0
    <2>1. SubSeq(s, 1, Len(s) - 1) = <<>>
      BY <1>4
    <2> QED BY <1>1, <1>4, <2>1, EmptySeq DEF Removed
  <1> QED BY <1>2, <1>3, <1>4

\* VacantType: a slot can always be emptied.
LEMMA VacantType == Vacant \in Client
  BY DEF Vacant, Client

\* LeaveType: clientdisconnect keeps the types, whoever leaves.
LEMMA LeaveType ==
    ASSUME TInv, NEW c \in Slots, Leave(c), tasks' \in Seq(Task)
    PROVE  TInv'
  <1>1. client' \in [Slots -> Client]
    BY VacantType DEF TInv, TypeOK, Leave
  <1>2. spies' \in Seq(Entry)
    <2>1. client[c].num + 1 \in Nat \ {0}
      BY DEF TInv, TypeOK, Client
    <2> QED BY <2>1, RemovedType DEF TInv, TypeOK, Leave, Entry
  <1>3. /\ maxclients' \in Int /\ reservedslots' \in Int /\ reservedslots_use' \in Int
    BY DEF TInv, TypeOK, Leave, slotvars
  <1>4. WellFormed'
    BY DEF TInv, TypeOK, WellFormed, Leave, Vacant, Client
  <1> QED BY <1>1, <1>2, <1>3, <1>4 DEF TInv, TypeOK, Entry, Task

\* LoggedInType: the listeners of event_connecting change only admin, spy and num.
LEMMA LoggedInType ==
    ASSUME TInv, NEW c \in Slots, NEW login \in Logins, client[c].phase = "pending"
    PROVE  /\ LoggedIn(c, login) \in Client
           /\ LoggedIn(c, login).session = client[c].session
           /\ LoggedIn(c, login).using = client[c].using
           /\ SpiesWith(c, login) \in Seq(Entry)
  <1>1. Len(spies) \in Nat /\ spies \in Seq(Entry)
    BY LenProperties DEF TInv, TypeOK, Entry
  <1>2. client[c] \in Client
    BY DEF TInv, TypeOK
  <1>3. /\ LoggedIn(c, login) \in Client
        /\ LoggedIn(c, login).session = client[c].session
        /\ LoggedIn(c, login).using = client[c].using
    BY <1>1, <1>2 DEF LoggedIn, Client
  <1>4. [cn |-> c, session |-> client[c].session] \in Entry
    BY DEF TInv, WellFormed, Entry
  <1>5. SpiesWith(c, login) \in Seq(Entry)
    BY <1>1, <1>4, AppendProperties DEF SpiesWith
  <1> QED BY <1>3, <1>5

\* PlayingType: connected changes only phase and spec.
LEMMA PlayingType ==
    ASSUME NEW ci \in Client, NEW mm
    PROVE  /\ Playing(ci, mm) \in Client
           /\ Playing(ci, mm).session = ci.session
           /\ Playing(ci, mm).phase = "joined"
           /\ Playing(ci, mm).using = ci.using
  BY DEF Playing, Client

\* FieldTypes: the other changes of a single field.
LEMMA FieldTypes ==
    ASSUME NEW ci \in Client
    PROVE  /\ [ci EXCEPT !.using = TRUE] \in Client
           /\ [ci EXCEPT !.using = TRUE].session = ci.session
           /\ [ci EXCEPT !.using = TRUE].using = TRUE
           /\ [ci EXCEPT !.phase = "auth"] \in Client
           /\ [ci EXCEPT !.phase = "auth"].session = ci.session
           /\ [ci EXCEPT !.phase = "auth"].phase = "auth"
           /\ [ci EXCEPT !.phase = "auth"].using = ci.using
  BY DEF Client

\* ConnectRequestType: whatever N_CONNECT leads to keeps the types.
LEMMA ConnectRequestType ==
    ASSUME TInv, NEW c \in Slots, ConnectRequest(c)
    PROVE  TInv'
  <1>1. PICK login \in Logins, mm \in MasterModes, invited \in BOOLEAN, veto \in BOOLEAN :
            \/ AdmitReserved(c, login, mm)
            \/ AdmitOrdinary(c, login, mm, invited)
            \/ ReferToAuth(c, login, mm, invited, veto)
            \/ TurnAway(c, login, mm, invited, veto)
    BY DEF ConnectRequest
  <1>2. client[c].phase = "pending"
    BY <1>1 DEF AdmitReserved, AdmitOrdinary, ReferToAuth, TurnAway, Refused, CanLogIn
  <1> DEFINE ci == LoggedIn(c, login)
  <1>3. ci \in Client /\ ci.session = client[c].session /\ ci.using = client[c].using
        /\ SpiesWith(c, login) \in Seq(Entry)
    BY <1>2, LoggedInType
  <1>4. client[c].session \in SessionIds /\ ~client[c].using
    BY <1>2 DEF TInv, TypeOK, Client, WellFormed
  <1>5. CASE AdmitReserved(c, login, mm)
    <2> DEFINE ck == [ci EXCEPT !.using = TRUE]
    <2> DEFINE cj == Playing(ck, mm)
    <2>a. ck \in Client /\ ck.session = ci.session
      BY <1>3, FieldTypes
    <2>1. cj \in Client /\ cj.session = ci.session /\ cj.phase = "joined"
      <3> HIDE DEF ck
      <3> QED BY <2>a, PlayingType
    <2>2. client' = [client EXCEPT ![c] = cj]
      BY <1>5 DEF AdmitReserved, Join
    <2>3. /\ spies' = SpiesWith(c, login) /\ tasks' = tasks
          /\ maxclients' \in Int /\ reservedslots' \in Int /\ reservedslots_use' \in Int
      BY <1>5 DEF AdmitReserved, TInv, TypeOK
    <2> HIDE DEF cj, ci
    <2> QED BY <1>3, <1>4, <2>1, <2>2, <2>3 DEF TInv, TypeOK, WellFormed, Entry
  <1>6. CASE AdmitOrdinary(c, login, mm, invited)
    <2> DEFINE cj == Playing(ci, mm)
    <2>1. cj \in Client /\ cj.session = ci.session /\ cj.phase = "joined"
      BY <1>3, PlayingType
    <2>2. client' = [client EXCEPT ![c] = cj]
      BY <1>6 DEF AdmitOrdinary, Join
    <2>3. spies' = SpiesWith(c, login) /\ UNCHANGED <<slotvars, tasks>>
      BY <1>6 DEF AdmitOrdinary
    <2> HIDE DEF cj, ci
    <2> QED BY <1>3, <1>4, <2>1, <2>2, <2>3 DEF TInv, TypeOK, WellFormed, Entry, slotvars
  <1>7. CASE ReferToAuth(c, login, mm, invited, veto)
    <2> DEFINE cj == [ci EXCEPT !.phase = "auth"]
    <2>1. cj \in Client /\ cj.session = ci.session /\ cj.using = ci.using
      BY <1>3, FieldTypes
    <2>2. client' = [client EXCEPT ![c] = cj]
      BY <1>7 DEF ReferToAuth
    <2>3. spies' = SpiesWith(c, login) /\ UNCHANGED <<slotvars, tasks>>
      BY <1>7 DEF ReferToAuth
    <2> HIDE DEF cj, ci
    <2> QED BY <1>3, <1>4, <2>1, <2>2, <2>3 DEF TInv, TypeOK, WellFormed, Entry, slotvars
  <1>8. CASE TurnAway(c, login, mm, invited, veto)
    BY <1>8, VacantType DEF TurnAway, TInv, TypeOK, WellFormed, Vacant, slotvars
  <1> QED BY <1>1, <1>5, <1>6, <1>7, <1>8

\* JoinType: player_join_game keeps the types.
LEMMA JoinGameType ==
    ASSUME TInv, NEW c \in Slots, NEW mm \in MasterModes, JoinGame(c, mm)
    PROVE  TInv'
  <1> DEFINE cj == Playing(client[c], mm)
  <1>1. client[c] \in Client /\ client[c].session \in SessionIds
    BY DEF TInv, TypeOK, WellFormed, JoinGame
  <1>2. cj \in Client /\ cj.session = client[c].session /\ cj.phase = "joined"
    BY <1>1, PlayingType
  <1>3. client' = [client EXCEPT ![c] = cj] /\ UNCHANGED <<spies, slotvars, tasks>>
    BY DEF JoinGame, Join
  <1> HIDE DEF cj
  <1> QED BY <1>1, <1>2, <1>3 DEF TInv, TypeOK, WellFormed, slotvars

\* UnspiedType: set_spy(cn, false) changes only spy, num and spec.
LEMMA UnspiedType ==
    ASSUME NEW ci \in Client, NEW mm
    PROVE  /\ Unspied(ci, mm) \in Client
           /\ Unspied(ci, mm).session = ci.session
           /\ Unspied(ci, mm).phase = ci.phase
           /\ Unspied(ci, mm).using = ci.using
  BY DEF Unspied, Client

\* TInvStep: every step keeps the types.
LEMMA TInvStep == TInv /\ [Next]_vars => TInv'
  <1> SUFFICES ASSUME TInv, [Next]_vars PROVE TInv'
    OBVIOUS
  <1> USE DEF slotvars
  <1>1. ASSUME NEW c \in Slots, NEW s \in SessionIds, ClientConnect(c, s) PROVE TInv'
    BY <1>1 DEF ClientConnect, TInv, TypeOK, WellFormed, Vacant, Client
  <1>2. ASSUME NEW c \in Slots, PeerGone(c) PROVE TInv'
    BY <1>2, LeaveType DEF PeerGone, TInv, TypeOK, Task
  <1>3. ASSUME NEW c \in Slots, ConnectRequest(c) PROVE TInv'
    BY <1>3, ConnectRequestType
  <1>4. ASSUME NEW c \in Slots, AuthAnswer(c) PROVE TInv'
    <2>1. CASE \E mm \in MasterModes : JoinGame(c, mm)
      BY <2>1, JoinGameType
    <2>2. CASE RejectJoinGame(c)
      BY <2>2, LeaveType DEF RejectJoinGame, TInv, TypeOK, Task
    <2> QED BY <1>4, <2>1, <2>2 DEF AuthAnswer
  <1>5. ASSUME NEW c \in Slots, GrowLate(c) PROVE TInv'
    BY <1>5 DEF GrowLate, TInv, TypeOK, WellFormed, Client
  <1>6. ASSUME NEW c \in Slots, ConnectTimeout(c) PROVE TInv'
    BY <1>6, LeaveType DEF ConnectTimeout, TInv, TypeOK, Task
  <1>7. ASSUME NEW c \in Slots, NEW bySpyNumber \in BOOLEAN, Disconnect(c, bySpyNumber) PROVE TInv'
    <2>1. [cn |-> c, session |-> client[c].session, spy |-> bySpyNumber] \in Task
      BY <1>7 DEF Disconnect, TInv, WellFormed, Task
    <2> QED BY <1>7, <2>1, AppendProperties DEF Disconnect, TInv, TypeOK, WellFormed, Task
  <1>8. ASSUME ExecuteDisconnect PROVE TInv'
    <2>1. Head(tasks) \in Task /\ tasks' \in Seq(Task)
      BY <1>8, HeadTailProperties DEF ExecuteDisconnect, TInv, TypeOK, Task
    <2>2. CASE Leave(Head(tasks).cn)
      BY <2>1, <2>2, LeaveType DEF Task
    <2>3. CASE UNCHANGED <<client, spies, slotvars>>
      BY <2>1, <2>3 DEF TInv, TypeOK, WellFormed, Task
    <2> QED BY <1>8, <2>2, <2>3 DEF ExecuteDisconnect
  <1>9. ASSUME NEW c \in Slots, NEW val \in BOOLEAN, SetSpectator(c, val) PROVE TInv'
    BY <1>9 DEF SetSpectator, TInv, TypeOK, WellFormed, Client
  <1>10. ASSUME NEW c \in Slots, EnterSpy(c) PROVE TInv'
    <2>1. [cn |-> c, session |-> client[c].session] \in Entry
      BY <1>10 DEF EnterSpy, TInv, WellFormed, Entry
    <2>2. spies' \in Seq(Entry)
      BY <1>10, <2>1, AppendProperties DEF EnterSpy, TInv, TypeOK, Entry
    <2>3. Len(spies) \in Nat
      BY LenProperties DEF TInv, TypeOK
    <2> DEFINE cj == [client[c] EXCEPT !.spy = TRUE, !.admin = TRUE,
                                       !.spec = TRUE, !.num = Len(spies)]
    <2>4. cj \in Client /\ cj.session = client[c].session /\ cj.phase = client[c].phase
          /\ cj.using = client[c].using
      BY <2>3 DEF TInv, TypeOK, Client
    <2>5. client' = [client EXCEPT ![c] = cj]
      BY <1>10 DEF EnterSpy, TInv, TypeOK
    <2> HIDE DEF cj
    <2>6. client' \in [Slots -> Client] /\ WellFormed'
      BY <2>4, <2>5 DEF TInv, TypeOK, WellFormed
    <2> QED BY <1>10, <2>2, <2>6 DEF EnterSpy, TInv, TypeOK, Entry
  <1>11. ASSUME NEW c \in Slots, NEW mm \in MasterModes, LeaveSpy(c, mm) PROVE TInv'
    <2>1. PICK i \in DOMAIN spies :
            /\ spies' = Removed(spies, i)
            /\ client' = [client EXCEPT ![spies[i].cn] = Unspied(client[spies[i].cn], mm)]
      BY <1>11 DEF LeaveSpy
    <2> DEFINE d == spies[i].cn
    <2> DEFINE cj == Unspied(client[d], mm)
    <2>2. i \in Nat \ {0} /\ d \in Slots
      <3>1. spies \in Seq(Entry) /\ i \in 1 .. Len(spies)
        BY LenProperties DEF TInv, TypeOK, Entry
      <3>2. spies[i] \in Entry /\ i \in Nat \ {0}
        BY <3>1, ElementOfSeq, LenProperties
      <3> QED BY <3>2 DEF Entry
    <2>3. spies' \in Seq(Entry)
      BY <2>1, <2>2, RemovedType DEF TInv, TypeOK, Entry
    <2>4. cj \in Client /\ cj.session = client[d].session /\ cj.phase = client[d].phase
          /\ cj.using = client[d].using
      BY <2>2, UnspiedType DEF TInv, TypeOK
    <2>5. client' = [client EXCEPT ![d] = cj]
      BY <2>1
    <2> HIDE DEF cj, d
    <2>6. client' \in [Slots -> Client] /\ WellFormed'
      BY <2>2, <2>4, <2>5 DEF TInv, TypeOK, WellFormed
    <2> QED BY <1>11, <2>3, <2>6 DEF LeaveSpy, TInv, TypeOK, Entry
  <1>12. CASE UNCHANGED vars
    BY <1>12 DEF vars, TInv, TypeOK, WellFormed
  <1> QED BY <1>1, <1>2, <1>3, <1>4, <1>5, <1>6, <1>7, <1>8, <1>9, <1>10, <1>11, <1>12 DEF Next

LEMMA InitTInv == Init => TInv
  BY ConstantsAssumption, VacantType, EmptySeq
     DEF Init, TInv, TypeOK, WellFormed, Vacant

\* TypeCorrect: the state always has the values the code stores.
THEOREM TypeCorrect == Spec => []TypeOK
  BY InitTInv, TInvStep, PTL DEF Spec, TInv

-----------------------------------------------------------------------------
(***************************************************************************)
(* What a step does to the sets of clients and to the three counters.      *)
(* Every property of the places follows from these seven shapes.           *)
(***************************************************************************)
Referred == {c \in Slots : client[c].phase = "auth"}

Stays == /\ Joined' = Joined /\ Holders' = Holders /\ Referred' = Referred
         /\ UNCHANGED slotvars

Refers(c) == /\ c \notin Joined
             /\ Joined' = Joined /\ Holders' = Holders
             /\ Referred' = Referred \cup {c}
             /\ UNCHANGED slotvars

Drops(c) == /\ c \notin Joined
            /\ Joined' = Joined /\ Holders' = Holders
            /\ Referred' = Referred \ {c}
            /\ UNCHANGED slotvars

Departs(c) ==
    /\ c \in Joined
    /\ Joined' = Joined \ {c} /\ Holders' = Holders \ {c} /\ Referred' = Referred
    /\ maxclients' = IF reservedslots_use > 0 THEN maxclients - 1 ELSE maxclients
    /\ reservedslots_use' = IF reservedslots_use > 0 THEN reservedslots_use - 1
                                                     ELSE reservedslots_use
    /\ reservedslots' = IF c \in Holders THEN reservedslots + 1 ELSE reservedslots

Reserves(c) ==
    /\ c \notin Joined \cup Referred
    /\ reservedslots > 0
    /\ Joined' = Joined \cup {c} /\ Holders' = Holders \cup {c} /\ Referred' = Referred
    /\ reservedslots' = reservedslots - 1
    /\ IF ClientCount >= maxclients
       THEN maxclients' = maxclients + 1 /\ reservedslots_use' = reservedslots_use + 1
       ELSE UNCHANGED <<maxclients, reservedslots_use>>

Enters(c) ==
    /\ c \notin Joined \cup Referred
    /\ \E login \in Logins : ~Full(login)
    /\ Joined' = Joined \cup {c} /\ Holders' = Holders /\ Referred' = Referred
    /\ UNCHANGED slotvars

Authorized(c) ==
    /\ c \in Referred
    /\ Joined' = Joined \cup {c} /\ Holders' = Holders /\ Referred' = Referred \ {c}
    /\ UNCHANGED slotvars

\* ReplaceSets: the sets after the client in slot c became ci.
LEMMA ReplaceSets ==
    ASSUME TInv, NEW c \in Slots, NEW ci \in Client, client' = [client EXCEPT ![c] = ci]
    PROVE  /\ ci.phase = "joined" => Joined' = Joined \cup {c}
           /\ ci.phase # "joined" => Joined' = Joined \ {c}
           /\ ci.phase = "auth" => Referred' = Referred \cup {c}
           /\ ci.phase # "auth" => Referred' = Referred \ {c}
           /\ ci.phase = "joined" /\ ci.using => Holders' = Holders \cup {c}
           /\ ci.phase # "joined" \/ ~ci.using => Holders' = Holders \ {c}
  <1>1. \A d \in Slots : client'[d] = IF d = c THEN ci ELSE client[d]
    BY DEF TInv, TypeOK
  <1>2. Joined' = {d \in Slots : client'[d].phase = "joined"}
    BY DEF Joined
  <1>3. Holders' = {d \in Slots : client'[d].phase = "joined" /\ client'[d].using}
    BY DEF Joined, Holders
  <1>4. Referred' = {d \in Slots : client'[d].phase = "auth"}
    BY DEF Referred
  <1> QED BY <1>1, <1>2, <1>3, <1>4 DEF Joined, Referred, Holders

\* LeaveEffect: what clientdisconnect does to the places.
LEMMA LeaveEffect ==
    ASSUME TInv, NEW c \in Slots, Leave(c)
    PROVE  Departs(c) \/ Drops(c)
  <1>1. /\ Joined' = Joined \ {c} /\ Referred' = Referred \ {c} /\ Holders' = Holders \ {c}
    <2>1. client' = [client EXCEPT ![c] = Vacant] /\ Vacant.phase = "empty"
      BY DEF Leave, Vacant
    <2> QED BY <2>1, VacantType, ReplaceSets
  <1>2. CASE client[c].phase = "joined"
    <2>1. c \in Joined /\ c \notin Referred /\ (c \in Holders <=> client[c].using)
      BY <1>2 DEF Joined, Referred, Holders
    <2> QED BY <1>1, <1>2, <2>1 DEF Leave, Departs
  <1>3. CASE client[c].phase # "joined"
    <2>1. c \notin Joined /\ c \notin Holders
      BY <1>3 DEF Joined, Holders
    <2> QED BY <1>1, <1>3, <2>1 DEF Leave, Drops
  <1> QED BY <1>2, <1>3

\* ConnectRequestEffect: what N_CONNECT does to the places.
LEMMA ConnectRequestEffect ==
    ASSUME TInv, NEW c \in Slots, ConnectRequest(c)
    PROVE  Reserves(c) \/ Enters(c) \/ Refers(c) \/ Drops(c)
  <1>1. PICK login \in Logins, mm \in MasterModes, invited \in BOOLEAN, veto \in BOOLEAN :
            \/ AdmitReserved(c, login, mm)
            \/ AdmitOrdinary(c, login, mm, invited)
            \/ ReferToAuth(c, login, mm, invited, veto)
            \/ TurnAway(c, login, mm, invited, veto)
    BY DEF ConnectRequest
  <1>2. client[c].phase = "pending"
    BY <1>1 DEF AdmitReserved, AdmitOrdinary, ReferToAuth, TurnAway, Refused, CanLogIn
  <1>3. c \notin Joined /\ c \notin Referred /\ c \notin Holders /\ ~client[c].using
    BY <1>2 DEF Joined, Referred, Holders, TInv, WellFormed
  <1> DEFINE ci == LoggedIn(c, login)
  <1>4. ci \in Client /\ ~ci.using
    BY <1>2, <1>3, LoggedInType
  <1>5. CASE AdmitReserved(c, login, mm)
    <2> DEFINE ck == [ci EXCEPT !.using = TRUE]
    <2> DEFINE cj == Playing(ck, mm)
    <2>a. ck \in Client /\ ck.using = TRUE
      BY <1>4, FieldTypes
    <2>1. cj \in Client /\ cj.using /\ cj.phase = "joined"
      <3> HIDE DEF ck
      <3> QED BY <2>a, PlayingType
    <2>2. client' = [client EXCEPT ![c] = cj]
      BY <1>5 DEF AdmitReserved, Join
    <2> HIDE DEF cj, ci
    <2>3. Joined' = Joined \cup {c} /\ Referred' = Referred /\ Holders' = Holders \cup {c}
      <3>1. Joined' = Joined \cup {c} /\ Referred' = Referred \ {c} /\ Holders' = Holders \cup {c}
        BY <2>1, <2>2, ReplaceSets
      <3> QED BY <1>3, <3>1
    <2> QED BY <1>3, <1>5, <2>3 DEF AdmitReserved, TakesReserved, Reserves
  <1>6. CASE AdmitOrdinary(c, login, mm, invited)
    <2> DEFINE cj == Playing(ci, mm)
    <2>1. cj \in Client /\ ~cj.using /\ cj.phase = "joined"
      BY <1>4, PlayingType
    <2>2. client' = [client EXCEPT ![c] = cj]
      BY <1>6 DEF AdmitOrdinary, Join
    <2> HIDE DEF cj, ci
    <2>3. Joined' = Joined \cup {c} /\ Referred' = Referred /\ Holders' = Holders
      <3>1. Joined' = Joined \cup {c} /\ Referred' = Referred \ {c} /\ Holders' = Holders \ {c}
        BY <2>1, <2>2, ReplaceSets
      <3> QED BY <1>3, <3>1
    <2> QED BY <1>3, <1>6, <2>3 DEF AdmitOrdinary, Enters
  <1>7. CASE ReferToAuth(c, login, mm, invited, veto)
    <2> DEFINE cj == [ci EXCEPT !.phase = "auth"]
    <2>1. cj \in Client /\ cj.phase = "auth"
      BY <1>4, FieldTypes
    <2>2. client' = [client EXCEPT ![c] = cj]
      BY <1>7 DEF ReferToAuth
    <2> HIDE DEF cj, ci
    <2>3. Joined' = Joined /\ Referred' = Referred \cup {c} /\ Holders' = Holders
      <3>1. Joined' = Joined \ {c} /\ Referred' = Referred \cup {c} /\ Holders' = Holders \ {c}
        BY <2>1, <2>2, ReplaceSets
      <3> QED BY <1>3, <3>1
    <2> QED BY <1>3, <1>7, <2>3 DEF ReferToAuth, Refers
  <1>8. CASE TurnAway(c, login, mm, invited, veto)
    <2>1. Joined' = Joined /\ Referred' = Referred \ {c} /\ Holders' = Holders
      <3>1. client' = [client EXCEPT ![c] = Vacant] /\ Vacant.phase = "empty"
        BY <1>8 DEF TurnAway, Vacant
      <3>2. Joined' = Joined \ {c} /\ Referred' = Referred \ {c} /\ Holders' = Holders \ {c}
        BY <3>1, VacantType, ReplaceSets
      <3> QED BY <1>3, <3>2
    <2> QED BY <1>3, <1>8, <2>1 DEF TurnAway, Drops
  <1> QED BY <1>1, <1>5, <1>6, <1>7, <1>8

\* SameSets: a step that changes neither phase nor using leaves the sets alone.
LEMMA SameSets ==
    ASSUME UNCHANGED slotvars,
           \A d \in Slots : client'[d].phase = client[d].phase /\ client'[d].using = client[d].using
    PROVE  Stays
  <1>1. Joined' = {d \in Slots : client'[d].phase = "joined"}
    BY DEF Joined
  <1>2. Holders' = {d \in Slots : client'[d].phase = "joined" /\ client'[d].using}
    BY DEF Joined, Holders
  <1>3. Referred' = {d \in Slots : client'[d].phase = "auth"}
    BY DEF Referred
  <1> QED BY <1>1, <1>2, <1>3 DEF Joined, Referred, Holders, Stays

Shaped == \/ Stays
          \/ \E c \in Slots : \/ Refers(c) \/ Drops(c) \/ Departs(c) \/ Reserves(c)
                              \/ Enters(c) \/ Authorized(c)

\* StepEffect: every step has one of the seven shapes.
LEMMA StepEffect == TInv /\ [Next]_vars => Shaped
  <1> SUFFICES ASSUME TInv, [Next]_vars PROVE Shaped
    OBVIOUS
  <1>0. \A c \in Slots : Leave(c) => Shaped
    BY LeaveEffect DEF Shaped
  <1>1. ASSUME NEW c \in Slots, NEW s \in SessionIds, ClientConnect(c, s) PROVE Shaped
    <2> DEFINE ci == [Vacant EXCEPT !.phase = "pending", !.session = s]
    <2>1. ci \in Client /\ ci.phase = "pending"
      BY DEF Vacant, Client
    <2>2. client' = [client EXCEPT ![c] = ci] /\ UNCHANGED slotvars
      BY <1>1 DEF ClientConnect
    <2>3. c \notin Joined /\ c \notin Holders
      BY <1>1 DEF ClientConnect, Joined, Holders
    <2> HIDE DEF ci
    <2>4. Joined' = Joined \ {c} /\ Referred' = Referred \ {c} /\ Holders' = Holders \ {c}
      BY <2>1, <2>2, ReplaceSets
    <2> QED BY <2>2, <2>3, <2>4 DEF Drops, Shaped
  <1>2. ASSUME NEW c \in Slots, PeerGone(c) PROVE Shaped
    BY <1>0, <1>2 DEF PeerGone
  <1>3. ASSUME NEW c \in Slots, ConnectRequest(c) PROVE Shaped
    BY <1>3, ConnectRequestEffect DEF Shaped
  <1>4. ASSUME NEW c \in Slots, AuthAnswer(c) PROVE Shaped
    <2>1. ASSUME NEW mm \in MasterModes, JoinGame(c, mm) PROVE Shaped
      <3> DEFINE ci == Playing(client[c], mm)
      <3>1. client[c] \in Client /\ ~client[c].using
        BY <1>4 DEF TInv, TypeOK, WellFormed, AuthAnswer
      <3>2. ci \in Client /\ ci.phase = "joined" /\ ~ci.using
        BY <3>1, PlayingType
      <3>3. client' = [client EXCEPT ![c] = ci] /\ UNCHANGED slotvars
        BY <2>1 DEF JoinGame, Join
      <3>4. c \in Referred /\ c \notin Holders
        BY <1>4 DEF AuthAnswer, Referred, Joined, Holders
      <3> HIDE DEF ci
      <3>5. Joined' = Joined \cup {c} /\ Referred' = Referred \ {c} /\ Holders' = Holders \ {c}
        BY <3>2, <3>3, ReplaceSets
      <3>6. Holders' = Holders
        BY <3>4, <3>5
      <3> QED BY <3>3, <3>4, <3>5, <3>6 DEF Authorized, Shaped
    <2>2. CASE RejectJoinGame(c)
      BY <1>0, <2>2 DEF RejectJoinGame
    <2> QED BY <1>4, <2>1, <2>2 DEF AuthAnswer
  <1>5. ASSUME NEW c \in Slots, GrowLate(c) PROVE Shaped
    BY <1>5, SameSets DEF GrowLate, TInv, TypeOK, Client, Shaped
  <1>6. ASSUME NEW c \in Slots, ConnectTimeout(c) PROVE Shaped
    BY <1>0, <1>6 DEF ConnectTimeout
  <1>7. ASSUME NEW c \in Slots, NEW bySpyNumber \in BOOLEAN, Disconnect(c, bySpyNumber) PROVE Shaped
    BY <1>7, SameSets DEF Disconnect, Shaped
  <1>8. ASSUME ExecuteDisconnect PROVE Shaped
    <2>1. Head(tasks).cn \in Slots
      <3>1. Head(tasks) \in Task
        BY <1>8, HeadTailProperties DEF ExecuteDisconnect, TInv, TypeOK, Task
      <3> QED BY <3>1 DEF Task
    <2>2. CASE Leave(Head(tasks).cn)
      BY <1>0, <2>1, <2>2
    <2>3. CASE UNCHANGED <<client, spies, slotvars>>
      BY <2>3, SameSets DEF Shaped
    <2> QED BY <1>8, <2>2, <2>3 DEF ExecuteDisconnect
  <1>9. ASSUME NEW c \in Slots, NEW val \in BOOLEAN, SetSpectator(c, val) PROVE Shaped
    BY <1>9, SameSets DEF SetSpectator, TInv, TypeOK, Client, Shaped
  <1>10. ASSUME NEW c \in Slots, EnterSpy(c) PROVE Shaped
    <2> DEFINE ci == [client[c] EXCEPT !.spy = TRUE, !.admin = TRUE,
                                       !.spec = TRUE, !.num = Len(spies)]
    <2>1. ci.phase = client[c].phase /\ ci.using = client[c].using
      BY DEF TInv, TypeOK, Client
    <2>2. client' = [client EXCEPT ![c] = ci] /\ UNCHANGED slotvars
      BY <1>10 DEF EnterSpy
    <2> HIDE DEF ci
    <2> QED BY <2>1, <2>2, SameSets DEF TInv, TypeOK, Shaped
  <1>11. ASSUME NEW c \in Slots, NEW mm \in MasterModes, LeaveSpy(c, mm) PROVE Shaped
    <2>1. PICK i \in DOMAIN spies :
            client' = [client EXCEPT ![spies[i].cn] = Unspied(client[spies[i].cn], mm)]
      BY <1>11 DEF LeaveSpy
    <2> DEFINE d == spies[i].cn
    <2>2. d \in Slots
      <3>1. spies \in Seq(Entry) /\ i \in 1 .. Len(spies)
        BY LenProperties DEF TInv, TypeOK, Entry
      <3>2. spies[i] \in Entry
        BY <3>1, ElementOfSeq
      <3> QED BY <3>2 DEF Entry
    <2> DEFINE ci == Unspied(client[d], mm)
    <2>3. ci.phase = client[d].phase /\ ci.using = client[d].using
      BY <2>2, UnspiedType DEF TInv, TypeOK
    <2>4. client' = [client EXCEPT ![d] = ci] /\ UNCHANGED slotvars
      BY <1>11, <2>1 DEF LeaveSpy
    <2> HIDE DEF ci, d
    <2> QED BY <2>2, <2>3, <2>4, SameSets DEF TInv, TypeOK, Shaped
  <1>12. CASE UNCHANGED vars
    BY <1>12, SameSets DEF vars, slotvars, Shaped
  <1> QED BY <1>1, <1>2, <1>3, <1>4, <1>5, <1>6, <1>7, <1>8, <1>9, <1>10, <1>11, <1>12 DEF Next

-----------------------------------------------------------------------------
(* The accounting of the places                                            *)

\* SetSizes: the sets of clients are finite, and by how much they change.
LEMMA SetSizes ==
    /\ IsFiniteSet(Joined) /\ IsFiniteSet(Holders)
    /\ Cardinality(Joined) \in Nat /\ Cardinality(Holders) \in Nat
    /\ \A c \in Slots :
        /\ Cardinality(Joined \cup {c}) = IF c \in Joined THEN Cardinality(Joined)
                                                          ELSE Cardinality(Joined) + 1
        /\ Cardinality(Joined \ {c}) = IF c \in Joined THEN Cardinality(Joined) - 1
                                                       ELSE Cardinality(Joined)
        /\ Cardinality(Holders \cup {c}) = IF c \in Holders THEN Cardinality(Holders)
                                                            ELSE Cardinality(Holders) + 1
        /\ Cardinality(Holders \ {c}) = IF c \in Holders THEN Cardinality(Holders) - 1
                                                         ELSE Cardinality(Holders)
  <1>1. IsFiniteSet(Slots)
    <2>1. 0 \in Int /\ NumSlots - 1 \in Int
      BY ConstantsAssumption
    <2> QED BY <2>1, FS_Interval DEF Slots
  <1>2. Joined \in SUBSET Slots /\ Holders \in SUBSET Slots
    BY DEF Joined, Holders
  <1>3. IsFiniteSet(Joined) /\ IsFiniteSet(Holders)
    BY <1>1, <1>2, FS_Subset
  <1> QED BY <1>3, FS_CardinalityType, FS_AddElement, FS_RemoveElement

\* AccountingStep: every shape of a step keeps the books.
LEMMA AccountingStep == TInv /\ SlotAccounting /\ Shaped => SlotAccounting'
  <1> SUFFICES ASSUME TInv, SlotAccounting, Shaped PROVE SlotAccounting'
    OBVIOUS
  <1> DEFINE H == Cardinality(Holders)
  <1>0. /\ H \in Nat /\ MaxClients \in Nat /\ ReservedSlots \in Nat
        /\ maxclients \in Int /\ reservedslots \in Int /\ reservedslots_use \in Int
        /\ maxclients = MaxClients + reservedslots_use
        /\ reservedslots + H = ReservedSlots
        /\ 0 <= reservedslots_use /\ reservedslots_use <= H
    BY SetSizes, ConstantsAssumption DEF TInv, TypeOK, SlotAccounting
  <1>1. SUFFICES /\ maxclients' = MaxClients + reservedslots_use'
                 /\ reservedslots' + Cardinality(Holders') = ReservedSlots
                 /\ 0 <= reservedslots_use' /\ reservedslots_use' <= Cardinality(Holders')
                 /\ Cardinality(Holders') \in Int /\ reservedslots_use' \in Int
    BY DEF SlotAccounting
  <1>2. CASE Holders' = Holders /\ UNCHANGED slotvars
    BY <1>0, <1>2 DEF slotvars
  <1>3. ASSUME NEW c \in Slots, Departs(c) PROVE <1>1!1
    <2>1. Cardinality(Holders') = IF c \in Holders THEN H - 1 ELSE H
      BY <1>3, SetSizes DEF Departs
    <2>2. CASE c \in Holders
      <3>1. Cardinality(Holders') = H - 1 /\ reservedslots' = reservedslots + 1
        BY <1>3, <2>1, <2>2 DEF Departs
      <3>2. \/ maxclients' = maxclients - 1 /\ reservedslots_use' = reservedslots_use - 1
               /\ reservedslots_use > 0
            \/ maxclients' = maxclients /\ reservedslots_use' = reservedslots_use
               /\ ~(reservedslots_use > 0)
        BY <1>3 DEF Departs
      <3>3. H # 0
        BY <2>2, SetSizes, FS_EmptySet
      <3> HIDE DEF H
      <3> QED BY <1>0, <3>1, <3>2, <3>3
    <2>3. CASE c \notin Holders
      <3>1. Cardinality(Holders') = H /\ reservedslots' = reservedslots
        BY <1>3, <2>1, <2>3 DEF Departs
      <3>2. \/ maxclients' = maxclients - 1 /\ reservedslots_use' = reservedslots_use - 1
               /\ reservedslots_use > 0
            \/ maxclients' = maxclients /\ reservedslots_use' = reservedslots_use
        BY <1>3 DEF Departs
      <3> HIDE DEF H
      <3> QED BY <1>0, <3>1, <3>2
    <2> QED BY <2>2, <2>3
  <1>4. ASSUME NEW c \in Slots, Reserves(c) PROVE <1>1!1
    <2>1. c \notin Holders
      BY <1>4 DEF Reserves, Holders
    <2>2. Cardinality(Holders') = H + 1
      BY <1>4, <2>1, SetSizes DEF Reserves
    <2> HIDE DEF H
    <2> QED BY <1>0, <1>4, <2>2 DEF Reserves
  <1> QED BY <1>2, <1>3, <1>4 DEF Shaped, Stays, Refers, Drops, Enters, Authorized

\* SlotsAccountedFor: no place is lost or made up, whatever the clients do, spies
\* and authentication domains included.
THEOREM SlotsAccountedFor == Spec => []SlotAccounting
  <1>1. Init => TInv /\ SlotAccounting
    <2> SUFFICES ASSUME Init PROVE TInv /\ SlotAccounting
      OBVIOUS
    <2>1. TInv
      BY ConstantsAssumption, VacantType, EmptySeq
         DEF Init, TInv, TypeOK, WellFormed, Vacant
    <2>2. Holders = {}
      BY DEF Init, Holders, Joined, Vacant
    <2>3. Cardinality(Holders) = 0
      BY <2>2, FS_EmptySet
    <2> QED BY <2>1, <2>3, ConstantsAssumption DEF Init, SlotAccounting
  <1>2. TInv /\ SlotAccounting /\ [Next]_vars => TInv' /\ SlotAccounting'
    BY TInvStep, StepEffect, AccountingStep
  <1> QED BY <1>1, <1>2, PTL DEF Spec

-----------------------------------------------------------------------------
(***************************************************************************)
(* Without spies the counters implement the pool.  The strengthening is    *)
(* RaisedOnlyWhenFull: a raised maxclients never opens a place.            *)
(***************************************************************************)
NoSpy == spies = <<>> /\ \A c \in Slots : ~client[c].spy

PInv == TInv /\ SlotAccounting /\ NoSpy /\ RaisedOnlyWhenFull

\* SpyFieldStep: with no spy login nobody becomes a spy.
LEMMA NoSpyStep ==
    ASSUME "spy" \notin Logins, TInv, NoSpy, [Next]_vars
    PROVE  NoSpy'
  <1>0. ASSUME NEW c \in Slots, Leave(c) PROVE NoSpy'
    BY <1>0 DEF NoSpy, Leave, TInv, TypeOK, Vacant
  <1>1. ASSUME NEW c \in Slots, NEW ci \in Client, ~ci.spy,
               client' = [client EXCEPT ![c] = ci], UNCHANGED spies
        PROVE  NoSpy'
    BY <1>1 DEF NoSpy, TInv, TypeOK
  <1>2. ASSUME NEW c \in Slots, NEW s \in SessionIds, ClientConnect(c, s) PROVE NoSpy'
    BY <1>2 DEF ClientConnect, NoSpy, TInv, TypeOK, Vacant
  <1>3. ASSUME NEW c \in Slots, PeerGone(c) PROVE NoSpy'
    BY <1>0, <1>3 DEF PeerGone
  <1>4. ASSUME NEW c \in Slots, ConnectRequest(c) PROVE NoSpy'
    <2>1. PICK login \in Logins, mm \in MasterModes, invited \in BOOLEAN, veto \in BOOLEAN :
              \/ AdmitReserved(c, login, mm)
              \/ AdmitOrdinary(c, login, mm, invited)
              \/ ReferToAuth(c, login, mm, invited, veto)
              \/ TurnAway(c, login, mm, invited, veto)
      BY <1>4 DEF ConnectRequest
    <2>2. client[c].phase = "pending" /\ login # "spy" /\ client[c] \in Client
      BY <2>1 DEF AdmitReserved, AdmitOrdinary, ReferToAuth, TurnAway, Refused, CanLogIn,
                  TInv, TypeOK
    <2> DEFINE ci == LoggedIn(c, login)
    <2>3. ci \in Client /\ SpiesWith(c, login) = spies
      BY <2>2, LoggedInType DEF SpiesWith
    <2>4. ci.spy = FALSE
      BY <2>2 DEF LoggedIn, Client
    <2>5. CASE AdmitReserved(c, login, mm)
      <3> DEFINE ck == [ci EXCEPT !.using = TRUE]
      <3>1. ck \in Client /\ ck.spy = FALSE
        <4> HIDE DEF ci
        <4> QED BY <2>3, <2>4 DEF Client
      <3> DEFINE cj == Playing(ck, mm)
      <3>2. cj \in Client /\ cj.spy = FALSE
        <4> HIDE DEF ck
        <4> QED BY <3>1 DEF Playing, Client
      <3>3. client' = [client EXCEPT ![c] = cj] /\ UNCHANGED spies
        BY <2>3, <2>5 DEF AdmitReserved, Join
      <3> HIDE DEF cj
      <3> QED BY <1>1, <3>2, <3>3
    <2>6. CASE AdmitOrdinary(c, login, mm, invited)
      <3> DEFINE cj == Playing(ci, mm)
      <3>2. cj \in Client /\ cj.spy = FALSE
        <4> HIDE DEF ci
        <4> QED BY <2>3, <2>4 DEF Playing, Client
      <3>3. client' = [client EXCEPT ![c] = cj] /\ UNCHANGED spies
        BY <2>3, <2>6 DEF AdmitOrdinary, Join
      <3> HIDE DEF cj
      <3> QED BY <1>1, <3>2, <3>3
    <2>7. CASE ReferToAuth(c, login, mm, invited, veto)
      <3> DEFINE cj == [ci EXCEPT !.phase = "auth"]
      <3>2. cj \in Client /\ cj.spy = FALSE
        <4> HIDE DEF ci
        <4> QED BY <2>3, <2>4 DEF Client
      <3>3. client' = [client EXCEPT ![c] = cj] /\ UNCHANGED spies
        BY <2>3, <2>7 DEF ReferToAuth
      <3> HIDE DEF cj
      <3> QED BY <1>1, <3>2, <3>3
    <2>8. CASE TurnAway(c, login, mm, invited, veto)
      BY <2>8 DEF TurnAway, NoSpy, TInv, TypeOK, Vacant
    <2> QED BY <2>1, <2>5, <2>6, <2>7, <2>8
  <1>5. ASSUME NEW c \in Slots, AuthAnswer(c) PROVE NoSpy'
    <2>1. ASSUME NEW mm \in MasterModes, JoinGame(c, mm) PROVE NoSpy'
      <3> DEFINE cj == Playing(client[c], mm)
      <3>1. client[c] \in Client /\ client[c].spy = FALSE
        BY DEF NoSpy, TInv, TypeOK, Client
      <3>2. cj \in Client /\ cj.spy = FALSE
        BY <3>1 DEF Playing, Client
      <3>3. client' = [client EXCEPT ![c] = cj] /\ UNCHANGED spies
        BY <2>1 DEF JoinGame, Join
      <3> HIDE DEF cj
      <3> QED BY <1>1, <3>2, <3>3
    <2>2. CASE RejectJoinGame(c)
      BY <1>0, <2>2 DEF RejectJoinGame
    <2> QED BY <1>5, <2>1, <2>2 DEF AuthAnswer
  <1>6. ASSUME NEW c \in Slots, GrowLate(c) PROVE NoSpy'
    BY <1>6 DEF GrowLate, NoSpy, TInv, TypeOK, Client
  <1>7. ASSUME NEW c \in Slots, ConnectTimeout(c) PROVE NoSpy'
    BY <1>0, <1>7 DEF ConnectTimeout
  <1>8. ASSUME NEW c \in Slots, NEW bySpyNumber \in BOOLEAN, Disconnect(c, bySpyNumber) PROVE NoSpy'
    BY <1>8 DEF Disconnect, NoSpy
  <1>9. ASSUME ExecuteDisconnect PROVE NoSpy'
    <2>1. Head(tasks).cn \in Slots
      <3>1. Head(tasks) \in Task
        BY <1>9, HeadTailProperties DEF ExecuteDisconnect, TInv, TypeOK, Task
      <3> QED BY <3>1 DEF Task
    <2>2. CASE Leave(Head(tasks).cn)
      BY <1>0, <2>1, <2>2
    <2>3. CASE UNCHANGED <<client, spies, slotvars>>
      BY <2>3 DEF NoSpy
    <2> QED BY <1>9, <2>2, <2>3 DEF ExecuteDisconnect
  <1>10. ASSUME NEW c \in Slots, NEW val \in BOOLEAN, SetSpectator(c, val) PROVE NoSpy'
    BY <1>10 DEF SetSpectator, NoSpy, TInv, TypeOK, Client
  <1>11. ASSUME NEW c \in Slots, EnterSpy(c) PROVE FALSE
    BY <1>11 DEF EnterSpy
  <1>12. ASSUME NEW c \in Slots, NEW mm \in MasterModes, LeaveSpy(c, mm) PROVE FALSE
    BY <1>12 DEF LeaveSpy, NoSpy
  <1>13. CASE UNCHANGED vars
    BY <1>13 DEF vars, NoSpy
  <1> QED BY <1>2, <1>3, <1>4, <1>5, <1>6, <1>7, <1>8, <1>9, <1>10, <1>11, <1>12, <1>13 DEF Next

\* StepSizes: the number of players before and after a step.
LEMMA StepSizes == Shaped => Cardinality(Joined) \in Nat /\ Cardinality(Joined') \in Nat
  <1> SUFFICES ASSUME Shaped PROVE Cardinality(Joined) \in Nat /\ Cardinality(Joined') \in Nat
    OBVIOUS
  <1>1. \/ Joined' = Joined
        \/ \E c \in Slots : Joined' = Joined \cup {c}
        \/ \E c \in Slots : Joined' = Joined \ {c}
    BY DEF Shaped, Stays, Refers, Drops, Departs, Reserves, Enters, Authorized
  <1>2. IsFiniteSet(Joined')
    BY <1>1, SetSizes, FS_AddElement, FS_RemoveElement
  <1> QED BY <1>2, SetSizes, FS_CardinalityType

\* RaisedStep: a step keeps the server full while maxclients is raised.
LEMMA RaisedStep == PInv /\ NoSpy' /\ Shaped => RaisedOnlyWhenFull'
  <1> SUFFICES ASSUME PInv, NoSpy', Shaped PROVE RaisedOnlyWhenFull'
    OBVIOUS
  <1> DEFINE J == Cardinality(Joined)
  <1>0. /\ J \in Nat /\ maxclients \in Int /\ reservedslots_use \in Int
        /\ reservedslots_use > 0 => J >= maxclients
        /\ ClientCount = J
        /\ ClientCount' = Cardinality(Joined')
    <2>1. Cardinality(Joined) \in Nat /\ Cardinality(Joined') \in Nat
      BY StepSizes
    <2>2. Len(spies) = 0 /\ Len(spies') = 0
      BY DEF PInv, NoSpy
    <2>3. ClientCount = J /\ ClientCount' = Cardinality(Joined')
      BY <2>1, <2>2 DEF ClientCount
    <2>4. /\ maxclients \in Int /\ reservedslots_use \in Int
          /\ reservedslots_use > 0 => ClientCount >= maxclients
      BY DEF PInv, TInv, TypeOK, RaisedOnlyWhenFull
    <2> QED BY <2>1, <2>3, <2>4
  <1>1. SUFFICES reservedslots_use' > 0 => Cardinality(Joined') >= maxclients'
    BY <1>0 DEF RaisedOnlyWhenFull
  <1>2. CASE Joined' = Joined /\ UNCHANGED slotvars
    BY <1>0, <1>2 DEF slotvars
  <1>3. ASSUME NEW c \in Slots, c \notin Joined, Joined' = Joined \cup {c}, UNCHANGED slotvars
        PROVE  <1>1!1
    <2>1. Cardinality(Joined') = J + 1
      BY <1>3, SetSizes
    <2> HIDE DEF J
    <2> QED BY <1>0, <1>3, <2>1 DEF slotvars
  <1>4. ASSUME NEW c \in Slots, Departs(c) PROVE <1>1!1
    <2>1. Cardinality(Joined') = J - 1
      BY <1>4, SetSizes DEF Departs
    <2>2. \/ maxclients' = maxclients - 1 /\ reservedslots_use > 0
          \/ reservedslots_use' = reservedslots_use /\ ~(reservedslots_use > 0)
      BY <1>4 DEF Departs
    <2> HIDE DEF J
    <2> QED BY <1>0, <2>1, <2>2
  <1>5. ASSUME NEW c \in Slots, Reserves(c) PROVE <1>1!1
    <2>1. Cardinality(Joined') = J + 1
      BY <1>5, SetSizes DEF Reserves
    <2>2. \/ maxclients' = maxclients + 1 /\ J >= maxclients
          \/ maxclients' = maxclients /\ reservedslots_use' = reservedslots_use
      BY <1>0, <1>5 DEF Reserves
    <2> HIDE DEF J
    <2> QED BY <1>0, <2>1, <2>2
  <1> QED BY <1>2, <1>3, <1>4, <1>5 DEF Shaped, Stays, Refers, Drops, Enters, Authorized, Referred, Joined

\* PInvHolds: without spies the strengthened invariant holds.
LEMMA PInvHolds == ASSUME "spy" \notin Logins PROVE Spec => []PInv
  <1>1. Init => PInv
    <2> SUFFICES ASSUME Init PROVE PInv
      OBVIOUS
    <2>1. TInv /\ NoSpy
      BY ConstantsAssumption, VacantType, EmptySeq
         DEF Init, TInv, TypeOK, WellFormed, NoSpy, Vacant
    <2>2. Holders = {}
      BY DEF Init, Holders, Joined, Vacant
    <2>3. Cardinality(Holders) = 0
      BY <2>2, FS_EmptySet
    <2>4. SlotAccounting
      BY <2>3, ConstantsAssumption DEF Init, SlotAccounting
    <2>5. RaisedOnlyWhenFull
      BY DEF Init, RaisedOnlyWhenFull
    <2> QED BY <2>1, <2>4, <2>5 DEF PInv
  <1>2. PInv /\ [Next]_vars => PInv'
    <2> SUFFICES ASSUME PInv, [Next]_vars PROVE PInv'
      OBVIOUS
    <2>1. TInv' /\ NoSpy' /\ Shaped
      BY TInvStep, NoSpyStep, StepEffect DEF PInv
    <2> QED BY <2>1, AccountingStep, RaisedStep DEF PInv
  <1> QED BY <1>1, <1>2, PTL DEF Spec

\* MaxClientsNeverSpent: without spies, maxclients is raised only while the
\* server is full, for every number of places.
THEOREM MaxClientsNeverSpent == ASSUME "spy" \notin Logins PROVE Spec => []RaisedOnlyWhenFull
  <1>1. PInv => RaisedOnlyWhenFull
    BY DEF PInv
  <1> QED BY <1>1, PInvHolds, PTL

\* EntersPlain: who enters without a reserved place finds fewer than MaxClients.
LEMMA EntersPlain ==
    ASSUME "spy" \notin Logins, ~SpecSlots, PInv, Shaped, NEW c \in Slots, Enters(c)
    PROVE  Cardinality(Joined) < MaxClients
  <1>1. PICK login \in Logins : ~Full(login)
    BY DEF Enters
  <1>2. /\ Cardinality(Joined) \in Nat /\ Len(spies) = 0 /\ login # "spy"
        /\ maxclients \in Int /\ reservedslots_use \in Int /\ MaxClients \in Nat
    BY StepSizes, ConstantsAssumption DEF PInv, NoSpy, TInv, TypeOK
  <1>3. ClientCount = Cardinality(Joined)
    BY <1>2 DEF ClientCount
  <1>4. ~(Cardinality(Joined) >= maxclients + 0 + 0 + 0)
    BY <1>1, <1>2, <1>3 DEF Full
  <1>5. ~(reservedslots_use > 0) /\ 0 <= reservedslots_use
    BY <1>2, <1>3, <1>4 DEF PInv, RaisedOnlyWhenFull, SlotAccounting
  <1>6. maxclients = MaxClients + reservedslots_use
    BY DEF PInv, SlotAccounting
  <1> QED BY <1>2, <1>4, <1>5, <1>6

\* MaxClientsEnforced: without spies and specslots, allowconnect lets in an
\* ordinary client only while fewer than MaxClients players are on the server.
THEOREM MaxClientsEnforced ==
    ASSUME "spy" \notin Logins, ~SpecSlots PROVE Spec => MaxClientsRespected
  <1> DEFINE Respects == \A c \in Slots : OrdinaryAdmitted(c) =>
                            Cardinality({d \in Joined : ~client[d].spy}) < MaxClients
  <1>1. PInv /\ [Next]_vars => [Respects]_vars
    <2> SUFFICES ASSUME PInv, [Next]_vars, NEW c \in Slots, OrdinaryAdmitted(c)
                 PROVE  Cardinality({d \in Joined : ~client[d].spy}) < MaxClients
      OBVIOUS
    <2>1. {d \in Joined : ~client[d].spy} = Joined
      BY DEF PInv, NoSpy, Joined
    <2>2. Shaped
      BY StepEffect DEF PInv
    <2>3. c \notin Joined /\ c \notin Referred /\ c \in Joined' /\ c \notin Holders'
      BY DEF OrdinaryAdmitted, Joined, Referred, Holders
    <2>4. \E d \in Slots : Enters(d)
      BY <2>2, <2>3 DEF Shaped, Stays, Refers, Drops, Departs, Reserves, Authorized
    <2> QED BY <2>1, <2>2, <2>4, EntersPlain
  <1> QED BY <1>1, PInvHolds, PTL DEF Spec, MaxClientsRespected

\* SameCardinality: SlotPool's copy of Cardinality is the same operator.
LEMMA SameCardinality == \A S : Pool!Cardinality(S) = Cardinality(S)
  BY Zenon DEF Pool!Cardinality, Cardinality

\* PoolImplemented: without spies and specslots, the three counters are a correct
\* implementation of the pool of places.
THEOREM PoolImplemented ==
    ASSUME "spy" \notin Logins, ~SpecSlots PROVE Spec => ImplementsPool
  <1>1. Init => Pool!PoolInit
    BY DEF Init, Pool!PoolInit, Joined, Holders, Vacant
  <1>2. PInv /\ [Next]_vars => [Pool!PoolNext]_(Pool!poolvars)
    <2> SUFFICES ASSUME PInv, [Next]_vars
                 PROVE  Pool!PoolNext \/ UNCHANGED Pool!poolvars
      BY DEF Pool!PoolNext
    <2> USE DEF Referred
    <2>0. Shaped
      BY StepEffect DEF PInv
    <2>1. CASE Stays
      BY <2>1 DEF Stays, Pool!poolvars
    <2>2. ASSUME NEW c \in Slots, Refers(c) PROVE Pool!PoolNext
      BY <2>2 DEF Refers, Pool!PoolNext, Pool!Refer
    <2>3. ASSUME NEW c \in Slots, Drops(c) PROVE Pool!PoolNext \/ UNCHANGED Pool!poolvars
      <3>1. c \notin Joined /\ c \notin Holders
        BY <2>3 DEF Drops, Holders
      <3>2. CASE c \in Referred
        <4>1. Joined' = Joined \ {c} /\ Holders' = Holders \ {c}
          BY <2>3, <3>1 DEF Drops
        <4>2. Pool!Depart(c)
          BY <2>3, <3>2, <4>1 DEF Drops, Pool!Depart
        <4> QED BY <4>2 DEF Pool!PoolNext
      <3>3. CASE c \notin Referred
        <4>1. Referred' = Referred
          BY <2>3, <3>3 DEF Drops
        <4> QED BY <2>3, <4>1 DEF Drops, Pool!poolvars
      <3> QED BY <3>2, <3>3
    <2>4. ASSUME NEW c \in Slots, Departs(c) PROVE Pool!PoolNext
      <3>1. Referred' = Referred \ {c}
        BY <2>4 DEF Departs, Joined
      <3>2. Pool!Depart(c)
        BY <2>4, <3>1 DEF Departs, Pool!Depart
      <3> QED BY <3>2 DEF Pool!PoolNext
    <2>5. ASSUME NEW c \in Slots, Reserves(c) PROVE Pool!PoolNext
      <3>1. Cardinality(Holders) < ReservedSlots
        <4>1. Cardinality(Holders) \in Nat /\ ReservedSlots \in Nat /\ reservedslots \in Int
          BY SetSizes, ConstantsAssumption DEF PInv, TInv, TypeOK
        <4> QED BY <2>5, <4>1 DEF PInv, SlotAccounting, Reserves
      <3>2. Pool!ReservedJoin(c)
        BY <2>5, <3>1, SameCardinality DEF Reserves, Pool!ReservedJoin
      <3> QED BY <3>2 DEF Pool!PoolNext
    <2>6. ASSUME NEW c \in Slots, Enters(c) PROVE Pool!PoolNext
      <3>1. Cardinality(Joined) < MaxClients
        BY <2>0, <2>6, EntersPlain
      <3>2. Pool!OrdinaryJoin(c)
        BY <2>6, <3>1, SameCardinality DEF Enters, Pool!OrdinaryJoin
      <3> QED BY <3>2 DEF Pool!PoolNext
    <2>7. ASSUME NEW c \in Slots, Authorized(c) PROVE Pool!PoolNext
      BY <2>7 DEF Authorized, Pool!PoolNext, Pool!AuthorizedJoin
    <2> QED BY <2>0, <2>1, <2>2, <2>3, <2>4, <2>5, <2>6, <2>7 DEF Shaped
  <1> QED BY <1>1, <1>2, PInvHolds, PTL DEF Spec, ImplementsPool, Pool!PoolSpec

-----------------------------------------------------------------------------
(* Posted work                                                             *)

LEMMA TailDiffers ==
    ASSUME NEW T, NEW s \in Seq(T), s # <<>>
    PROVE  Tail(s) # s /\ \A x \in T : Append(s, x) # Tail(s)
  <1> DEFINE t == Tail(s)
  <1>1. Len(s) \in Nat /\ Len(t) = Len(s) - 1
    BY LenProperties, HeadTailProperties
  <1> HIDE DEF t
  <1>2. t # s
    BY <1>1
  <1>3. ASSUME NEW x \in T PROVE Append(s, x) # t
    <2> DEFINE u == Append(s, x)
    <2>1. Len(u) = Len(s) + 1
      BY AppendProperties
    <2> HIDE DEF u
    <2>2. u # t
      BY <1>1, <2>1
    <2> QED BY <2>2 DEF u
  <1> QED BY <1>2, <1>3 DEF t

\* Only execute_disconnect takes the first of the posted calls.
LEMMA TakesTask ==
    ASSUME TInv, [Next]_vars, tasks # <<>>, tasks' = Tail(tasks)
    PROVE  ExecuteDisconnect
  <1>1. tasks' # tasks /\ \A x \in Task : Append(tasks, x) # tasks'
    BY TailDiffers DEF TInv, TypeOK, Task
  <1>2. ASSUME NEW c \in Slots, NEW bySpyNumber \in BOOLEAN, Disconnect(c, bySpyNumber)
        PROVE  FALSE
    <2> DEFINE x == [cn |-> c, session |-> client[c].session, spy |-> bySpyNumber]
    <2>1. client[c].session \in SessionIds
      BY <1>2 DEF Disconnect, TInv, TypeOK, WellFormed
    <2>2. x \in Task
      BY <2>1 DEF Task
    <2>3. tasks' = Append(tasks, x)
      BY <1>2 DEF Disconnect
    <2> QED BY <1>1, <2>2, <2>3
  <1>3. ~UNCHANGED vars
    BY <1>1 DEF vars
  <1>4. ASSUME NEW c \in Slots, ConnectRequest(c) PROVE FALSE
    <2>1. PICK login \in Logins, mm \in MasterModes, invited \in BOOLEAN, veto \in BOOLEAN :
             \/ AdmitReserved(c, login, mm) \/ AdmitOrdinary(c, login, mm, invited)
             \/ ReferToAuth(c, login, mm, invited, veto)
             \/ TurnAway(c, login, mm, invited, veto)
      BY <1>4 DEF ConnectRequest
    <2>2. UNCHANGED tasks
      BY <2>1 DEF AdmitReserved, AdmitOrdinary, ReferToAuth, TurnAway
    <2> QED BY <1>1, <2>2
  <1>7. \A c \in Slots : ~AuthAnswer(c)
    BY <1>1, Zenon DEF AuthAnswer, JoinGame, RejectJoinGame
  <1>5. \A c \in Slots : /\ \A s \in SessionIds : ~ClientConnect(c, s)
                         /\ ~PeerGone(c) /\ ~GrowLate(c) /\ ~ConnectTimeout(c)
    BY <1>1 DEF ClientConnect, PeerGone, GrowLate, ConnectTimeout
  <1>6. \A c \in Slots : /\ \A val \in BOOLEAN : ~SetSpectator(c, val)
                         /\ ~EnterSpy(c)
                         /\ \A mm \in MasterModes : ~LeaveSpy(c, mm)
    BY <1>1 DEF SetSpectator, EnterSpy, LeaveSpy
  <1> QED BY <1>2, <1>3, <1>4, <1>5, <1>6, <1>7 DEF Next

\* PostedWorkHitsItsSession: the session check of execute_disconnect is enough,
\* however often the slot changed hands since the call was posted: no client of
\* another session is touched.
THEOREM PostedWorkHitsItsSession == Spec => DisconnectHitsItsSession
  <1>1. TInv /\ [Next]_vars =>
          [\A c \in Slots :
              tasks # <<>> /\ tasks' = Tail(tasks) /\ client[c].session # Head(tasks).session
                  => client'[c] = client[c]]_vars
    <2> SUFFICES ASSUME TInv, [Next]_vars, NEW c \in Slots, tasks # <<>>,
                        tasks' = Tail(tasks), client[c].session # Head(tasks).session
                 PROVE  client'[c] = client[c]
      OBVIOUS
    <2>1. ExecuteDisconnect
      BY TakesTask
    <2> DEFINE task == Head(tasks)
    <2>2. \/ Matches(task) /\ Leave(task.cn)
          \/ UNCHANGED client
      BY <2>1 DEF ExecuteDisconnect
    <2>3. CASE Matches(task) /\ Leave(task.cn)
      <3>1. client' = [client EXCEPT ![task.cn] = Vacant] /\ task.cn # c
        BY <2>3 DEF Matches, Leave
      <3> QED BY <3>1 DEF TInv, TypeOK
    <2> QED BY <2>2, <2>3
  <1>2. Spec => []TInv
    BY InitTInv, TInvStep, PTL DEF Spec
  <1> QED BY <1>1, <1>2, PTL DEF Spec, DisconnectHitsItsSession
-----------------------------------------------------------------------------
(***************************************************************************)
(* The count of spies.  An entry may be removed in the place of another,   *)
(* and may outlive the client that it points to; but every entry that is   *)
(* live points to a spy, no two are the same, and so each that goes goes   *)
(* with one spy.                                                           *)
(***************************************************************************)
SpySet == {c \in Slots : client[c].spy}

SpyInv ==
    /\ TInv
    /\ SpyCount
    /\ \A c \in Slots : client[c].phase \in {"empty", "pending"} => ~client[c].spy
    /\ \A i \in DOMAIN spies :
          client[spies[i].cn].session = spies[i].session => client[spies[i].cn].spy
    /\ \A i, j \in DOMAIN spies : spies[i] = spies[j] => i = j

\* RemovedIs: vector::remove takes one element out, whatever the index.
LEMMA RemovedIs ==
    ASSUME NEW T, NEW s \in Seq(T), NEW i \in Nat \ {0}, Len(s) > 0
    PROVE  /\ Removed(s, i) \in Seq(T) /\ Len(Removed(s, i)) = Len(s) - 1
           /\ \A k \in 1 .. Len(s) - 1 : Removed(s, i)[k] = s[IF k < i THEN k ELSE k + 1]
  <1>1. CASE i <= Len(s)
    <2> DEFINE front == SubSeq(s, 1, i - 1)
               back == SubSeq(s, i + 1, Len(s))
    <2>1. front \in Seq(T) /\ Len(front) = i - 1 /\ \A k \in 1 .. i - 1 : front[k] = s[k]
      BY <1>1
    <2>2. back \in Seq(T) /\ Len(back) = Len(s) - i
          /\ \A k \in 1 .. Len(s) - i : back[k] = s[k + i]
      BY <1>1
    <2>3. Removed(s, i) = front \o back
      BY <1>1 DEF Removed
    <2> HIDE DEF front, back
    <2> DEFINE r == front \o back
    <2>4. i - 1 \in Nat /\ Len(s) - i \in Nat
      BY <1>1
    <2>5. r \in Seq(T) /\ Len(r) = (i - 1) + (Len(s) - i)
          /\ \A k \in 1 .. (i - 1) + (Len(s) - i) :
                r[k] = IF k <= i - 1 THEN front[k] ELSE back[k - (i - 1)]
      <3>1. /\ r \in Seq(T) /\ Len(r) = Len(front) + Len(back)
            /\ \A k \in 1 .. Len(front) + Len(back) :
                  r[k] = IF k <= Len(front) THEN front[k] ELSE back[k - Len(front)]
        BY <2>1, <2>2, ConcatProperties
      <3>2. Len(front) = i - 1 /\ Len(back) = Len(s) - i
        BY <2>1, <2>2
      <3> HIDE DEF r
      <3>3. QED
        BY <3>1, <3>2, Zenon
    <2> HIDE DEF r
    <2>6. ASSUME NEW k \in 1 .. Len(s) - 1 PROVE r[k] = s[IF k < i THEN k ELSE k + 1]
      <3>1. k \in 1 .. (i - 1) + (Len(s) - i)
        BY <1>1
      <3>2. CASE k < i
        BY <1>1, <2>1, <2>5, <3>1, <3>2
      <3>3. CASE ~(k < i)
        <4>1. k - (i - 1) \in 1 .. Len(s) - i /\ (k - (i - 1)) + i = k + 1 /\ ~(k <= i - 1)
          BY <1>1, <3>3
        <4>2. back[k - (i - 1)] = s[k + 1]
          BY <2>2, <4>1
        <4>3. QED
          BY <2>5, <3>1, <3>3, <4>1, <4>2
      <3>4. QED
        BY <3>2, <3>3
    <2>7. Len(r) = Len(s) - 1
      BY <1>1, <2>5
    <2>8. QED
      BY <2>3, <2>5, <2>6, <2>7 DEF r
  <1>2. CASE ~(i <= Len(s))
    <2>1. /\ Removed(s, i) \in Seq(T) /\ Len(Removed(s, i)) = Len(s) - 1
          /\ \A k \in 1 .. Len(s) - 1 : Removed(s, i)[k] = s[k]
      <3> DEFINE r == SubSeq(s, 1, Len(s) - 1)
      <3>1. Removed(s, i) = r
        BY <1>2 DEF Removed
      <3>2. \A k \in 1 .. Len(s) - 1 : s[k] \in T
        BY ElementOfSeq
      <3>3. Len(s) \in Nat /\ 1 \in Int /\ Len(s) - 1 \in Int
        OBVIOUS
      <3>4. /\ r \in Seq(T) /\ Len(r) = IF 1 <= Len(s) - 1 THEN (Len(s) - 1) - 1 + 1 ELSE 0
            /\ \A k \in 1 .. (Len(s) - 1) - 1 + 1 : r[k] = s[1 + k - 1]
        BY <3>2, <3>3, SubSeqProperties
      <3> HIDE DEF r
      <3>5. QED
        <4>1. Len(r) = Len(s) - 1
          <5> DEFINE m == Len(s) - 1
          <5>1. m \in Nat
            BY <3>3
          <5>2. Len(r) = IF 1 <= m THEN m - 1 + 1 ELSE 0
            BY <3>4
          <5> HIDE DEF m
          <5>3. (IF 1 <= m THEN m - 1 + 1 ELSE 0) = m
            BY <5>1
          <5>4. QED
            BY <5>2, <5>3 DEF m
        <4>2. ASSUME NEW k \in 1 .. Len(s) - 1 PROVE r[k] = s[k]
          <5>1. k \in 1 .. (Len(s) - 1) - 1 + 1 /\ 1 + k - 1 = k
            BY <3>3
          <5>2. QED
            BY <3>4, <5>1
        <4>3. QED
          BY <3>1, <3>4, <4>1, <4>2, Zenon
    <2>2. \A k \in 1 .. Len(s) - 1 : k < i
      BY <1>2
    <2>3. QED
      BY <2>1, <2>2
  <1>3. QED
    BY <1>1, <1>2

\* SpySizes: one client more or less in the spy mode.
LEMMA SpySizes ==
    /\ IsFiniteSet(SpySet) /\ Cardinality(SpySet) \in Nat
    /\ \A c \in Slots :
          /\ Cardinality(SpySet \cup {c}) =
                IF c \in SpySet THEN Cardinality(SpySet) ELSE Cardinality(SpySet) + 1
          /\ Cardinality(SpySet \ {c}) =
                IF c \in SpySet THEN Cardinality(SpySet) - 1 ELSE Cardinality(SpySet)
  <1>1. IsFiniteSet(Slots)
    <2>1. 0 \in Int /\ NumSlots - 1 \in Int
      BY ConstantsAssumption
    <2>2. IsFiniteSet(0 .. NumSlots - 1)
      BY <2>1, FS_Interval
    <2>3. QED
      BY <2>2 DEF Slots
  <1>2. IsFiniteSet(SpySet) /\ Cardinality(SpySet) \in Nat
    <2>1. SpySet \subseteq Slots
      BY DEF SpySet
    <2>2. QED
      BY <1>1, <2>1, FS_Subset, FS_CardinalityType
  <1>3. QED
    BY <1>2, FS_AddElement, FS_RemoveElement

\* A step that makes nobody a spy, and nobody who is one an ordinary client.
SpiesStay(c, ci) ==
    /\ spies' = spies /\ ci.spy = client[c].spy
    /\ \A i \in DOMAIN spies : spies[i].session = ci.session => ci.session = client[c].session

SpyGained(c, ci) ==
    /\ spies' = Append(spies, [cn |-> c, session |-> client[c].session])
    /\ ~client[c].spy /\ ci.spy /\ ci.session = client[c].session

SpyLost(c, ci) ==
    /\ client[c].spy /\ ~ci.spy
    /\ \E k \in Nat \ {0} :
          /\ spies' = Removed(spies, k)
          /\ \A i \in DOMAIN spies \ {k} :
                ~(spies[i].cn = c /\ spies[i].session = ci.session)

\* The three things that a step does to one client and to the vector.
LEMMA SpyShapes ==
    ASSUME SpyInv, TInv', NEW c \in Slots, NEW ci \in Client,
           client' = [client EXCEPT ![c] = ci],
           ci.phase \in {"empty", "pending"} => ~ci.spy,
           SpiesStay(c, ci) \/ SpyGained(c, ci) \/ SpyLost(c, ci)
    PROVE  SpyInv'
  <1> DEFINE n == Len(spies)
             card == Cardinality(SpySet)
  <1>1. /\ client \in [Slots -> Client] /\ \A d \in Slots : client'[d] = IF d = c THEN ci ELSE client[d]
        /\ spies \in Seq(Entry) /\ n \in Nat /\ DOMAIN spies = 1 .. n
        /\ \A i \in 1 .. n : spies[i] \in Entry /\ spies[i].cn \in Slots
    <2>1. client \in [Slots -> Client] /\ spies \in Seq(Entry)
      BY DEF SpyInv, TInv, TypeOK, Entry
    <2>2. n \in Nat /\ DOMAIN spies = 1 .. n
      BY <2>1, LenProperties
    <2>3. \A i \in 1 .. n : spies[i] \in Entry
      BY <2>1, ElementOfSeq
    <2>4. \A e \in Entry : e.cn \in Slots
      BY DEF Entry
    <2>5. QED
      BY <2>1, <2>2, <2>3, <2>4
  <1>2. card \in Nat /\ n = card /\ SpyCount = (Len(spies) = Cardinality(SpySet))
        /\ SpyCount' = (Len(spies') = Cardinality(SpySet'))
    BY SpySizes DEF SpyInv, SpyCount, SpySet
  <1>3. \A d \in Slots : client'[d].phase \in {"empty", "pending"} => ~client'[d].spy
    BY <1>1 DEF SpyInv
  <1>4. CASE SpiesStay(c, ci)
    <2>1. SpySet' = SpySet
      BY <1>1, <1>4 DEF SpySet, SpiesStay
    <2>2. spies' = spies /\ SpyCount'
      BY <1>2, <1>4, <2>1 DEF SpiesStay
    <2>3. \A i \in 1 .. n : client'[spies[i].cn].session = spies[i].session
                                => client'[spies[i].cn].spy
      BY <1>1, <1>4 DEF SpiesStay, SpyInv
    <2>4. QED
      BY <1>1, <1>3, <2>2, <2>3 DEF SpyInv
  <1>5. CASE SpyGained(c, ci)
    <2> DEFINE e == [cn |-> c, session |-> client[c].session]
    <2>1. spies' = Append(spies, e) /\ e.cn = c /\ e.session = client[c].session /\ ci.spy
          /\ ci.session = client[c].session /\ c \notin SpySet
      BY <1>5 DEF SpyGained, SpySet
    <2>2. SpySet' = SpySet \cup {c}
      BY <1>1, <2>1 DEF SpySet
    <2>3. Len(spies') = n + 1 /\ \A i \in 1 .. n + 1 : spies'[i] = IF i = n + 1 THEN e ELSE spies[i]
      BY <1>1, <2>1
    <2>4. DOMAIN spies' = 1 .. n + 1
      BY <1>1, <2>1
    <2>5. SpyCount'
      BY <1>2, <2>1, <2>2, <2>3, SpySizes
    <2>6. \A i \in 1 .. n : spies[i] # e
      <3>1. ASSUME NEW i \in 1 .. n, spies[i] = e PROVE FALSE
        <4>1. spies[i].cn = c /\ spies[i].session = client[c].session
          BY <2>1, <3>1
        <4>2. client[c].spy
          BY <1>1, <4>1 DEF SpyInv
        <4>3. QED
          BY <1>5, <4>2 DEF SpyGained
      <3>2. QED
        BY <3>1
    <2> HIDE DEF e
    <2>7. \A i, j \in 1 .. n + 1 : spies'[i] = spies'[j] => i = j
      <3>1. \A i, j \in 1 .. n : spies[i] = spies[j] => i = j
        BY <1>1 DEF SpyInv
      <3>2. \A i \in 1 .. n + 1 : i = n + 1 \/ i \in 1 .. n
        BY <1>1
      <3>3. QED
        BY <2>3, <2>6, <3>1, <3>2
    <2>8. \A i \in 1 .. n + 1 : client'[spies'[i].cn].session = spies'[i].session
                                    => client'[spies'[i].cn].spy
      <3>1. \A i \in 1 .. n + 1 : i = n + 1 \/ i \in 1 .. n
        BY <1>1
      <3>2. \A i \in 1 .. n : client[spies[i].cn].session = spies[i].session
                                  => client[spies[i].cn].spy
        BY <1>1 DEF SpyInv
      <3>3. \A i \in 1 .. n : client'[spies[i].cn].session = spies[i].session
                                  => client'[spies[i].cn].spy
        BY <1>1, <2>1, <3>2
      <3>4. client'[e.cn].spy
        BY <1>1, <2>1
      <3>5. QED
        BY <2>3, <3>1, <3>3, <3>4
    <2>9. QED
      BY <1>3, <2>4, <2>5, <2>7, <2>8 DEF SpyInv
  <1>6. CASE SpyLost(c, ci)
    <2>1. PICK k \in Nat \ {0} :
              /\ spies' = Removed(spies, k)
              /\ \A i \in DOMAIN spies \ {k} : ~(spies[i].cn = c /\ spies[i].session = ci.session)
      BY <1>6 DEF SpyLost
    <2>2. c \in SpySet /\ SpySet' = SpySet \ {c}
      BY <1>1, <1>6 DEF SpyLost, SpySet
    <2>3. n > 0
      <3>1. Cardinality(SpySet \ {c}) = card - 1 /\ Cardinality(SpySet \ {c}) \in Nat
        BY <2>2, SpySizes, FS_RemoveElement, FS_CardinalityType
      <3>2. QED
        BY <1>2, <3>1
    <2> DEFINE At(m) == IF m < k THEN m ELSE m + 1
    <2>4. /\ spies' \in Seq(Entry) /\ Len(spies') = n - 1
          /\ \A m \in 1 .. n - 1 : spies'[m] = spies[At(m)]
      BY <1>1, <2>1, <2>3, RemovedIs
    <2>5. DOMAIN spies' = 1 .. n - 1
      BY <2>4
    <2>6. \A m \in 1 .. n - 1 : At(m) \in 1 .. n /\ At(m) # k
      BY <1>1
    <2>7. \A m, l \in 1 .. n - 1 : At(m) = At(l) => m = l
      BY <1>1
    <2>8. SpyCount'
      BY <1>2, <2>2, <2>4, SpySizes
    <2> HIDE DEF At
    <2>9. \A m, l \in 1 .. n - 1 : spies'[m] = spies'[l] => m = l
      <3>1. \A i, j \in 1 .. n : spies[i] = spies[j] => i = j
        BY <1>1 DEF SpyInv
      <3>2. QED
        BY <2>4, <2>6, <2>7, <3>1
    <2>10. \A m \in 1 .. n - 1 : client'[spies'[m].cn].session = spies'[m].session
                                     => client'[spies'[m].cn].spy
      <3>1. SUFFICES ASSUME NEW m \in 1 .. n - 1,
                            client'[spies[At(m)].cn].session = spies[At(m)].session
                     PROVE  client'[spies[At(m)].cn].spy
        BY <2>4
      <3>2. At(m) \in 1 .. n /\ At(m) # k /\ spies[At(m)].cn \in Slots
        BY <1>1, <2>6
      <3>3. spies[At(m)].cn # c
        BY <1>1, <2>1, <3>1, <3>2
      <3>4. QED
        BY <1>1, <3>1, <3>2, <3>3 DEF SpyInv
    <2>11. QED
      BY <1>3, <2>5, <2>8, <2>9, <2>10 DEF SpyInv
  <1>7. QED
    BY <1>4, <1>5, <1>6

\* EntriesHaveSessions: what the vector points to has been a client.
LEMMA EntriesHaveSessions ==
    ASSUME TInv
    PROVE  \A i \in DOMAIN spies : spies[i] \in Entry /\ spies[i].session # NoSession
  <1>1. spies \in Seq(Entry)
    BY DEF TInv, TypeOK, Entry
  <1>2. \A i \in DOMAIN spies : spies[i] \in Entry
    BY <1>1, LenProperties, ElementOfSeq
  <1>3. \A e \in Entry : e.session # NoSession
    BY ConstantsAssumption DEF Entry
  <1>4. QED
    BY <1>2, <1>3

\* LeaveKeepsCount: a spy that leaves takes one entry with it, its own or not.
LEMMA LeaveKeepsCount ==
    ASSUME SpyInv, TInv', NEW c \in Slots, Leave(c)
    PROVE  SpyInv'
  <1>1. client' = [client EXCEPT ![c] = Vacant]
    BY DEF Leave
  <1>2. Vacant \in Client /\ ~Vacant.spy /\ Vacant.session = NoSession
    BY VacantType DEF Vacant
  <1>3. \A i \in DOMAIN spies : spies[i].session # NoSession
    BY EntriesHaveSessions DEF SpyInv
  <1>4. CASE client[c].spy
    <2>1. spies' = Removed(spies, client[c].num + 1) /\ client[c].num + 1 \in Nat \ {0}
      BY <1>4 DEF Leave, SpyInv, TInv, TypeOK, Client
    <2>2. SpyLost(c, Vacant)
      BY <1>2, <1>3, <1>4, <2>1 DEF SpyLost
    <2>3. QED
      BY <1>1, <1>2, <2>2, SpyShapes
  <1>5. CASE ~client[c].spy
    <2>1. client[c] \in Client
      BY DEF SpyInv, TInv, TypeOK
    <2>2. client[c].spy = FALSE /\ Vacant.spy = FALSE
      BY <1>5, <2>1 DEF Client, Vacant
    <2>3. SpiesStay(c, Vacant)
      BY <1>2, <1>3, <1>5, <2>2 DEF SpiesStay, Leave
    <2>4. QED
      BY <1>1, <1>2, <2>3, SpyShapes
  <1>6. QED
    BY <1>4, <1>5


LEMMA PlayingSpy == ASSUME NEW ci \in Client, NEW mm PROVE Playing(ci, mm).spy = ci.spy
  BY DEF Playing, Client

\* KeptByOthers: a step that changes a client in other fields than these keeps
\* the entries that point to it.
LEMMA KeptByOthers ==
    ASSUME SpyInv, TInv', NEW c \in Slots, NEW ci \in Client,
           client' = [client EXCEPT ![c] = ci], spies' = spies,
           ci.spy = client[c].spy, ci.session = client[c].session,
           ci.phase \in {"empty", "pending"} => ~ci.spy
    PROVE  SpyInv'
  <1>1. SpiesStay(c, ci)
    BY DEF SpiesStay
  <1>2. QED
    BY <1>1, SpyShapes

\* LoggedInSpy: the password of the spies makes a spy, and no other does.
LEMMA LoggedInSpy ==
    ASSUME SpyInv, NEW c \in Slots, NEW login \in Logins, client[c].phase = "pending",
           NEW ci \in Client, ci.spy = LoggedIn(c, login).spy,
           ci.session = client[c].session, ci.phase \in {"auth", "joined"},
           client' = [client EXCEPT ![c] = ci], spies' = SpiesWith(c, login), TInv'
    PROVE  SpyInv'
  <1>1. client[c] \in Client /\ ~client[c].spy
    BY DEF SpyInv, TInv, TypeOK
  <1>2. LoggedIn(c, login).spy = (login = "spy")
    BY <1>1 DEF LoggedIn, Client
  <1>3. CASE login = "spy"
    <2>1. SpyGained(c, ci)
      BY <1>1, <1>2, <1>3 DEF SpyGained, SpiesWith
    <2>2. QED
      BY <2>1, SpyShapes
  <1>4. CASE login # "spy"
    <2>1. ci.spy = FALSE /\ client[c].spy = FALSE
      BY <1>1, <1>2, <1>4 DEF Client
    <2>2. SpiesStay(c, ci)
      BY <1>4, <2>1 DEF SpiesStay, SpiesWith
    <2>3. QED
      BY <2>1, <2>2, SpyShapes
  <1>5. QED
    BY <1>3, <1>4

LEMMA ConnectRequestSpy ==
    ASSUME SpyInv, TInv', NEW c \in Slots, ConnectRequest(c)
    PROVE  SpyInv'
  <1>1. PICK login \in Logins, mm \in MasterModes, invited \in BOOLEAN, veto \in BOOLEAN :
            \/ AdmitReserved(c, login, mm)
            \/ AdmitOrdinary(c, login, mm, invited)
            \/ ReferToAuth(c, login, mm, invited, veto)
            \/ TurnAway(c, login, mm, invited, veto)
    BY DEF ConnectRequest
  <1>2. client[c].phase = "pending" /\ TInv
    BY <1>1 DEF AdmitReserved, AdmitOrdinary, ReferToAuth, TurnAway, Refused, CanLogIn, SpyInv
  <1> DEFINE ci == LoggedIn(c, login)
  <1>3. ci \in Client /\ ci.session = client[c].session
    BY <1>2, LoggedInType
  <1> HIDE DEF ci
  <1>4. CASE AdmitReserved(c, login, mm)
    <2> DEFINE ck == [ci EXCEPT !.using = TRUE]
               cj == Playing(ck, mm)
    <2>1. ck \in Client /\ ck.session = ci.session /\ ck.spy = ci.spy
      BY <1>3, FieldTypes DEF Client
    <2> HIDE DEF ck
    <2>2. cj \in Client /\ cj.session = ck.session /\ cj.phase = "joined" /\ cj.spy = ck.spy
      BY <2>1, PlayingType DEF Playing, Client
    <2>3. client' = [client EXCEPT ![c] = cj] /\ spies' = SpiesWith(c, login)
      BY <1>4 DEF AdmitReserved, Join, ck, ci
    <2> HIDE DEF cj
    <2>4. QED
      BY <1>2, <1>3, <2>1, <2>2, <2>3, LoggedInSpy DEF ci
  <1>5. CASE AdmitOrdinary(c, login, mm, invited)
    <2> DEFINE cj == Playing(ci, mm)
    <2>1. cj \in Client /\ cj.session = ci.session /\ cj.phase = "joined" /\ cj.spy = ci.spy
      BY <1>3, PlayingType DEF Playing, Client
    <2>2. client' = [client EXCEPT ![c] = cj] /\ spies' = SpiesWith(c, login)
      BY <1>5 DEF AdmitOrdinary, Join, ci
    <2> HIDE DEF cj
    <2>3. QED
      BY <1>2, <1>3, <2>1, <2>2, LoggedInSpy DEF ci
  <1>6. CASE ReferToAuth(c, login, mm, invited, veto)
    <2> DEFINE cj == [ci EXCEPT !.phase = "auth"]
    <2>1. cj \in Client /\ cj.session = ci.session /\ cj.phase = "auth" /\ cj.spy = ci.spy
      BY <1>3, FieldTypes DEF Client
    <2>2. client' = [client EXCEPT ![c] = cj] /\ spies' = SpiesWith(c, login)
      BY <1>6 DEF ReferToAuth, ci
    <2> HIDE DEF cj
    <2>3. QED
      BY <1>2, <1>3, <2>1, <2>2, LoggedInSpy DEF ci
  <1>7. CASE TurnAway(c, login, mm, invited, veto)
    <2>1. client' = [client EXCEPT ![c] = Vacant] /\ spies' = spies
      BY <1>7 DEF TurnAway
    <2>2. Vacant \in Client /\ Vacant.spy = FALSE /\ Vacant.session = NoSession
      BY VacantType DEF Vacant
    <2>3. client[c].spy = FALSE
      BY <1>2 DEF SpyInv, TInv, TypeOK, Client
    <2>4. SpiesStay(c, Vacant)
      BY <1>2, <2>1, <2>2, <2>3, EntriesHaveSessions DEF SpiesStay
    <2>5. QED
      BY <2>1, <2>2, <2>4, SpyShapes
  <1>8. QED
    BY <1>1, <1>4, <1>5, <1>6, <1>7

\* LeaveSpyCount: the spy that the number finds is the one whose entry goes.
LEMMA LeaveSpyCount ==
    ASSUME SpyInv, TInv', NEW c \in Slots, NEW mm, LeaveSpy(c, mm)
    PROVE  SpyInv'
  <1>1. PICK i \in DOMAIN spies :
            /\ FindsSpy(client[c].num, i)
            /\ spies' = Removed(spies, i)
            /\ client' = [client EXCEPT ![spies[i].cn] = Unspied(client[spies[i].cn], mm)]
    BY DEF LeaveSpy
  <1> DEFINE d == spies[i].cn
             ci == Unspied(client[d], mm)
  <1>2. i \in Nat \ {0} /\ i \in 1 .. i /\ \A j \in DOMAIN spies : spies[j] \in Entry
    BY EntriesHaveSessions, LenProperties DEF SpyInv, TInv, TypeOK
  <1>3. d \in Slots /\ client[d] \in Client
    BY <1>2 DEF Entry, SpyInv, TInv, TypeOK
  <1>4. client[d].session = spies[i].session
    BY <1>1, <1>2 DEF FindsSpy, Live
  <1>5. client[d].spy /\ client[d].phase \notin {"empty", "pending"}
    BY <1>3, <1>4 DEF SpyInv
  <1>6. ci \in Client /\ ci.session = client[d].session /\ ci.phase = client[d].phase /\ ~ci.spy
    BY <1>3, UnspiedType DEF Unspied, Client
  <1>7. client' = [client EXCEPT ![d] = ci]
    BY <1>1
  <1> HIDE DEF ci
  <1>8. ASSUME NEW j \in DOMAIN spies \ {i}, spies[j].cn = d, spies[j].session = ci.session
        PROVE  FALSE
    <2>1. spies[j] \in Entry /\ spies[i] \in Entry
      BY <1>2
    <2>2. spies[j] = spies[i]
      BY <1>4, <1>6, <1>8, <2>1 DEF Entry
    <2>3. QED
      BY <2>2 DEF SpyInv
  <1>9. SpyLost(d, ci)
    BY <1>1, <1>2, <1>5, <1>6, <1>8 DEF SpyLost
  <1> HIDE DEF d
  <1>10. QED
    BY <1>3, <1>5, <1>6, <1>7, <1>9, SpyShapes

LEMMA SpyInvStep == SpyInv /\ [Next]_vars => SpyInv'
  <1> SUFFICES ASSUME SpyInv, [Next]_vars PROVE SpyInv'
    OBVIOUS
  <1>0. TInv /\ TInv' /\ client \in [Slots -> Client]
    BY TInvStep DEF SpyInv, TInv, TypeOK
  <1>1. ASSUME NEW c \in Slots, NEW s \in SessionIds, ClientConnect(c, s) PROVE SpyInv'
    <2> DEFINE ci == [Vacant EXCEPT !.phase = "pending", !.session = s]
    <2>1. ci \in Client /\ ci.spy = FALSE /\ ci.session = s
      BY DEF Vacant, Client
    <2>2. client' = [client EXCEPT ![c] = ci] /\ spies' = spies /\ client[c].phase = "empty"
          /\ \A i \in DOMAIN spies : spies[i].session # s
      BY <1>1 DEF ClientConnect, FreshSession
    <2>3. client[c].spy = FALSE
      BY <1>0, <2>2 DEF SpyInv, Client
    <2> HIDE DEF ci
    <2>4. SpiesStay(c, ci)
      BY <2>1, <2>2, <2>3 DEF SpiesStay
    <2>5. QED
      BY <1>0, <2>1, <2>2, <2>4, SpyShapes
  <1>2. ASSUME NEW c \in Slots, Leave(c) PROVE SpyInv'
    BY <1>0, <1>2, LeaveKeepsCount
  <1>3. ASSUME NEW c \in Slots, ConnectRequest(c) PROVE SpyInv'
    BY <1>0, <1>3, ConnectRequestSpy
  <1>4. ASSUME NEW c \in Slots, NEW mm \in MasterModes, JoinGame(c, mm) PROVE SpyInv'
    <2> DEFINE cj == Playing(client[c], mm)
    <2>1. cj \in Client /\ cj.session = client[c].session /\ cj.phase = "joined"
          /\ cj.spy = client[c].spy
      BY <1>0, PlayingType, PlayingSpy
    <2>2. client' = [client EXCEPT ![c] = cj] /\ spies' = spies
      BY <1>4 DEF JoinGame, Join
    <2> HIDE DEF cj
    <2>3. QED
      BY <1>0, <2>1, <2>2, KeptByOthers
  <1>5. ASSUME NEW c \in Slots, GrowLate(c) PROVE SpyInv'
    <2> DEFINE cj == [client[c] EXCEPT !.late = TRUE]
    <2>1. cj \in Client /\ cj.session = client[c].session /\ cj.phase = client[c].phase
          /\ cj.spy = client[c].spy
      BY <1>0 DEF Client
    <2>2. client' = [client EXCEPT ![c] = cj] /\ spies' = spies
      BY <1>5 DEF GrowLate
    <2> HIDE DEF cj
    <2>3. QED
      BY <1>0, <2>1, <2>2, KeptByOthers DEF SpyInv
  <1>6. ASSUME NEW c \in Slots, NEW val \in BOOLEAN, SetSpectator(c, val) PROVE SpyInv'
    <2> DEFINE cj == [client[c] EXCEPT !.spec = val]
    <2>1. cj \in Client /\ cj.session = client[c].session /\ cj.phase = client[c].phase
          /\ cj.spy = client[c].spy
      BY <1>0 DEF Client
    <2>2. client' = [client EXCEPT ![c] = cj] /\ spies' = spies
      BY <1>6 DEF SetSpectator
    <2> HIDE DEF cj
    <2>3. QED
      BY <1>0, <2>1, <2>2, KeptByOthers DEF SpyInv
  <1>7. ASSUME NEW c \in Slots, EnterSpy(c) PROVE SpyInv'
    <2> DEFINE cj == [client[c] EXCEPT !.spy = TRUE, !.admin = TRUE,
                                       !.spec = TRUE, !.num = Len(spies)]
    <2>1. Len(spies) \in Nat
      BY LenProperties DEF SpyInv, TInv, TypeOK
    <2>2. cj \in Client /\ cj.session = client[c].session /\ cj.phase = client[c].phase
          /\ cj.spy = TRUE
      BY <1>0, <2>1 DEF Client
    <2>3. client' = [client EXCEPT ![c] = cj] /\ client[c].phase = "joined" /\ ~client[c].spy
          /\ spies' = Append(spies, [cn |-> c, session |-> client[c].session])
      BY <1>0, <1>7 DEF EnterSpy
    <2> HIDE DEF cj
    <2>4. SpyGained(c, cj)
      BY <2>2, <2>3 DEF SpyGained
    <2>5. QED
      BY <1>0, <2>2, <2>3, <2>4, SpyShapes
  <1>8. ASSUME NEW c \in Slots, NEW mm \in MasterModes, LeaveSpy(c, mm) PROVE SpyInv'
    BY <1>0, <1>8, LeaveSpyCount
  <1>9. CASE UNCHANGED <<client, spies>>
    BY <1>0, <1>9 DEF SpyInv, SpyCount
  <1>10. ASSUME ExecuteDisconnect PROVE SpyInv'
    <2>1. Head(tasks) \in Task
      BY <1>0, <1>10, HeadTailProperties DEF ExecuteDisconnect, TInv, TypeOK, Task
    <2>2. Head(tasks).cn \in Slots
      BY <2>1 DEF Task
    <2>3. QED
      BY <1>2, <1>9, <1>10, <2>2 DEF ExecuteDisconnect
  <1>11. QED
    BY <1>1, <1>2, <1>3, <1>4, <1>5, <1>6, <1>7, <1>8, <1>9, <1>10
       DEF Next, vars, PeerGone, AuthAnswer, RejectJoinGame, ConnectTimeout, Disconnect

LEMMA InitSpyInv == Init => SpyInv
  <1> SUFFICES ASSUME Init PROVE SpyInv
    OBVIOUS
  <1>1. TInv /\ spies = <<>> /\ \A c \in Slots : client[c] = Vacant
    BY InitTInv DEF Init
  <1>2. SpySet = {} /\ Cardinality({}) = 0 /\ Len(spies) = 0 /\ DOMAIN spies = {}
    BY <1>1, FS_EmptySet DEF SpySet, Vacant
  <1>3. SpyCount
    BY <1>2 DEF SpyCount, SpySet
  <1>4. QED
    BY <1>1, <1>2, <1>3 DEF SpyInv, Vacant

\* SpiesAreCounted: numclients and allowconnect may take the length of the vector
\* for the number of spies, however the positions in it shifted.
THEOREM SpiesAreCounted == Spec => []SpyCount
  <1>1. SpyInv => SpyCount
    BY DEF SpyInv
  <1>2. QED
    BY <1>1, InitSpyInv, SpyInvStep, PTL DEF Spec

\* LoneSpyLeaves: while nobody else is a spy, the number that "/spy 0" hands to
\* getinfo finds the spy that typed it, or nobody: it takes a second spy, and
\* numbers that are not counted again when an entry goes, for set_spy to take
\* somebody else out of the spy mode.
THEOREM LoneSpyLeaves ==
    Spec => [][\A c \in Slots :
                  /\ \E mm \in MasterModes : LeaveSpy(c, mm)
                  /\ \A d \in Slots : client[d].spy => d = c
                  => ~client'[c].spy]_vars
  <1> DEFINE Own == \A c \in Slots :
                       /\ \E mm \in MasterModes : LeaveSpy(c, mm)
                       /\ \A d \in Slots : client[d].spy => d = c
                       => ~client'[c].spy
  <1>1. SpyInv => Own
    <2> SUFFICES ASSUME SpyInv, NEW c \in Slots, NEW mm \in MasterModes, LeaveSpy(c, mm),
                        \A d \in Slots : client[d].spy => d = c
                 PROVE  ~client'[c].spy
      OBVIOUS
    <2>1. PICK i \in DOMAIN spies :
              /\ FindsSpy(client[c].num, i)
              /\ client' = [client EXCEPT ![spies[i].cn] = Unspied(client[spies[i].cn], mm)]
      BY DEF LeaveSpy
    <2>2. spies[i].cn \in Slots
      BY EntriesHaveSessions DEF SpyInv, Entry
    <2>3. i \in 1 .. i
      BY LenProperties DEF SpyInv, TInv, TypeOK
    <2>4. client[spies[i].cn].spy
      BY <2>1, <2>3 DEF FindsSpy, Live, SpyInv
    <2>5. spies[i].cn = c
      BY <2>2, <2>4
    <2>6. client[c] \in Client /\ client'[c] = Unspied(client[c], mm)
      BY <2>1, <2>5 DEF SpyInv, TInv, TypeOK
    <2>7. QED
      BY <2>6 DEF Unspied, Client
  <1>2. SpyInv => [Own]_vars
    BY <1>1
  <1> HIDE DEF Own
  <1>3. Spec => []SpyInv
    BY InitSpyInv, SpyInvStep, PTL DEF Spec
  <1>4. QED
    BY <1>2, <1>3, PTL DEF Own

\* Who is let in as an ordinary client has passed the comparison in allowconnect.
LEMMA OrdinaryPassed ==
    ASSUME TInv, [Next]_vars, NEW c \in Slots, OrdinaryAdmitted(c)
    PROVE  \E login \in Logins \ {"spy"} : ~Full(login)
  <1>1. client \in [Slots -> Client]
    BY DEF TInv, TypeOK
  <1>2. client[c].phase = "pending" /\ client'[c].phase = "joined"
        /\ ~client'[c].using /\ ~client'[c].spy
    BY DEF OrdinaryAdmitted
  <1>3. ASSUME NEW d \in Slots, Leave(d)
        PROVE  FALSE
    BY <1>1, <1>2, <1>3 DEF Leave, Vacant
  <1>4. ASSUME NEW d \in Slots, ConnectRequest(d)
        PROVE  \E login \in Logins \ {"spy"} : ~Full(login)
    <2>1. PICK login \in Logins, mm \in MasterModes, invited \in BOOLEAN, veto \in BOOLEAN :
              \/ AdmitReserved(d, login, mm)
              \/ AdmitOrdinary(d, login, mm, invited)
              \/ ReferToAuth(d, login, mm, invited, veto)
              \/ TurnAway(d, login, mm, invited, veto)
      BY <1>4 DEF ConnectRequest
    <2>2. LoggedIn(d, login) \in Client
      <3>1. client[d].phase = "pending"
        BY <2>1 DEF AdmitReserved, AdmitOrdinary, ReferToAuth, TurnAway, Refused, CanLogIn
      <3>2. QED
        BY <3>1, LoggedInType
    <2>3. LoggedIn(d, login).spy = (login = "spy")
      BY <1>1 DEF LoggedIn, Client
    <2>4. CASE AdmitReserved(d, login, mm)
      <3> DEFINE ci == [LoggedIn(d, login) EXCEPT !.using = TRUE]
      <3>1. ci \in Client /\ ci.using
        BY <2>2, FieldTypes
      <3>2. client' = [client EXCEPT ![d] = Playing(ci, mm)]
        BY <2>4 DEF AdmitReserved, Join
      <3> HIDE DEF ci
      <3>3. Playing(ci, mm).using
        BY <3>1, PlayingType
      <3>4. QED
        BY <1>1, <1>2, <3>2, <3>3
    <2>5. CASE AdmitOrdinary(d, login, mm, invited)
      <3>1. client' = [client EXCEPT ![d] = Playing(LoggedIn(d, login), mm)] /\ ~Full(login)
        BY <2>5 DEF AdmitOrdinary, Join
      <3>2. Playing(LoggedIn(d, login), mm).spy = (login = "spy")
        BY <2>2, <2>3, PlayingSpy
      <3>3. QED
        BY <1>1, <1>2, <3>1, <3>2
    <2>6. CASE ReferToAuth(d, login, mm, invited, veto)
      BY <1>1, <1>2, <2>2, <2>6 DEF ReferToAuth, Client
    <2>7. CASE TurnAway(d, login, mm, invited, veto)
      BY <1>1, <1>2, <2>7 DEF TurnAway, Vacant
    <2>8. QED
      BY <2>1, <2>4, <2>5, <2>6, <2>7
  <1>5. ASSUME NEW d \in Slots, AuthAnswer(d)
        PROVE  FALSE
    <2>1. CASE RejectJoinGame(d)
      BY <1>3, <2>1 DEF RejectJoinGame
    <2>2. CASE \E mm \in MasterModes : JoinGame(d, mm)
      <3>1. client[d].phase = "auth" /\ d # c
        BY <1>2, <1>5 DEF AuthAnswer
      <3>2. QED
        BY <1>1, <1>2, <2>2, <3>1 DEF JoinGame, Join
    <2>3. QED
      BY <1>5, <2>1, <2>2 DEF AuthAnswer
  <1>6. ASSUME NEW d \in Slots, \/ \E s \in SessionIds : ClientConnect(d, s)
                               \/ GrowLate(d)
                               \/ \E val \in BOOLEAN : SetSpectator(d, val)
                               \/ EnterSpy(d)
        PROVE  FALSE
    BY <1>1, <1>2, <1>6 DEF ClientConnect, GrowLate, SetSpectator, EnterSpy, Client, Vacant
  <1>7. ASSUME NEW d \in Slots, NEW mm \in MasterModes, LeaveSpy(d, mm)
        PROVE  FALSE
    <2>1. PICK e : client' = [client EXCEPT ![e] = Unspied(client[e], mm)]
      BY <1>7 DEF LeaveSpy
    <2>2. client'[c].phase = client[c].phase
      BY <1>1, <2>1, UnspiedType
    <2>3. QED
      BY <1>2, <2>2
  <1>8. ASSUME UNCHANGED client
        PROVE  FALSE
    BY <1>2, <1>8
  <1>9. ASSUME ExecuteDisconnect
        PROVE  FALSE
    <2>1. Head(tasks).cn \in Slots
      <3>1. Head(tasks) \in Task
        BY <1>9, HeadTailProperties DEF ExecuteDisconnect, TInv, TypeOK, Task
      <3>2. QED
        BY <3>1 DEF Task
    <2>2. QED
      BY <1>3, <1>8, <1>9, <2>1 DEF ExecuteDisconnect
  <1>10. QED
    BY <1>3, <1>4, <1>5, <1>6, <1>7, <1>8, <1>9
       DEF Next, vars, PeerGone, ConnectTimeout, Disconnect

\* CapacityWithSpies: with spies, too, the capacity is bounded. Whoever enters
\* with no right to a reserved place finds fewer than MaxClients players besides
\* the holders of such places, two more for each spy (numclients leaves him out,
\* and allowconnect takes him off once more) and, with specslots, one more for
\* each spectator.
THEOREM CapacityWithSpies ==
    Spec => [][\A c \in Slots : OrdinaryAdmitted(c) =>
                  Cardinality(Joined) < MaxClients + Cardinality(Holders)
                                          + (IF SpecSlots THEN Cardinality(Spectators) ELSE 0)
                                          + 2 * Cardinality({d \in Slots : client[d].spy})]_vars
  <1> DEFINE extra == IF SpecSlots THEN Cardinality(Spectators) ELSE 0
             Fits == \A c \in Slots : OrdinaryAdmitted(c) =>
                        Cardinality(Joined) < MaxClients + Cardinality(Holders) + extra
                                                + 2 * Cardinality({d \in Slots : client[d].spy})
  <1>1. SpyInv /\ SlotAccounting /\ [Next]_vars => [Fits]_vars
    <2> SUFFICES ASSUME SpyInv, SlotAccounting, [Next]_vars, NEW c \in Slots, OrdinaryAdmitted(c)
                 PROVE  Cardinality(Joined) < MaxClients + Cardinality(Holders) + extra
                                                + 2 * Cardinality({d \in Slots : client[d].spy})
      OBVIOUS
    <2>1. PICK login \in Logins \ {"spy"} : ~Full(login)
      BY OrdinaryPassed DEF SpyInv
    <2>2. Len(spies) = Cardinality({d \in Slots : client[d].spy}) /\ Len(spies) \in Nat
      BY LenProperties DEF SpyInv, SpyCount, TInv, TypeOK
    <2>3. /\ Cardinality(Joined) \in Nat /\ Cardinality(Holders) \in Nat
          /\ Cardinality(Spectators) \in Nat
      <3>1. Spectators \subseteq Joined
        BY DEF Spectators
      <3>2. IsFiniteSet(Spectators) /\ IsFiniteSet(Joined) /\ IsFiniteSet(Holders)
        BY <3>1, SetSizes, FS_Subset
      <3>3. QED
        BY <3>2, FS_CardinalityType
    <2>4. extra \in Nat
      BY <2>3
    <2>5. ~(Cardinality(Joined) - Len(spies) >= maxclients + extra + Len(spies) + 0)
      BY <2>1 DEF Full, ClientCount
    <2>6. /\ maxclients = MaxClients + reservedslots_use /\ reservedslots_use \in Int
          /\ reservedslots_use <= Cardinality(Holders) /\ MaxClients \in Nat
      BY <2>3, ConstantsAssumption DEF SlotAccounting, SpyInv, TInv, TypeOK
    <2> HIDE DEF extra
    <2>7. Cardinality(Joined) < MaxClients + Cardinality(Holders) + extra + 2 * Len(spies)
      BY <2>2, <2>3, <2>4, <2>5, <2>6
    <2>8. QED
      BY <2>2, <2>7
  <1> HIDE DEF Fits
  <1>2. Spec => []SpyInv
    BY InitSpyInv, SpyInvStep, PTL DEF Spec
  <1>3. QED
    BY <1>1, <1>2, SlotsAccountedFor, PTL DEF Spec, Fits

-----------------------------------------------------------------------------
(* The admission and the bots side by side                                 *)

LEMMA LiveSteps ==
    [LiveNext]_livevars => [Next]_vars /\ [AiNext]_aivars
  <1> SUFFICES ASSUME [LiveNext]_livevars PROVE [Next]_vars /\ [AiNext]_aivars
    OBVIOUS
  <1>1. CASE UNCHANGED livevars
    BY <1>1 DEF livevars
  <1>2. CASE LiveNext
    BY <1>2, Zenon DEF LiveNext
  <1>3. QED
    BY <1>1, <1>2

\* LiveIsBoth: what the run live explores implements the admission and the bots:
\* the spies are counted there, and posted work hits its session.
THEOREM LiveIsBoth ==
    LiveSpec => /\ Spec /\ AiSpec
                /\ []SpyCount /\ DisconnectHitsItsSession
  <1>1. LiveInit => Init /\ AiInit
    BY DEF LiveInit
  <1>2. LiveSpec => Spec /\ AiSpec
    BY <1>1, LiveSteps, PTL DEF LiveSpec, Spec, AiSpec
  <1>3. QED
    BY <1>2, SpiesAreCounted, PostedWorkHitsItsSession, PTL
=============================================================================
