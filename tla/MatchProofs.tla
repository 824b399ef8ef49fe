----------------------------- MODULE MatchProofs -----------------------------
(***************************************************************************)
(* Proofs about Match for any clients, maps, times and bounds: types, the  *)
(* time stamps of demos, and that the match implements GameCycle.          *)
(***************************************************************************)
EXTENDS Match, SequenceTheorems, TLAPS

LEMMA HorizonType == Horizon \in Nat /\ IntermTime \in Nat /\ MaxLimit \in Nat /\ GameTime \in 0 .. MaxLimit
  BY MatchAssumption DEF Horizon

-----------------------------------------------------------------------------
(* What the operations that several handlers share leave                   *)

LEMMA NewDemoType ==
    ASSUME NewDemo
    PROVE  demonextmatch' = FALSE /\ demorecord' \in BOOLEAN /\ demoffset' = 0
  BY DEF NewDemo, StopDemo, EndDemoRecord

LEMMA ChangeMapDoes ==
    ASSUME MatchTypeOK, ChangeMap
    PROVE  /\ mapvote' \in [Clients -> Maps \cup {NoMap}]
           /\ gamemillis' = 0 /\ gamelimit' \in 0 .. MaxLimit /\ interm' = 0
           /\ gamepaused' \in BOOLEAN /\ timed' \in BOOLEAN /\ named' \in BOOLEAN
           /\ demorecord' \in BOOLEAN /\ demonextmatch' \in BOOLEAN
           /\ demoffset' = 0
  <1>1. gamelimit' \in 0 .. MaxLimit
    BY HorizonType DEF ChangeMap
  <1>2. mapvote' \in [Clients -> Maps \cup {NoMap}]
    BY DEF ChangeMap
  <1>3. QED
    BY <1>1, <1>2, NewDemoType DEF ChangeMap

\* The clock of a step.
Clock(elapsed) ==
    LET curtime == IF shouldstep /\ ~gamepaused THEN elapsed ELSE 0
    IN  IF gamemillis + curtime < Horizon THEN gamemillis + curtime ELSE Horizon

LEMMA ClockGoesOn ==
    ASSUME MatchTypeOK, NEW elapsed \in 0 .. 1
    PROVE  /\ Clock(elapsed) \in 0 .. Horizon
           /\ Clock(elapsed) = gamemillis \/ Clock(elapsed) = gamemillis + 1
  <1> DEFINE curtime == IF shouldstep /\ ~gamepaused THEN elapsed ELSE 0
  <1>1. gamemillis \in 0 .. Horizon /\ Horizon \in Nat
    BY HorizonType DEF MatchTypeOK
  <1>2. curtime = 0 \/ curtime = 1
    OBVIOUS
  <1>3. Clock(elapsed) = IF gamemillis + curtime < Horizon THEN gamemillis + curtime ELSE Horizon
    BY DEF Clock
  <1> HIDE DEF curtime
  <1>4. QED
    BY <1>1, <1>2, <1>3

LEMMA QueueType ==
    ASSUME MatchTypeOK, NEW elapsed \in 0 .. 1, SendPackets(elapsed)
    PROVE  delayed' \in Seq(0 .. MaxDelay) /\ Len(delayed') <= MaxQueue
  <1> DEFINE queue == Aged(elapsed)
             n     == Len(delayed)
  <1>1. delayed \in Seq(0 .. MaxDelay) /\ n <= MaxQueue
    BY DEF MatchTypeOK
  <1>2. n \in Nat /\ DOMAIN delayed = 1 .. n /\ \A i \in 1 .. n : delayed[i] \in 0 .. MaxDelay
    BY <1>1, LenProperties, ElementOfSeq
  <1>3. queue \in [1 .. n -> 0 .. MaxDelay]
    BY <1>2, MatchAssumption DEF Aged
  <1>4. queue \in Seq(0 .. MaxDelay)
    BY <1>2, <1>3, SeqDef
  <1>5. Len(queue) = n
    BY <1>2, <1>3, <1>4, LenProperties
  <1> HIDE DEF queue
  <1>6. queue # <<>> => Tail(queue) \in Seq(0 .. MaxDelay) /\ Len(Tail(queue)) = n - 1
    BY <1>4, <1>5, HeadTailProperties
  <1>7. delayed' = queue \/ (queue # <<>> /\ delayed' = Tail(queue))
    BY DEF SendPackets, queue
  <1>8. n - 1 <= MaxQueue
    BY <1>1, <1>2, MatchAssumption
  <1> HIDE DEF n
  <1>9. QED
    BY <1>1, <1>4, <1>5, <1>6, <1>7, <1>8 DEF n

\* What update_server does to the clock and the intermission, in its three ways.
LEMMA UpdateDoes ==
    ASSUME MatchTypeOK, NEW elapsed \in 0 .. 1, UpdateServer(elapsed)
    PROVE  /\ shouldstep' \in BOOLEAN /\ standing' = standing /\ SendPackets(elapsed)
           /\ \/ /\ gamemillis' = Clock(elapsed)
                 /\ interm = 0
                 /\ \/ interm' = Clock(elapsed) + IntermTime /\ UNCHANGED gamelimit
                    \/ interm' = 0 /\ gamelimit' \in 0 .. MaxLimit
                 /\ UNCHANGED <<mapvote, gamepaused, timed, named, nextset, demovars,
                                spectator_delay>>
              \/ /\ interm > 0 /\ Clock(elapsed) > interm
                 /\ spectator_delay' = 0
                 /\ nextset' \in BOOLEAN
                 /\ \/ ChangeMap
                    \/ gamemillis' = Clock(elapsed) /\ NoChange /\ EndDemoRecord
              \/ /\ gamemillis' = Clock(elapsed)
                 /\ UNCHANGED <<mapvote, gamelimit, interm, gamepaused, timed, named,
                                nextset, demovars, spectator_delay>>
  <1>1. elapsed \in Int /\ interm \in Int /\ spectator_delay \in Nat /\ Clock(elapsed) \in Nat
    BY ClockGoesOn, HorizonType DEF MatchTypeOK
  <1>2. shouldstep' \in BOOLEAN /\ standing' = standing /\ SendPackets(elapsed)
    BY Zenon DEF UpdateServer
  <1> DEFINE Up   == /\ interm = 0 /\ gamemillis' = Clock(elapsed)
                     /\ \/ interm' = Clock(elapsed) + IntermTime /\ UNCHANGED gamelimit
                        \/ \E r \in 1 .. MaxLimit : /\ Clock(elapsed) + r <= MaxLimit
                                                    /\ gamelimit' = Clock(elapsed) + r
                                                    /\ UNCHANGED interm
                     /\ UNCHANGED <<mapvote, gamepaused, timed, named, nextset, demovars,
                                    spectator_delay>>
             Over == /\ IntermissionOver(Clock(elapsed))
                     /\ spectator_delay' = 0
                     /\ (ChangeMap /\ UNCHANGED nextset) \/ RotateMap(Clock(elapsed))
             On   == /\ gamemillis' = Clock(elapsed)
                     /\ UNCHANGED <<mapvote, gamelimit, interm, gamepaused, timed, named,
                                    nextset, demovars, spectator_delay>>
  <1>3. Up \/ Over \/ On
    BY DEF UpdateServer, Clock, TimeIsUp
  <1>4. CASE Up
    <2>1. CASE interm' = Clock(elapsed) + IntermTime /\ UNCHANGED gamelimit
      BY <1>2, <1>4, <2>1
    <2>2. CASE \E r \in 1 .. MaxLimit : /\ Clock(elapsed) + r <= MaxLimit
                                        /\ gamelimit' = Clock(elapsed) + r
                                        /\ UNCHANGED interm
      <3>1. gamelimit' \in 0 .. MaxLimit /\ interm' = 0
        <4> PICK r \in 1 .. MaxLimit : /\ Clock(elapsed) + r <= MaxLimit
                                       /\ gamelimit' = Clock(elapsed) + r
                                       /\ UNCHANGED interm
          BY <2>2
        <4>1. r \in Nat
          BY HorizonType
        <4>2. Clock(elapsed) + r \in 0 .. MaxLimit
          BY <1>1, <4>1, HorizonType
        <4>3. QED
          BY <1>4, <4>2
      <3>2. QED
        BY <1>2, <1>4, <3>1
    <2>3. QED
      BY <1>4, <2>1, <2>2
  <1>5. CASE Over
    <2>1. interm > 0 /\ Clock(elapsed) > interm
      BY <1>1, <1>5 DEF IntermissionOver
    <2>2. CASE ChangeMap /\ UNCHANGED nextset
      BY <1>2, <1>5, <2>1, <2>2 DEF MatchTypeOK
    <2>3. CASE RotateMap(Clock(elapsed))
      <3>1. \/ nextset' = FALSE /\ ChangeMap
            \/ /\ gamemillis' = Clock(elapsed) /\ NoChange /\ EndDemoRecord
               /\ UNCHANGED nextset
        BY <2>3 DEF RotateMap
      <3>2. QED
        BY <1>2, <1>5, <2>1, <3>1 DEF MatchTypeOK
    <2>4. QED
      BY <1>5, <2>2, <2>3
  <1>6. CASE On
    BY <1>2, <1>6
  <1>7. QED
    BY <1>3, <1>4, <1>5, <1>6

-----------------------------------------------------------------------------
(* Types                                                                   *)

LEMMA InitType == MatchInit => MatchTypeOK
  <1> SUFFICES ASSUME MatchInit PROVE MatchTypeOK
    OBVIOUS
  <1>1. gamelimit \in 0 .. MaxLimit /\ gamemillis \in 0 .. Horizon
        /\ interm \in -1 .. Horizon + IntermTime /\ demoffset \in 0 .. Horizon
    BY HorizonType DEF MatchInit
  <1>2. spectator_delay \in 0 .. MaxDelay
    BY MatchAssumption DEF MatchInit
  <1>3. delayed \in Seq(0 .. MaxDelay) /\ Len(delayed) <= MaxQueue
    BY MatchAssumption, EmptySeq DEF MatchInit
  <1>4. QED
    BY <1>1, <1>2, <1>3 DEF MatchInit, MatchTypeOK

LEMMA StepType ==
    ASSUME MatchTypeOK, [MatchNext]_mvars
    PROVE  MatchTypeOK'
  <1>1. ASSUME NEW elapsed \in 0 .. 1, UpdateServer(elapsed)
        PROVE  MatchTypeOK'
    <2>1. /\ shouldstep' \in BOOLEAN /\ standing' = standing
          /\ delayed' \in Seq(0 .. MaxDelay) /\ Len(delayed') <= MaxQueue
      BY <1>1, UpdateDoes, QueueType
    <2>2. Clock(elapsed) \in 0 .. Horizon
      BY ClockGoesOn
    <2>3. Clock(elapsed) + IntermTime \in -1 .. Horizon + IntermTime /\ 0 \in -1 .. Horizon + IntermTime
          /\ -1 \in -1 .. Horizon + IntermTime /\ 0 \in 0 .. Horizon /\ 0 \in 0 .. MaxDelay
      BY <2>2, HorizonType, MatchAssumption
    <2>4. CASE /\ gamemillis' = Clock(elapsed)
               /\ \/ interm' = Clock(elapsed) + IntermTime /\ UNCHANGED gamelimit
                  \/ interm' = 0 /\ gamelimit' \in 0 .. MaxLimit
               /\ UNCHANGED <<mapvote, gamepaused, timed, named, nextset, demovars,
                              spectator_delay>>
      BY <2>1, <2>2, <2>3, <2>4 DEF MatchTypeOK, demovars
    <2>5. CASE spectator_delay' = 0 /\ nextset' \in BOOLEAN /\ ChangeMap
      BY <2>1, <2>3, <2>5, ChangeMapDoes DEF MatchTypeOK
    <2>6. CASE /\ spectator_delay' = 0 /\ nextset' \in BOOLEAN
               /\ gamemillis' = Clock(elapsed) /\ NoChange /\ EndDemoRecord
      BY <2>1, <2>2, <2>3, <2>6 DEF NoChange, EndDemoRecord, MatchTypeOK
    <2>7. CASE /\ gamemillis' = Clock(elapsed)
               /\ UNCHANGED <<mapvote, gamelimit, interm, gamepaused, timed, named,
                              nextset, demovars, spectator_delay>>
      BY <2>1, <2>2, <2>7 DEF MatchTypeOK, demovars
    <2>8. QED
      BY <1>1, <2>4, <2>5, <2>6, <2>7, UpdateDoes
  <1>2. ASSUME NEW c \in Clients, Join(c) \/ Leave(c) \/ ChangeStanding(c)
        PROVE  MatchTypeOK'
    BY <1>2 DEF Join, Leave, ChangeStanding, MatchTypeOK, clockvars, demovars, delayvars
  <1>3. ASSUME UNCHANGED <<standing, nextset, shouldstep, delayvars>>, ChangeMap
        PROVE  MatchTypeOK'
    <2>1. 0 \in 0 .. Horizon /\ 0 \in -1 .. Horizon + IntermTime
      BY HorizonType
    <2>2. QED
      BY <1>3, <2>1, ChangeMapDoes DEF MatchTypeOK, delayvars
  <1>4. ASSUME NEW c \in Clients, NEW m \in Maps, NEW forced \in BOOLEAN, Vote(c, m, forced)
        PROVE  MatchTypeOK'
    <2>1. CASE ChangeMap
      BY <1>3, <1>4, <2>1 DEF Vote
    <2>2. CASE mapvote' = [mapvote EXCEPT ![c] = m] /\ UNCHANGED <<clockvars, demovars>>
      BY <1>4, <2>2 DEF Vote, MatchTypeOK, clockvars, demovars, delayvars
    <2>3. QED
      BY <1>4, <2>1, <2>2 DEF Vote
  <1>5. CASE ScriptChangeMap
    BY <1>3, <1>5 DEF ScriptChangeMap
  <1>6. CASE NewMap \/ RecordDemo \/ StopRecording
    <2>1. 0 \in 0 .. Horizon
      BY HorizonType
    <2>2. QED
      BY <1>6, <2>1 DEF NewMap, RecordDemo, StopRecording, EndDemoRecord, MatchTypeOK,
         votevars, clockvars, demovars, delayvars
  <1>7. CASE Broadcast
    <2>1. delayed' \in Seq(0 .. MaxDelay) /\ Len(delayed') <= MaxQueue
      BY <1>7, MatchAssumption DEF Broadcast, MatchTypeOK
    <2>2. QED
      BY <1>7, <2>1 DEF Broadcast, MatchTypeOK, votevars, clockvars, demovars
  <1>8. ASSUME NEW r \in 0 .. MaxLimit, ChangeTime(r)
        PROVE  MatchTypeOK'
    <2>1. gamelimit' \in 0 .. MaxLimit
      BY <1>8, HorizonType DEF ChangeTime, MatchTypeOK
    <2>2. QED
      BY <1>8, <2>1 DEF ChangeTime, MatchTypeOK, votevars, demovars, delayvars
  <1>9. ASSUME NEW b \in BOOLEAN, SetNext(b) \/ PauseGame(b) \/ RecordNext(b)
        PROVE  MatchTypeOK'
    BY <1>9 DEF SetNext, PauseGame, RecordNext, MatchTypeOK, votevars, clockvars, demovars,
       delayvars
  <1>10. ASSUME NEW d \in 0 .. MaxDelay, SetDelay(d)
         PROVE  MatchTypeOK'
    BY <1>10 DEF SetDelay, MatchTypeOK, votevars, clockvars, demovars
  <1>11. CASE UNCHANGED mvars
    BY <1>11 DEF MatchTypeOK, mvars, votevars, clockvars, demovars, delayvars
  <1>12. QED
    BY <1>1, <1>2, <1>4, <1>5, <1>6, <1>7, <1>8, <1>9, <1>10, <1>11 DEF MatchNext

\* MatchTyped: the clock, the intermission, the votes, the demo and the queue
\* hold the values that the code stores, for all times and bounds.
THEOREM MatchTyped == MatchSpec => []MatchTypeOK
  BY InitType, StepType, PTL DEF MatchSpec

-----------------------------------------------------------------------------
(* Demos                                                                   *)

LEMMA StampsStep ==
    ASSUME MatchTypeOK, DemoStampsForward, [MatchNext]_mvars
    PROVE  DemoStampsForward'
  <1> USE DEF DemoStampsForward
  <1>1. gamemillis \in Nat /\ demoffset \in Nat
    BY HorizonType DEF MatchTypeOK
  <1>2. ASSUME ChangeMap PROVE DemoStampsForward'
    BY <1>2, ChangeMapDoes
  <1>3. ASSUME UNCHANGED <<gamemillis, demorecord, demoffset>> PROVE DemoStampsForward'
    BY <1>3
  <1>4. ASSUME NEW elapsed \in 0 .. 1, UpdateServer(elapsed) PROVE DemoStampsForward'
    <2>1. ASSUME gamemillis' = Clock(elapsed), UNCHANGED demovars PROVE DemoStampsForward'
      <3>1. gamemillis' >= gamemillis /\ gamemillis' \in Nat
        BY <1>1, <2>1, ClockGoesOn, HorizonType
      <3>2. QED
        BY <1>1, <2>1, <3>1 DEF demovars
    <2>2. ASSUME EndDemoRecord PROVE DemoStampsForward'
      BY <2>2 DEF EndDemoRecord
    <2>3. QED
      BY <1>2, <1>4, <2>1, <2>2, UpdateDoes
  <1>5. ASSUME NEW c \in Clients, Join(c) \/ Leave(c) \/ ChangeStanding(c)
        PROVE  DemoStampsForward'
    BY <1>3, <1>5 DEF Join, Leave, ChangeStanding, clockvars, demovars
  <1>6. ASSUME NEW c \in Clients, NEW m \in Maps, NEW forced \in BOOLEAN, Vote(c, m, forced)
        PROVE  DemoStampsForward'
    BY <1>2, <1>3, <1>6 DEF Vote, clockvars, demovars
  <1>7. CASE ScriptChangeMap
    BY <1>2, <1>7 DEF ScriptChangeMap
  <1>8. CASE NewMap \/ Broadcast
    BY <1>3, <1>8 DEF NewMap, Broadcast, clockvars, demovars
  <1>9. CASE RecordDemo \/ StopRecording
    BY <1>1, <1>9 DEF RecordDemo, StopRecording, EndDemoRecord, clockvars
  <1>10. ASSUME NEW r \in 0 .. MaxLimit, ChangeTime(r) PROVE DemoStampsForward'
    BY <1>3, <1>10 DEF ChangeTime, demovars
  <1>11. ASSUME NEW b \in BOOLEAN, SetNext(b) \/ PauseGame(b) \/ RecordNext(b)
         PROVE  DemoStampsForward'
    BY <1>3, <1>11 DEF SetNext, PauseGame, RecordNext, clockvars, demovars
  <1>12. ASSUME NEW d \in 0 .. MaxDelay, SetDelay(d) PROVE DemoStampsForward'
    BY <1>3, <1>12 DEF SetDelay, clockvars, demovars
  <1>13. CASE UNCHANGED mvars
    BY <1>3, <1>13 DEF mvars, clockvars, demovars
  <1>14. QED
    BY <1>4, <1>5, <1>6, <1>7, <1>8, <1>9, <1>10, <1>11, <1>12, <1>13 DEF MatchNext

\* DemosLookForward: no packet of a demo has a stamp before its start, for the
\* recording ends or begins anew whenever changemap sets the clock back.
THEOREM DemosLookForward == MatchSpec => []DemoStampsForward
  <1>1. MatchInit => DemoStampsForward
    BY DEF MatchInit, DemoStampsForward
  <1>2. QED
    BY <1>1, InitType, StepType, StampsStep, PTL DEF MatchSpec

-----------------------------------------------------------------------------
(* The cycle of games and intermissions                                    *)

LEMMA CycleStarts == MatchInit => Cycle!CycleInit
  BY DEF MatchInit, Cycle!CycleInit

LEMMA CycleGoesOn ==
    ASSUME MatchTypeOK, [MatchNext]_mvars
    PROVE  [Cycle!CycleNext]_(Cycle!cvars)
  <1> USE DEF Cycle!CycleNext, Cycle!cvars
  <1>1. gamemillis \in Nat /\ interm \in Int /\ IntermTime \in Nat \ {0}
    BY HorizonType, MatchAssumption DEF MatchTypeOK
  <1>2. ASSUME ChangeMap PROVE Cycle!CycleNext
    BY <1>2, ChangeMapDoes DEF Cycle!NewGame
  <1>3. ASSUME UNCHANGED <<gamemillis, interm>> PROVE UNCHANGED Cycle!cvars
    BY <1>3
  <1>4. ASSUME NEW elapsed \in 0 .. 1, UpdateServer(elapsed)
        PROVE  [Cycle!CycleNext]_(Cycle!cvars)
    <2>1. Clock(elapsed) \in Int /\ (Clock(elapsed) = gamemillis \/ Clock(elapsed) = gamemillis + 1)
      BY <1>1, ClockGoesOn
    <2>2. CASE /\ gamemillis' = Clock(elapsed)
               /\ interm = 0 /\ interm' = Clock(elapsed) + IntermTime
      <3>1. interm' > 0 /\ gamemillis' - (interm' - IntermTime) = 0
        BY <1>1, <2>1, <2>2
      <3>2. QED
        BY <2>2, <3>1 DEF Cycle!TimeUp
    <2>3. CASE gamemillis' = Clock(elapsed) /\ UNCHANGED interm
      <3>1. CASE gamemillis' = gamemillis
        BY <1>3, <2>3, <3>1
      <3>2. CASE gamemillis' = gamemillis + 1 /\ interm = 0
        BY <2>3, <3>2 DEF Cycle!PlayOn
      <3>3. CASE gamemillis' = gamemillis + 1 /\ interm > 0
        <4>1. gamemillis + 1 - (interm - IntermTime) = gamemillis - (interm - IntermTime) + 1
          BY <1>1
        <4>2. QED
          BY <1>1, <2>3, <3>3, <4>1 DEF Cycle!Linger
      <3>4. CASE interm < 0
        BY <1>1, <2>3, <3>4
      <3>5. QED
        BY <1>1, <2>1, <2>3, <3>1, <3>2, <3>3, <3>4
    <2>4. CASE interm > 0 /\ Clock(elapsed) > interm /\ NoChange
      <3>1. gamemillis - (interm - IntermTime) >= IntermTime
        BY <1>1, <2>1, <2>4
      <3>2. interm' = -1 /\ interm # 0
        BY <1>1, <2>4 DEF NoChange
      <3>3. QED
        BY <2>4, <3>1, <3>2 DEF Cycle!Close
    <2>5. QED
      BY <1>2, <1>4, <2>2, <2>3, <2>4, UpdateDoes
  <1>5. ASSUME NEW c \in Clients, Join(c) \/ Leave(c) \/ ChangeStanding(c)
        PROVE  UNCHANGED Cycle!cvars
    BY <1>3, <1>5 DEF Join, Leave, ChangeStanding, clockvars
  <1>6. ASSUME NEW c \in Clients, NEW m \in Maps, NEW forced \in BOOLEAN, Vote(c, m, forced)
        PROVE  [Cycle!CycleNext]_(Cycle!cvars)
    <2>1. ChangeMap \/ UNCHANGED <<gamemillis, interm>>
      BY <1>6 DEF Vote, clockvars
    <2>2. QED
      BY <1>2, <1>3, <2>1
  <1>7. CASE ScriptChangeMap
    BY <1>2, <1>7 DEF ScriptChangeMap
  <1>8. CASE NewMap \/ RecordDemo \/ StopRecording \/ Broadcast
    <2>1. UNCHANGED <<gamemillis, interm>>
      BY <1>8 DEF NewMap, RecordDemo, StopRecording, Broadcast, clockvars
    <2>2. QED
      BY <1>3, <2>1
  <1>9. ASSUME NEW r \in 0 .. MaxLimit, ChangeTime(r) PROVE UNCHANGED Cycle!cvars
    BY <1>3, <1>9 DEF ChangeTime
  <1>10. ASSUME NEW b \in BOOLEAN, SetNext(b) \/ PauseGame(b) \/ RecordNext(b)
         PROVE  UNCHANGED Cycle!cvars
    BY <1>3, <1>10 DEF SetNext, PauseGame, RecordNext, clockvars
  <1>11. ASSUME NEW d \in 0 .. MaxDelay, SetDelay(d) PROVE UNCHANGED Cycle!cvars
    BY <1>3, <1>11 DEF SetDelay, clockvars
  <1>12. CASE UNCHANGED mvars
    <2>1. UNCHANGED <<gamemillis, interm>>
      BY <1>12 DEF mvars, clockvars
    <2>2. QED
      BY <1>3, <2>1
  <1> HIDE DEF Cycle!CycleNext, Cycle!cvars
  <1>13. QED
    BY <1>4, <1>5, <1>6, <1>7, <1>8, <1>9, <1>10, <1>11, <1>12 DEF MatchNext

\* CycleImplemented: whatever clients, votes, scripts and the rotation do, games
\* and intermissions alternate as GameCycle says (checkintermission, changetime,
\* serverupdate, changemap), for all times, bounds and delays.
THEOREM CycleImplemented == MatchSpec => ImplementsGameCycle
  <1>1. MatchInit => Cycle!CycleInit
    BY CycleStarts
  <1>2. MatchTypeOK /\ [MatchNext]_mvars => [Cycle!CycleNext]_(Cycle!cvars)
    BY CycleGoesOn
  <1>3. QED
    BY <1>1, <1>2, MatchTyped, PTL DEF MatchSpec, ImplementsGameCycle, Cycle!CycleSpec
=============================================================================
