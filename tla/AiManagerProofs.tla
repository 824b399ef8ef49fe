--------------------------- MODULE AiManagerProofs ---------------------------
(***************************************************************************)
(* Proofs about AiManager for any clients, bots, teams, modes and limits.  *)
(*                                                                         *)
(* Each bot names its owner and each player lists its bots.  Listed says   *)
(* that the lists tell the truth, which holds of every use of the server;  *)
(* Named says the converse, which holds as long as no bot waits for its    *)
(* removal when another one is added, and nobody uses unsetmaster.         *)
(***************************************************************************)
EXTENDS AiManager, FiniteSetTheorems, TLAPS

Listed == \A h \in Humans : \A b \in runs[h] : b \in Bots /\ bot[b].owner = h

\* Who may own a bot, a spy included: not a spectator without a privilege.
MayOwn(h) == h \in HumansHere /\ (human[h].state = "spectator" => human[h].priv # "none")

Named == \A b \in OwnedBots : b \in runs[bot[b].owner] /\ MayOwn(bot[b].owner)

ListInv == AiTypeOK /\ Listed

OwnerInv == ListInv /\ Named

\* The two halves of AiTypeOK: what the bots are made of, and all else.
BotsTyped ==
    /\ bot \in [BotIds -> Bot \cup {NoBot}] /\ bot[MaxBots] = NoBot
    /\ runs \in [Humans -> SUBSET BotIds]

AiRestTyped ==
    /\ human \in [Humans -> Human]
    /\ botlimit \in Limits /\ botbalance \in BOOLEAN
    /\ dorefresh \in BOOLEAN /\ mode \in Modes /\ stopped \in BOOLEAN

-----------------------------------------------------------------------------
(* Types of the parts                                                      *)

LEMMA BotIdsType == MaxBots \in Nat /\ BotIds \subseteq Nat /\ IsFiniteSet(BotIds)
                    /\ MaxBots \in BotIds
  <1>1. MaxBots \in Nat
    BY AiAssumption
  <1>2. IsFiniteSet(0 .. MaxBots)
    BY <1>1, FS_Interval
  <1>3. QED
    BY <1>1, <1>2 DEF BotIds

LEMMA BotType ==
    ASSUME AiTypeOK
    PROVE  /\ Bots \subseteq BotIds \ {MaxBots}
           /\ \A b \in Bots : bot[b] \in Bot
           /\ \A b \in BotIds : b \notin Bots => bot[b] = NoBot
           /\ OwnedBots \subseteq Bots
           /\ \A b \in OwnedBots : bot[b].owner \in Humans
           /\ \A b \in BotIds \ OwnedBots : b \in Bots => bot[b].owner = NoOwner
  <1>1. Bots \subseteq BotIds \ {MaxBots} /\ \A b \in Bots : bot[b] \in Bot
    BY DEF AiTypeOK, Bots
  <1>2. QED
    BY <1>1 DEF Bots, OwnedBots, Bot

LEMMA ValidPresent == Valid \subseteq HumansHere /\ HumansHere \subseteq Humans
                      /\ \A h \in Valid : MayOwn(h)
  BY DEF Valid, HumansHere, MayOwn

-----------------------------------------------------------------------------
(* The operations that handlers share                                      *)

\* What shiftai leaves when the bots of h go to other players.
LEMMA RehomeDoes ==
    ASSUME ListInv, NEW h \in Humans, Rehome(h)
    PROVE  /\ bot' \in [BotIds -> Bot \cup {NoBot}] /\ bot'[MaxBots] = NoBot
           /\ runs' \in [Humans -> SUBSET BotIds]
           /\ Listed'
           /\ Named => \A b \in OwnedBots' : /\ b \in runs'[bot'[b].owner]
                                             /\ \/ bot'[b].owner \in Valid \ {h}
                                                \/ /\ b \in OwnedBots /\ bot'[b].owner = bot[b].owner
                                                   /\ bot[b].owner # h
  <1> DEFINE heirs == IF Valid \ {h} = {} THEN {NoOwner} ELSE Valid \ {h}
  <1> USE DEF ListInv
  <1>1. PICK heir \in [runs[h] -> heirs] :
          /\ runs' = [k \in Humans |-> IF k = h THEN {}
                                       ELSE runs[k] \cup {b \in runs[h] : heir[b] = k}]
          /\ bot' = [b \in BotIds |-> IF b \in runs[h] THEN Shifted(b, heir[b]) ELSE bot[b]]
    BY DEF Rehome
  <1>2. /\ heirs \subseteq Humans \cup {NoOwner}
        /\ \A g \in heirs : g \in Humans => g \in Valid \ {h}
        /\ NoOwner \notin Humans
    BY ValidPresent, AiAssumption
  <1>3. /\ runs[h] \subseteq Bots \cap BotIds
        /\ \A b \in runs[h] : bot[b] \in Bot /\ heir[b] \in heirs
    BY BotType DEF Listed
  <1> HIDE DEF heirs
  <1>4. \A b \in runs[h] : Shifted(b, heir[b]) \in Bot
    BY <1>2, <1>3 DEF Shifted, Bot
  <1>5. \A b \in runs[h] : /\ bot'[b] = Shifted(b, heir[b]) /\ bot'[b].owner = heir[b]
                           /\ bot'[b] # NoBot
    BY <1>1, <1>3, <1>4, NoBotAssumption DEF Shifted
  <1>6. \A b \in BotIds : b \notin runs[h] => bot'[b] = bot[b]
    BY <1>1
  <1>7. bot' \in [BotIds -> Bot \cup {NoBot}] /\ bot'[MaxBots] = NoBot
    <2>1. MaxBots \notin runs[h]
      BY BotType, <1>3
    <2>2. QED
      BY <1>1, <1>4, <1>6, <2>1, BotIdsType DEF AiTypeOK
  <1>8. runs' \in [Humans -> SUBSET BotIds]
    BY <1>1, <1>3 DEF AiTypeOK
  <1>9. Listed'
    <2>1. SUFFICES ASSUME NEW k \in Humans, NEW b \in runs'[k]
                   PROVE  b \in BotIds /\ bot'[b] # NoBot /\ bot'[b].owner = k
      BY DEF Listed, Bots
    <2>2. k # h /\ (b \in runs[k] \/ (b \in runs[h] /\ heir[b] = k))
      BY <1>1, <2>1
    <2>3. CASE b \in runs[h] /\ heir[b] = k
      BY <1>3, <1>5, <2>3
    <2>4. CASE b \in runs[k]
      <3>1. b \in Bots /\ bot[b].owner = k
        BY <2>4 DEF Listed
      <3>2. b \notin runs[h]
        BY <2>2, <3>1 DEF Listed
      <3>3. QED
        BY <1>6, <3>1, <3>2 DEF Bots
    <2>5. QED
      BY <2>2, <2>3, <2>4
  <1>10. ASSUME Named, NEW b \in OwnedBots'
         PROVE  /\ b \in runs'[bot'[b].owner]
                /\ \/ bot'[b].owner \in Valid \ {h}
                   \/ b \in OwnedBots /\ bot'[b].owner = bot[b].owner /\ bot[b].owner # h
    <2>1. b \in BotIds /\ bot'[b] # NoBot /\ bot'[b].owner # NoOwner
      BY <1>10 DEF OwnedBots, Bots
    <2>2. CASE b \in runs[h]
      <3>1. bot'[b].owner = heir[b] /\ heir[b] \in Valid \ {h}
        <4>1. heir[b] \in heirs /\ heir[b] # NoOwner
          BY <1>3, <1>5, <2>1, <2>2
        <4>2. QED
          BY <1>2, <1>5, <2>2, <4>1
      <3>2. heir[b] \in Humans
        BY <3>1, ValidPresent
      <3>3. QED
        BY <1>1, <2>2, <3>1, <3>2
    <2>3. CASE b \notin runs[h]
      <3>1. bot'[b] = bot[b] /\ b \in OwnedBots
        BY <1>6, <2>1, <2>3 DEF OwnedBots, Bots
      <3>2. bot[b].owner \in Humans /\ b \in runs[bot[b].owner]
        BY <1>10, <3>1, BotType DEF Named
      <3>3. bot[b].owner # h
        BY <2>3, <3>2
      <3>4. QED
        BY <1>1, <3>1, <3>2, <3>3
    <2>4. QED
      BY <2>2, <2>3
  <1>11. QED
    BY <1>7, <1>8, <1>9, <1>10

LEMMA DeleteDoes ==
    ASSUME ListInv, NEW S, DeleteAi(S)
    PROVE  /\ bot' \in [BotIds -> Bot \cup {NoBot}] /\ bot'[MaxBots] = NoBot
           /\ runs' \in [Humans -> SUBSET BotIds]
           /\ Listed'
           /\ Named => \A b \in OwnedBots' : /\ b \in OwnedBots /\ bot'[b] = bot[b]
                                             /\ b \in runs'[bot[b].owner]
  <1> USE DEF ListInv
  <1>1. /\ bot' = [b \in BotIds |-> IF b \in S THEN NoBot ELSE bot[b]]
        /\ runs' = [h \in Humans |-> runs[h] \ {b \in S : bot[b].owner = h}]
    BY DEF DeleteAi
  <1>2. bot' \in [BotIds -> Bot \cup {NoBot}] /\ bot'[MaxBots] = NoBot
        /\ runs' \in [Humans -> SUBSET BotIds]
    BY <1>1, BotIdsType DEF AiTypeOK
  <1>3. Listed'
    <2>1. SUFFICES ASSUME NEW h \in Humans, NEW b \in runs'[h]
                   PROVE  b \in BotIds /\ bot'[b] # NoBot /\ bot'[b].owner = h
      BY DEF Listed, Bots
    <2>2. b \in runs[h] /\ (b \in S => bot[b].owner # h)
      BY <1>1
    <2>3. b \in Bots /\ bot[b].owner = h
      BY <2>2 DEF Listed
    <2>4. QED
      BY <1>1, <2>2, <2>3 DEF Bots
  <1>4. ASSUME Named, NEW b \in OwnedBots'
        PROVE  b \in OwnedBots /\ bot'[b] = bot[b] /\ b \in runs'[bot[b].owner]
    <2>1. b \in BotIds /\ b \notin S /\ bot'[b] = bot[b] /\ b \in OwnedBots
      BY <1>1, <1>4 DEF OwnedBots, Bots
    <2>2. bot[b].owner \in Humans /\ b \in runs[bot[b].owner]
      BY <1>4, <2>1, BotType DEF Named
    <2>3. QED
      BY <1>1, <2>1, <2>2
  <1>5. QED
    BY <1>2, <1>3, <1>4

\* A number for a new bot is found below MAXBOTS.
LEMMA PlaceFound ==
    ASSUME AiTypeOK, NEW limit \in 0 .. MaxBots, Room(limit),
           NEW b \in BotIds \ OwnedBots, \A d \in BotIds \ OwnedBots : b <= d
    PROVE  b # MaxBots
  <1> SUFFICES ASSUME b = MaxBots PROVE FALSE
    OBVIOUS
  <1>1. MaxBots \in Nat /\ limit <= MaxBots /\ limit \in Nat
    BY AiAssumption
  <1>2. 0 .. MaxBots - 1 \subseteq OwnedBots
    <2>1. SUFFICES ASSUME NEW d \in 0 .. MaxBots - 1, d \notin OwnedBots PROVE FALSE
      OBVIOUS
    <2>2. d \in BotIds \ OwnedBots /\ d < b
      BY <1>1, <2>1 DEF BotIds
    <2>3. QED
      BY <1>1, <2>2
  <1>3. IsFiniteSet(OwnedBots) /\ OwnedBots \subseteq BotIds
    BY BotType, BotIdsType, FS_Subset
  <1>4. Cardinality(0 .. MaxBots - 1) = MaxBots
    BY <1>1, FS_Interval
  <1>7. Cardinality(0 .. MaxBots - 1) <= Cardinality(OwnedBots)
    BY <1>2, <1>3, FS_Subset
  <1>5. Cardinality(OwnedBots) \in Nat
    BY <1>3, FS_CardinalityType
  <1>6. QED
    BY <1>1, <1>4, <1>5, <1>7 DEF Room

LEMMA AddDoes ==
    ASSUME ListInv, NEW limit \in 0 .. MaxBots, AddAi(limit)
    PROVE  /\ AiTypeOK'
           /\ Listed'
           /\ ~Reuse /\ Named => Named'
  <1> USE DEF ListInv
  <1>1. PICK b \in BotIds \ OwnedBots, o \in Heirs(Valid), team \in Smallest :
          /\ \A d \in BotIds \ OwnedBots : b <= d
          /\ IF b \in Bots THEN ReuseBot(b, o) ELSE AddBot(b, o, team)
    BY DEF AddAi
  <1>2. b # MaxBots
    BY <1>1, PlaceFound DEF AddAi
  <1>3. (o \in Valid /\ o \in Humans) \/ o = NoOwner
    BY ValidPresent DEF Heirs
  <1>4. team \in AiTeams \cup {""}
    BY DEF Smallest
  <1>5. UNCHANGED <<human, settings>> /\ dorefresh' = TRUE
    BY DEF AddAi, Refresh
  <1>6. NoOwner \notin Humans
    BY AiAssumption
  <1>7. CASE b \notin Bots
    <2> DEFINE new == [owner |-> o, told |-> NoOwner, reinit |-> TRUE, team |-> team]
    <2>1. /\ bot' = [bot EXCEPT ![b] = new]
          /\ runs' = [h \in Humans |-> IF h = o THEN runs[h] \cup {b} ELSE runs[h]]
      BY <1>1, <1>7 DEF AddBot
    <2>8. o \in Humans \cup {NoOwner} /\ NoOwner \in Humans \cup {NoOwner}
      BY <1>3
    <2>9. new \in Bot
      BY <1>4, <2>8 DEF Bot
    <2>2. new \in Bot /\ new # NoBot /\ new.owner = o
      BY <2>9, NoBotAssumption
    <2> HIDE DEF new
    <2>3. bot'[b] = new /\ (\A d \in BotIds : d # b => bot'[d] = bot[d])
          /\ bot' \in [BotIds -> Bot \cup {NoBot}]
      BY <2>1, <2>2 DEF AiTypeOK
    <2>4. AiTypeOK'
      BY <1>2, <1>5, <2>1, <2>3, BotIdsType DEF AiTypeOK, settings
    <2>5. Listed'
      <3>1. SUFFICES ASSUME NEW h \in Humans, NEW d \in runs'[h]
                     PROVE  d \in BotIds /\ bot'[d] # NoBot /\ bot'[d].owner = h
        BY DEF Listed, Bots
      <3>2. CASE d \in runs[h]
        BY <1>7, <2>3, <3>2 DEF Listed, Bots
      <3>3. CASE d = b /\ h = o
        BY <2>2, <2>3, <3>3
      <3>4. QED
        BY <2>1, <3>1, <3>2, <3>3
    <2>6. ASSUME Named PROVE Named'
      <3>1. SUFFICES ASSUME NEW d \in OwnedBots'
                     PROVE  d \in runs'[bot'[d].owner] /\ MayOwn(bot'[d].owner)
        BY <1>5 DEF Named, MayOwn, HumansHere
      <3>2. d \in BotIds /\ bot'[d] # NoBot /\ bot'[d].owner # NoOwner
        BY <3>1 DEF OwnedBots, Bots
      <3>3. CASE d = b
        BY <1>3, <2>1, <2>2, <2>3, <3>2, <3>3, ValidPresent
      <3>4. CASE d # b
        <4>1. bot'[d] = bot[d] /\ d \in OwnedBots
          BY <2>3, <3>2, <3>4 DEF OwnedBots, Bots
        <4>2. bot[d].owner \in Humans /\ d \in runs[bot[d].owner] /\ MayOwn(bot[d].owner)
          BY <2>6, <4>1, BotType DEF Named
        <4>3. QED
          BY <2>1, <4>1, <4>2
      <3>5. QED
        BY <3>3, <3>4
    <2>7. QED
      BY <2>4, <2>5, <2>6
  <1>8. CASE b \in Bots
    <2>1. /\ Reuse
          /\ bot' = [bot EXCEPT ![b] = [@ EXCEPT !.owner = o, !.reinit = TRUE]]
          /\ UNCHANGED runs
      BY <1>1, <1>8 DEF ReuseBot
    <2>2. bot[b] \in Bot /\ bot[b].owner = NoOwner
      BY <1>8, BotType
    <2> DEFINE new == [bot[b] EXCEPT !.owner = o, !.reinit = TRUE]
    <2>3. new \in Bot /\ new # NoBot
      BY <1>3, <2>2, NoBotAssumption DEF Bot
    <2> HIDE DEF new
    <2>4. bot'[b] = new /\ (\A d \in BotIds : d # b => bot'[d] = bot[d])
          /\ bot' \in [BotIds -> Bot \cup {NoBot}]
      BY <2>1, <2>3 DEF AiTypeOK, new
    <2>5. AiTypeOK'
      BY <1>2, <1>5, <2>1, <2>4, BotIdsType DEF AiTypeOK, settings
    <2>6. Listed'
      <3>1. SUFFICES ASSUME NEW h \in Humans, NEW d \in runs[h]
                     PROVE  d \in BotIds /\ bot'[d] # NoBot /\ bot'[d].owner = h
        BY <2>1 DEF Listed, Bots
      <3>2. d \in Bots /\ bot[d].owner = h /\ d # b
        BY <1>6, <2>2, <3>1 DEF Listed
      <3>3. QED
        BY <2>4, <3>2 DEF Bots
    <2>7. QED
      BY <2>1, <2>5, <2>6
  <1>9. QED
    BY <1>7, <1>8

LEMMA CheckSetupDoes ==
    ASSUME ListInv, NEW moved, NEW to \in AiTeams \cup {""}, CheckSetup(moved, to)
    PROVE  /\ bot' \in [BotIds -> Bot \cup {NoBot}] /\ bot'[MaxBots] = NoBot
           /\ runs' \in [Humans -> SUBSET BotIds]
           /\ dorefresh' \in BOOLEAN
           /\ Listed'
           /\ Named => \A b \in OwnedBots' :
                          /\ b \in runs'[bot'[b].owner]
                          /\ \/ bot'[b].owner \in Valid
                             \/ b \in OwnedBots /\ bot'[b].owner = bot[b].owner
  <1> DEFINE kept == UNION {runs[h] : h \in Valid}
  <1> USE DEF ListInv
  <1>1. PICK owner \in [kept -> Valid] :
          /\ runs' = [h \in Humans |-> IF h \in Valid THEN {b \in kept : owner[b] = h} ELSE runs[h]]
          /\ bot' = [b \in BotIds |->
               IF b \notin OwnedBots THEN NoBot
               ELSE LET o == IF b \in kept THEN owner[b] ELSE bot[b].owner IN
                    [owner  |-> o,
                     told   |-> IF bot[b].reinit THEN bot[b].owner ELSE bot[b].told,
                     reinit |-> o # bot[b].owner,
                     team   |-> IF b \in moved THEN to ELSE bot[b].team]]
    BY DEF CheckSetup
  <1>2. dorefresh' \in BOOLEAN
    BY DEF CheckSetup, Settle
  <1> DEFINE o(b) == IF b \in kept THEN owner[b] ELSE bot[b].owner
             rec(b) == [owner  |-> o(b),
                        told   |-> IF bot[b].reinit THEN bot[b].owner ELSE bot[b].told,
                        reinit |-> o(b) # bot[b].owner,
                        team   |-> IF b \in moved THEN to ELSE bot[b].team]
  <1>3. Valid \subseteq Humans /\ NoOwner \notin Humans
    BY ValidPresent, AiAssumption
  <1>4. \A b \in kept : b \in OwnedBots /\ owner[b] \in Valid /\ bot[b].owner \in Valid
    <2>1. SUFFICES ASSUME NEW h \in Valid, NEW b \in runs[h]
                   PROVE  b \in OwnedBots /\ bot[b].owner \in Valid
      OBVIOUS
    <2>2. QED
      BY <1>3 DEF Listed, OwnedBots
  <1>5. \A b \in OwnedBots : o(b) \in Humans /\ bot[b] \in Bot
    BY <1>3, <1>4, BotType
  <1>6. \A b \in OwnedBots : rec(b) \in Bot /\ rec(b).owner = o(b)
    BY <1>5 DEF Bot
  <1>7. /\ \A b \in OwnedBots : b \in BotIds /\ bot'[b] = rec(b)
        /\ \A b \in BotIds : b \notin OwnedBots => bot'[b] = NoBot
    BY <1>1, BotType
  <1> HIDE DEF rec, kept
  <1>8. bot' \in [BotIds -> Bot \cup {NoBot}] /\ bot'[MaxBots] = NoBot
    <2>1. MaxBots \in BotIds /\ MaxBots \notin OwnedBots
      BY BotIdsType, BotType
    <2>2. \A b \in BotIds : bot'[b] \in Bot \cup {NoBot}
      BY <1>6, <1>7
    <2>3. bot' = [b \in BotIds |-> bot'[b]]
      BY <1>1
    <2>4. QED
      BY <1>7, <2>1, <2>2, <2>3
  <1>9. runs' \in [Humans -> SUBSET BotIds]
    <2>1. kept \subseteq BotIds
      BY <1>4, <1>7
    <2>2. QED
      BY <1>1, <2>1 DEF AiTypeOK
  <1>10. OwnedBots' = OwnedBots /\ \A b \in OwnedBots : bot'[b].owner = o(b)
    <2>1. \A b \in OwnedBots : bot'[b].owner = o(b) /\ bot'[b] # NoBot /\ o(b) # NoOwner
      BY <1>3, <1>5, <1>6, <1>7, NoBotAssumption
    <2>2. QED
      BY <1>7, <2>1 DEF OwnedBots, Bots
  <1>11. Listed'
    <2>1. SUFFICES ASSUME NEW h \in Humans, NEW b \in runs'[h]
                   PROVE  b \in OwnedBots /\ o(b) = h
      BY <1>10 DEF Listed, OwnedBots
    <2>2. CASE h \in Valid
      BY <1>1, <1>4, <2>1, <2>2
    <2>3. CASE h \notin Valid
      <3>1. b \in runs[h]
        BY <1>1, <2>1, <2>3
      <3>2. b \in OwnedBots /\ bot[b].owner = h
        BY <1>3, <3>1 DEF Listed, OwnedBots
      <3>3. QED
        BY <1>4, <2>3, <3>2
    <2>4. QED
      BY <2>2, <2>3
  <1>12. ASSUME Named, NEW b \in OwnedBots
         PROVE  b \in runs'[o(b)] /\ (o(b) \in Valid \/ o(b) = bot[b].owner)
    <2>1. CASE b \in kept
      BY <1>1, <1>3, <1>4, <2>1
    <2>2. CASE b \notin kept
      <3>1. bot[b].owner \in Humans /\ b \in runs[bot[b].owner]
        BY <1>12, BotType DEF Named
      <3>2. bot[b].owner \notin Valid
        BY <2>2, <3>1 DEF kept
      <3>3. QED
        BY <1>1, <2>2, <3>1, <3>2
    <2>3. QED
      BY <2>1, <2>2
  <1>13. QED
    BY <1>2, <1>8, <1>9, <1>10, <1>11, <1>12

-----------------------------------------------------------------------------
(* The lists tell the truth                                                *)

LEMMA TypeHalves == AiTypeOK <=> AiRestTyped /\ BotsTyped
  BY DEF AiTypeOK, AiRestTyped, BotsTyped

LEMMA TypeHalvesNext == AiTypeOK' <=> AiRestTyped' /\ BotsTyped'
  BY DEF AiTypeOK, AiRestTyped, BotsTyped

LEMMA AiInitInv == AiInit => OwnerInv
  <1> SUFFICES ASSUME AiInit PROVE OwnerInv
    OBVIOUS
  <1>1. AiTypeOK
    <2>1. Gone \in Human
      BY AiAssumption DEF Gone, Human
    <2>2. QED
      BY <2>1, BotIdsType DEF AiInit, AiTypeOK
  <1>2. Listed
    BY DEF AiInit, Listed
  <1>3. OwnedBots = {}
    BY DEF AiInit, OwnedBots, Bots
  <1>4. QED
    BY <1>1, <1>2, <1>3 DEF OwnerInv, ListInv, Named

\* A step that leaves the bots alone.
LEMMA BotsStay ==
    ASSUME ListInv, UNCHANGED <<bot, runs>>
    PROVE  BotsTyped' /\ Listed'
  BY DEF ListInv, AiTypeOK, BotsTyped, Listed, Bots

\* removeai, whatever it does to dorefresh.
LEMMA RehomeLists ==
    ASSUME ListInv, NEW h \in Humans, Rehome(h)
    PROVE  BotsTyped' /\ Listed'
  BY RehomeDoes DEF BotsTyped

LEMMA DeleteLists ==
    ASSUME ListInv, NEW S, DeleteAi(S)
    PROVE  BotsTyped' /\ Listed'
  BY DeleteDoes DEF BotsTyped

LEMMA RemoveOrNot ==
    ASSUME ListInv, NEW h \in Humans, NEW P, IF P THEN RemoveAi(h) ELSE NoRefresh
    PROVE  BotsTyped' /\ Listed' /\ dorefresh' \in BOOLEAN
  <1>1. CASE P
    BY <1>1, RehomeLists DEF RemoveAi, ListInv, AiTypeOK
  <1>2. CASE ~P
    BY <1>2, BotsStay DEF NoRefresh, ListInv, AiTypeOK
  <1>3. QED
    BY <1>1, <1>2

LEMMA HumanSteps ==
    ASSUME ListInv, NEW h \in Humans,
           \/ \E state \in {"player", "spectator"}, t \in AiTeams : AiJoin(h, state, t)
           \/ AiLeave(h) \/ AiSpectate(h) \/ AiUnspectate(h)
           \/ \E t \in AiTeams : AiSwitchTeam(h, t)
           \/ \E p \in {"master", "admin"} : Raise(h, p)
           \/ AiRelinquish(h) \/ AiEnterSpy(h)
           \/ \E open \in BOOLEAN : AiLeaveSpy(h, open)
    PROVE  AiRestTyped' /\ BotsTyped' /\ Listed'
  <1>1. AiRestTyped /\ human[h] \in Human /\ Gone \in Human
    BY AiAssumption DEF ListInv, AiTypeOK, AiRestTyped, Gone, Human
  <1>2. ASSUME NEW q \in Human, human' = [human EXCEPT ![h] = q],
               dorefresh' \in BOOLEAN, UNCHANGED settings
        PROVE  AiRestTyped'
    BY <1>1, <1>2 DEF AiRestTyped, settings
  <1>3. ASSUME NEW state \in {"player", "spectator"}, NEW t \in AiTeams, AiJoin(h, state, t)
        PROVE  AiRestTyped' /\ BotsTyped' /\ Listed'
    <2>1. [Gone EXCEPT !.state = state, !.team = t] \in Human
      BY <1>1 DEF Human
    <2>2. QED
      BY <1>2, <1>3, <2>1, BotsStay DEF AiJoin, Refresh
  <1>4. CASE AiLeave(h)
    <2>1. dorefresh' \in BOOLEAN
      BY <1>1, <1>4 DEF AiLeave, AiRestTyped
    <2>2. QED
      BY <1>1, <1>2, <1>4, <2>1, RehomeLists DEF AiLeave
  <1>5. CASE AiSpectate(h)
    <2>1. BotsTyped' /\ Listed' /\ dorefresh' \in BOOLEAN
      BY <1>5, RemoveOrNot DEF AiSpectate
    <2>2. [human[h] EXCEPT !.state = "spectator"] \in Human
      BY <1>1 DEF Human
    <2>3. QED
      BY <1>1, <1>2, <1>5, <2>1, <2>2 DEF AiSpectate, AiRestTyped
  <1>6. CASE AiUnspectate(h)
    <2>1. [human[h] EXCEPT !.state = "player"] \in Human
      BY <1>1 DEF Human
    <2>2. QED
      BY <1>1, <1>2, <1>6, <2>1, BotsStay DEF AiUnspectate, Refresh, AiRestTyped
  <1>7. ASSUME NEW t \in AiTeams, AiSwitchTeam(h, t)
        PROVE  AiRestTyped' /\ BotsTyped' /\ Listed'
    <2>1. [human[h] EXCEPT !.team = t] \in Human
      BY <1>1 DEF Human
    <2>2. QED
      BY <1>1, <1>2, <1>7, <2>1, BotsStay DEF AiSwitchTeam, Refresh, AiRestTyped
  <1>8. ASSUME NEW p \in {"master", "admin"}, Raise(h, p)
        PROVE  AiRestTyped' /\ BotsTyped' /\ Listed'
    <2>1. [human[h] EXCEPT !.priv = p] \in Human
      BY <1>1 DEF Human
    <2>2. dorefresh' \in BOOLEAN
      BY <1>1, <1>8 DEF Raise, NoRefresh, AiRestTyped
    <2>3. QED
      BY <1>1, <1>2, <1>8, <2>1, <2>2, BotsStay DEF Raise, NoRefresh, AiRestTyped
  <1>9. CASE AiRelinquish(h)
    <2>1. BotsTyped' /\ Listed' /\ dorefresh' \in BOOLEAN
      BY <1>9, RemoveOrNot DEF AiRelinquish
    <2>2. [human[h] EXCEPT !.priv = "none"] \in Human
      BY <1>1 DEF Human
    <2>3. QED
      BY <1>1, <1>2, <1>9, <2>1, <2>2 DEF AiRelinquish, AiRestTyped
  <1>10. CASE AiEnterSpy(h)
    <2>1. BotsTyped' /\ Listed' /\ dorefresh' \in BOOLEAN
      BY <1>10, RemoveOrNot DEF AiEnterSpy
    <2>2. [human[h] EXCEPT !.state = "spectator", !.spy = TRUE, !.priv = "admin"] \in Human
      BY <1>1 DEF Human
    <2>3. QED
      BY <1>1, <1>2, <1>10, <2>1, <2>2 DEF AiEnterSpy, AiRestTyped
  <1>11. ASSUME NEW open \in BOOLEAN, AiLeaveSpy(h, open)
         PROVE  AiRestTyped' /\ BotsTyped' /\ Listed'
    <2> DEFINE q == [human[h] EXCEPT !.spy = FALSE, !.state = IF open THEN "player" ELSE @]
    <2>1. q \in Human
      BY <1>1 DEF Human
    <2>2. human' = [human EXCEPT ![h] = q]
      BY <1>1, <1>11 DEF AiLeaveSpy, AiRestTyped
    <2>3. dorefresh' \in BOOLEAN
      BY <1>1, <1>11 DEF AiLeaveSpy, AiRestTyped
    <2> HIDE DEF q
    <2>4. QED
      BY <1>2, <1>11, <2>1, <2>2, <2>3, BotsStay DEF AiLeaveSpy
  <1>12. QED
    BY <1>3, <1>4, <1>5, <1>6, <1>7, <1>8, <1>9, <1>10, <1>11

LEMMA BotSteps ==
    ASSUME ListInv,
           \/ \E b \in BotIds, t \in AiTeams : SetBotTeam(b, t)
           \/ ReqAdd \/ ExecuteAddBot \/ ReqDel
           \/ \E b \in BotIds : ExecuteDeleteBot(b)
           \/ CheckAi
    PROVE  AiRestTyped' /\ BotsTyped' /\ Listed'
  <1>1. AiRestTyped /\ BotsTyped
    BY TypeHalves DEF ListInv
  <1>2. ASSUME UNCHANGED <<human, settings>>, dorefresh' \in BOOLEAN PROVE AiRestTyped'
    BY <1>1, <1>2 DEF AiRestTyped, settings
  <1>3. ASSUME NEW b \in BotIds, NEW t \in AiTeams, SetBotTeam(b, t)
        PROVE  AiRestTyped' /\ BotsTyped' /\ Listed'
    <2> DEFINE new == [bot[b] EXCEPT !.team = t]
    <2>1. bot' = [bot EXCEPT ![b] = new] /\ b \in Bots
      BY <1>3 DEF SetBotTeam
    <2>2. bot[b] \in Bot /\ b # MaxBots
      BY <2>1, BotType DEF ListInv
    <2>3. new \in Bot /\ new.owner = bot[b].owner
      BY <2>2 DEF Bot
    <2>4. new # NoBot
      BY <2>3, NoBotAssumption
    <2> HIDE DEF new
    <2>5. AiRestTyped'
      BY <1>1, <1>3 DEF SetBotTeam, AiRestTyped, settings
    <2>6. BotsTyped'
      BY <1>1, <1>3, <2>1, <2>2, <2>3 DEF SetBotTeam, BotsTyped
    <2>7. \A d \in BotIds : bot'[d] = IF d = b THEN new ELSE bot[d]
      BY <1>1, <2>1 DEF BotsTyped
    <2>8. UNCHANGED runs
      BY <1>3 DEF SetBotTeam
    <2>9. Listed'
      BY <2>3, <2>4, <2>7, <2>8 DEF ListInv, Listed, Bots
    <2>10. QED
      BY <2>5, <2>6, <2>9
  <1>4. ASSUME NEW limit \in 0 .. MaxBots, AddAi(limit)
        PROVE  AiRestTyped' /\ BotsTyped' /\ Listed'
    BY <1>4, AddDoes, TypeHalvesNext
  <1>5. CASE ReqAdd
    <2>1. MaxBots \in 0 .. MaxBots /\ botlimit \in 0 .. MaxBots
      BY <1>1, AiAssumption DEF AiRestTyped
    <2>2. QED
      BY <1>4, <1>5, <2>1 DEF ReqAdd
  <1>6. CASE ExecuteAddBot
    <2>1. MaxBots \in 0 .. MaxBots
      BY AiAssumption
    <2>2. QED
      BY <1>4, <1>6, <2>1 DEF ExecuteAddBot
  <1>7. CASE ReqDel
    BY <1>2, <1>7, DeleteLists DEF ReqDel, Refresh
  <1>8. ASSUME NEW b \in BotIds, ExecuteDeleteBot(b)
        PROVE  AiRestTyped' /\ BotsTyped' /\ Listed'
    BY <1>2, <1>8, DeleteLists DEF ExecuteDeleteBot, Refresh
  <1>9. CASE CheckAi
    <2>1. UNCHANGED <<human, settings>>
      BY <1>9 DEF CheckAi
    <2>2. ASSUME NEW moved, NEW to \in AiTeams \cup {""}, CheckSetup(moved, to)
          PROVE  AiRestTyped' /\ BotsTyped' /\ Listed'
      BY <1>2, <2>1, <2>2, CheckSetupDoes DEF BotsTyped
    <2>3. CASE DeleteAi(Bots) /\ dorefresh' = (Bots # {})
      BY <1>2, <2>1, <2>3, DeleteLists
    <2>4. \/ \E moved : \E to \in AiTeams \cup {""} : CheckSetup(moved, to)
          \/ DeleteAi(Bots) /\ dorefresh' = (Bots # {})
      BY <1>9 DEF CheckAi
    <2>5. QED
      BY <2>2, <2>3, <2>4
  <1>10. QED
    BY <1>3, <1>5, <1>6, <1>7, <1>8, <1>9

LEMMA SettingSteps ==
    ASSUME ListInv,
           \/ SetTeamRefused \/ AiUnsetMaster
           \/ \E limit \in Limits, balance, refresh \in BOOLEAN : SetBots(limit, balance, refresh)
           \/ \E m \in Modes : AiChangeMap(m)
           \/ \E on \in BOOLEAN : Stop(on)
    PROVE  AiRestTyped' /\ BotsTyped' /\ Listed'
  <1>1. AiRestTyped
    BY TypeHalves DEF ListInv
  <1>2. CASE SetTeamRefused
    BY <1>1, <1>2, BotsStay DEF SetTeamRefused, Refresh, AiRestTyped, settings
  <1>3. CASE AiUnsetMaster
    <2>1. \A h \in Humans : [human[h] EXCEPT !.priv = "none"] \in Human /\ human[h] \in Human
      BY <1>1 DEF AiRestTyped, Human
    <2>2. human' \in [Humans -> Human]
      BY <1>3, <2>1 DEF AiUnsetMaster
    <2>3. QED
      BY <1>1, <1>3, <2>2, BotsStay DEF AiUnsetMaster, NoRefresh, AiRestTyped, settings
  <1>4. ASSUME NEW limit \in Limits, NEW balance \in BOOLEAN, NEW refresh \in BOOLEAN,
               SetBots(limit, balance, refresh)
        PROVE  AiRestTyped' /\ BotsTyped' /\ Listed'
    BY <1>1, <1>4, BotsStay DEF SetBots, AiRestTyped
  <1>5. ASSUME NEW m \in Modes, AiChangeMap(m) PROVE AiRestTyped' /\ BotsTyped' /\ Listed'
    BY <1>1, <1>5, DeleteLists DEF AiChangeMap, Refresh, AiRestTyped
  <1>6. ASSUME NEW on \in BOOLEAN, Stop(on) PROVE AiRestTyped' /\ BotsTyped' /\ Listed'
    BY <1>1, <1>6, BotsStay DEF Stop, AiRestTyped
  <1>7. QED
    BY <1>2, <1>3, <1>4, <1>5, <1>6

LEMMA ListStep == ListInv /\ [AiNext]_aivars => ListInv'
  <1> SUFFICES ASSUME ListInv, [AiNext]_aivars PROVE ListInv'
    OBVIOUS
  <1>1. CASE UNCHANGED aivars
    BY <1>1 DEF aivars, ListInv, AiTypeOK, Listed, Bots
  <1>2. CASE AiNext
    BY <1>2, HumanSteps, BotSteps, SettingSteps, TypeHalvesNext DEF AiNext, ListInv
  <1>3. QED
    BY <1>1, <1>2

\* Whoever joins, leaves, watches, becomes a spy, adds or deletes bots: the state
\* is made of the values that the handlers of aiman.h and server.cpp store.
THEOREM AiTyped == AiSpec => []AiTypeOK
  <1>1. AiInit => ListInv
    BY AiInitInv DEF OwnerInv
  <1>2. ListInv => AiTypeOK
    BY DEF ListInv
  <1>3. QED
    BY <1>1, <1>2, ListStep, PTL DEF AiSpec

\* What is in clientinfo::bots is a bot that lives, and names that client its
\* owner: deleteai frees a bot after looking up only the owner it names, and no
\* list keeps a pointer to what is freed, whatever scripts add and delete.
THEOREM NoDangling == AiSpec => []NoDanglingBot
  <1>1. AiInit => ListInv
    BY AiInitInv DEF OwnerInv
  <1>2. ListInv => NoDanglingBot
    BY DEF ListInv, Listed, NoDanglingBot
  <1>3. QED
    BY <1>1, <1>2, ListStep, PTL DEF AiSpec

-----------------------------------------------------------------------------
(* Every bot is in its owner's list                                        *)

\* The bots stay with owners that still may own one.
LEMMA NamedStays ==
    ASSUME OwnerInv, UNCHANGED <<bot, runs>>,
           \A h \in Humans : MayOwn(h) => MayOwn(h)'
    PROVE  Named'
  <1>1. SUFFICES ASSUME NEW b \in OwnedBots', NEW o, o = bot'[b].owner
                 PROVE  b \in runs'[o] /\ MayOwn(o)'
    BY DEF Named, MayOwn, HumansHere
  <1>2. b \in OwnedBots /\ bot' = bot /\ runs' = runs
    BY <1>1 DEF OwnedBots, Bots
  <1>3. bot[b].owner \in Humans /\ b \in runs[bot[b].owner] /\ MayOwn(bot[b].owner)
    BY <1>2, BotType DEF OwnerInv, ListInv, Named
  <1>4. QED
    BY <1>1, <1>2, <1>3

\* The bots of h are shifted; the others' owners still may own one.
LEMMA NamedRehomed ==
    ASSUME OwnerInv, NEW h \in Humans, Rehome(h),
           \A k \in Humans \ {h} : MayOwn(k) => MayOwn(k)'
    PROVE  Named'
  <1>1. SUFFICES ASSUME NEW b \in OwnedBots', NEW o, o = bot'[b].owner
                 PROVE  b \in runs'[o] /\ MayOwn(o)'
    BY DEF Named, MayOwn, HumansHere
  <1>2. /\ b \in runs'[bot'[b].owner]
        /\ \/ bot'[b].owner \in Valid \ {h}
           \/ b \in OwnedBots /\ bot'[b].owner = bot[b].owner /\ bot[b].owner # h
    BY <1>1, RehomeDoes DEF OwnerInv
  <1>3. o \in Humans \ {h} /\ MayOwn(o)
    BY <1>1, <1>2, ValidPresent, BotType DEF OwnerInv, ListInv, Named
  <1>4. QED
    BY <1>1, <1>2, <1>3

\* removeai is called for the spectator without a privilege, and only for it.
LEMMA NamedRemoved ==
    ASSUME OwnerInv, NEW h \in Humans, NEW P, IF P THEN RemoveAi(h) ELSE NoRefresh,
           ~P => (MayOwn(h) => MayOwn(h)'),
           \A k \in Humans \ {h} : MayOwn(k) => MayOwn(k)'
    PROVE  Named'
  <1>1. CASE P
    BY <1>1, NamedRehomed DEF RemoveAi
  <1>2. CASE ~P
    BY <1>2, NamedStays DEF NoRefresh
  <1>3. QED
    BY <1>1, <1>2

LEMMA NamedDeleted ==
    ASSUME OwnerInv, NEW S, DeleteAi(S), UNCHANGED human
    PROVE  Named'
  <1>1. SUFFICES ASSUME NEW b \in OwnedBots'
                 PROVE  b \in runs'[bot'[b].owner] /\ MayOwn(bot'[b].owner)
    BY DEF Named, MayOwn, HumansHere
  <1>2. b \in OwnedBots /\ bot'[b] = bot[b] /\ b \in runs'[bot[b].owner]
    BY <1>1, DeleteDoes DEF OwnerInv
  <1>3. QED
    BY <1>2 DEF OwnerInv, Named

LEMMA NamedChecked ==
    ASSUME OwnerInv, CheckAi
    PROVE  Named'
  <1>1. UNCHANGED human
    BY DEF CheckAi
  <1>2. ASSUME NEW moved, NEW to \in AiTeams \cup {""}, CheckSetup(moved, to) PROVE Named'
    <2>1. SUFFICES ASSUME NEW b \in OwnedBots'
                   PROVE  b \in runs'[bot'[b].owner] /\ MayOwn(bot'[b].owner)
      BY <1>1 DEF Named, MayOwn, HumansHere
    <2>2. /\ b \in runs'[bot'[b].owner]
          /\ bot'[b].owner \in Valid \/ (b \in OwnedBots /\ bot'[b].owner = bot[b].owner)
      BY <1>2, <2>1, CheckSetupDoes DEF OwnerInv
    <2>3. QED
      BY <2>2, ValidPresent DEF OwnerInv, Named
  <1>3. CASE DeleteAi(Bots)
    BY <1>1, <1>3, NamedDeleted
  <1>4. \/ \E moved : \E to \in AiTeams \cup {""} : CheckSetup(moved, to)
        \/ DeleteAi(Bots)
    BY DEF CheckAi
  <1>5. QED
    BY <1>2, <1>3, <1>4

LEMMA NamedPlayers ==
    ASSUME OwnerInv, NEW h \in Humans,
           \/ \E state \in {"player", "spectator"}, t \in AiTeams : AiJoin(h, state, t)
           \/ AiLeave(h) \/ AiSpectate(h) \/ AiUnspectate(h)
           \/ \E t \in AiTeams : AiSwitchTeam(h, t)
           \/ \E p \in {"master", "admin"} : Raise(h, p)
           \/ AiRelinquish(h) \/ AiEnterSpy(h)
           \/ \E open \in BOOLEAN : AiLeaveSpy(h, open)
    PROVE  Named'
  <1>1. human \in [Humans -> Human]
    BY DEF OwnerInv, ListInv, AiTypeOK
  <1>2. ASSUME NEW q, human' = [human EXCEPT ![h] = q]
        PROVE  \A k \in Humans \ {h} : MayOwn(k) => MayOwn(k)'
    BY <1>1, <1>2 DEF MayOwn, HumansHere
  <1>3. ASSUME NEW q, human' = [human EXCEPT ![h] = q],
               q.state # "gone", q.state = "spectator" => q.priv # "none"
        PROVE  \A k \in Humans : MayOwn(k) => MayOwn(k)'
    BY <1>1, <1>3 DEF MayOwn, HumansHere
  <1>4. ASSUME NEW state \in {"player", "spectator"}, NEW t \in AiTeams, AiJoin(h, state, t)
        PROVE  Named'
    <2>1. ~MayOwn(h)
      BY <1>4 DEF AiJoin, MayOwn
    <2>2. \A k \in Humans : MayOwn(k) => MayOwn(k)'
      BY <1>2, <1>4, <2>1 DEF AiJoin
    <2>3. QED
      BY <1>4, <2>2, NamedStays DEF AiJoin
  <1>5. CASE AiLeave(h)
    BY <1>2, <1>5, NamedRehomed DEF AiLeave
  <1>6. CASE AiSpectate(h)
    <2> DEFINE q == [human[h] EXCEPT !.state = "spectator"]
    <2>1. human' = [human EXCEPT ![h] = q]
      BY <1>6 DEF AiSpectate
    <2>2. human[h].priv # "none" => \A k \in Humans : MayOwn(k) => MayOwn(k)'
      <3>1. q.state = "spectator" /\ q.priv = human[h].priv
        BY <1>1 DEF Human
      <3> HIDE DEF q
      <3>2. QED
        BY <1>3, <2>1, <3>1
    <2> HIDE DEF q
    <2>3. \A k \in Humans \ {h} : MayOwn(k) => MayOwn(k)'
      BY <1>2, <2>1
    <2>4. QED
      BY <1>6, <2>2, <2>3, NamedRemoved DEF AiSpectate
  <1>7. CASE AiUnspectate(h)
    <2> DEFINE q == [human[h] EXCEPT !.state = "player"]
    <2>1. human' = [human EXCEPT ![h] = q]
      BY <1>7 DEF AiUnspectate
    <2>2. q.state = "player"
      BY <1>1 DEF Human
    <2> HIDE DEF q
    <2>3. \A k \in Humans : MayOwn(k) => MayOwn(k)'
      BY <1>3, <2>1, <2>2
    <2>4. QED
      BY <1>7, <2>3, NamedStays DEF AiUnspectate
  <1>8. ASSUME NEW t \in AiTeams, AiSwitchTeam(h, t) PROVE Named'
    <2>1. \A k \in Humans : MayOwn(k) => MayOwn(k)'
      BY <1>1, <1>8 DEF AiSwitchTeam, MayOwn, HumansHere, Human
    <2>2. QED
      BY <1>8, <2>1, NamedStays DEF AiSwitchTeam
  <1>9. ASSUME NEW p \in {"master", "admin"}, Raise(h, p) PROVE Named'
    <2>1. \A k \in Humans : MayOwn(k) => MayOwn(k)'
      BY <1>1, <1>9 DEF Raise, MayOwn, HumansHere, Human
    <2>2. QED
      BY <1>9, <2>1, NamedStays DEF Raise, NoRefresh
  <1>10. CASE AiRelinquish(h)
    <2> DEFINE q == [human[h] EXCEPT !.priv = "none"]
    <2>1. human' = [human EXCEPT ![h] = q]
      BY <1>10 DEF AiRelinquish
    <2>2. human[h].state # "spectator" => \A k \in Humans : MayOwn(k) => MayOwn(k)'
      <3>1. q.state = human[h].state /\ human[h].state # "gone"
        BY <1>1, <1>10 DEF Human, AiRelinquish, Privileged, HumansHere
      <3> HIDE DEF q
      <3>2. QED
        BY <1>3, <2>1, <3>1
    <2> HIDE DEF q
    <2>3. \A k \in Humans \ {h} : MayOwn(k) => MayOwn(k)'
      BY <1>2, <2>1
    <2>4. QED
      BY <1>10, <2>2, <2>3, NamedRemoved DEF AiRelinquish
  <1>11. CASE AiEnterSpy(h)
    <2> DEFINE q == [human[h] EXCEPT !.state = "spectator", !.spy = TRUE, !.priv = "admin"]
    <2>1. human' = [human EXCEPT ![h] = q]
      BY <1>11 DEF AiEnterSpy
    <2>2. q.state = "spectator" /\ q.priv = "admin"
      BY <1>1 DEF Human
    <2> HIDE DEF q
    <2>3. \A k \in Humans : MayOwn(k) => MayOwn(k)'
      BY <1>3, <2>1, <2>2
    <2>4. QED
      BY <1>11, <2>3, NamedRemoved DEF AiEnterSpy
  <1>12. ASSUME NEW open \in BOOLEAN, AiLeaveSpy(h, open) PROVE Named'
    <2>1. /\ human'[h].state = IF open THEN "player" ELSE human[h].state
          /\ human'[h].priv = human[h].priv
          /\ \A k \in Humans \ {h} : human'[k] = human[k]
      BY <1>1, <1>12 DEF AiLeaveSpy, Human
    <2>2. \A k \in Humans : MayOwn(k) => MayOwn(k)'
      BY <2>1 DEF MayOwn, HumansHere
    <2>3. QED
      BY <1>12, <2>2, NamedStays DEF AiLeaveSpy
  <1>13. QED
    BY <1>4, <1>5, <1>6, <1>7, <1>8, <1>9, <1>10, <1>11, <1>12

LEMMA NamedOthers ==
    ASSUME OwnerInv, ~Reuse, ~Unsetting,
           \/ \E b \in BotIds, t \in AiTeams : SetBotTeam(b, t)
           \/ SetTeamRefused \/ AiUnsetMaster
           \/ ReqAdd \/ ExecuteAddBot \/ ReqDel
           \/ \E b \in BotIds : ExecuteDeleteBot(b)
           \/ \E limit \in Limits, balance, refresh \in BOOLEAN : SetBots(limit, balance, refresh)
           \/ \E m \in Modes : AiChangeMap(m)
           \/ \E on \in BOOLEAN : Stop(on)
    PROVE  Named'
  <1>1. ASSUME UNCHANGED <<human, bot, runs>> PROVE Named'
    BY <1>1, NamedStays DEF MayOwn, HumansHere
  <1>2. ASSUME NEW b \in BotIds, NEW t \in AiTeams, SetBotTeam(b, t) PROVE Named'
    <2>1. /\ bot' = [bot EXCEPT ![b].team = t] /\ b \in Bots
          /\ UNCHANGED <<human, runs>>
      BY <1>2 DEF SetBotTeam
    <2>2. bot \in [BotIds -> Bot \cup {NoBot}] /\ bot[b] \in Bot
      BY <2>1, BotType DEF OwnerInv, ListInv, AiTypeOK
    <2>3. bot'[b].owner = bot[b].owner /\ \A d \in BotIds : d # b => bot'[d] = bot[d]
      BY <2>1, <2>2 DEF Bot
    <2>4. \A d \in OwnedBots' : d \in OwnedBots /\ bot'[d].owner = bot[d].owner
      BY <2>1, <2>3 DEF OwnedBots, Bots
    <2>5. QED
      BY <2>1, <2>4 DEF OwnerInv, Named, MayOwn, HumansHere
  <1>3. ASSUME NEW limit \in 0 .. MaxBots, AddAi(limit) PROVE Named'
    BY <1>3, AddDoes DEF OwnerInv
  <1>4. MaxBots \in 0 .. MaxBots /\ botlimit \in 0 .. MaxBots
    BY AiAssumption DEF OwnerInv, ListInv, AiTypeOK
  <1>5. CASE ReqAdd \/ ExecuteAddBot
    BY <1>3, <1>4, <1>5 DEF ReqAdd, ExecuteAddBot
  <1>6. CASE ReqDel
    BY <1>6, NamedDeleted DEF ReqDel
  <1>7. ASSUME NEW b \in BotIds, ExecuteDeleteBot(b) PROVE Named'
    BY <1>7, NamedDeleted DEF ExecuteDeleteBot
  <1>8. ASSUME NEW m \in Modes, AiChangeMap(m) PROVE Named'
    BY <1>8, NamedDeleted DEF AiChangeMap
  <1>9. CASE SetTeamRefused
    BY <1>1, <1>9 DEF SetTeamRefused
  <1>10. ASSUME NEW limit \in Limits, NEW balance \in BOOLEAN, NEW refresh \in BOOLEAN,
                SetBots(limit, balance, refresh)
         PROVE  Named'
    BY <1>1, <1>10 DEF SetBots
  <1>11. ASSUME NEW on \in BOOLEAN, Stop(on) PROVE Named'
    BY <1>1, <1>11 DEF Stop
  <1>12. ~AiUnsetMaster
    BY DEF AiUnsetMaster
  <1>13. QED
    BY <1>2, <1>5, <1>6, <1>7, <1>8, <1>9, <1>10, <1>11, <1>12

LEMMA OwnerStep == ~Reuse /\ ~Unsetting /\ OwnerInv /\ [AiNext]_aivars => OwnerInv'
  <1> SUFFICES ASSUME ~Reuse, ~Unsetting, OwnerInv, [AiNext]_aivars PROVE OwnerInv'
    OBVIOUS
  <1>1. ListInv'
    BY ListStep DEF OwnerInv
  <1>2. Named'
    <2>1. CASE UNCHANGED aivars
      BY <2>1, NamedStays DEF aivars, MayOwn, HumansHere
    <2>2. CASE AiNext
      BY <2>2, NamedPlayers, NamedOthers, NamedChecked DEF AiNext
    <2>3. QED
      BY <2>1, <2>2
  <1>3. QED
    BY <1>1, <1>2 DEF OwnerInv

\* As long as no bot is added while another one waits for its removal, and no
\* script uses unsetmaster, every bot is in the list of the owner it names, and
\* that owner is a client that validaiclient accepts, or a spy.  removeai,
\* reassignai and the pings of the bots go by that list alone.
THEOREM OwnersRunTheirBots ==
    ASSUME ~Reuse, ~Unsetting
    PROVE  AiSpec => []OwnersRun
  <1>1. AiInit => OwnerInv
    BY AiInitInv
  <1>2. OwnerInv => OwnersRun
    <2>1. SUFFICES ASSUME OwnerInv, NEW b \in OwnedBots
                   PROVE  LET h == bot[b].owner
                          IN  h \in HumansHere /\ b \in runs[h] /\ (h \in Valid \/ human[h].spy)
      BY DEF OwnersRun
    <2>2. b \in runs[bot[b].owner] /\ MayOwn(bot[b].owner)
      BY <2>1 DEF OwnerInv, Named
    <2>3. QED
      BY <2>2 DEF MayOwn, Valid
  <1>3. OwnerInv /\ [AiNext]_aivars => OwnerInv'
    BY OwnerStep
  <1>4. QED
    BY <1>1, <1>2, <1>3, PTL DEF AiSpec

\* removeai leaves no bot with the client that goes: the same two conditions.
THEOREM RemovalTakesAll ==
    ASSUME ~Reuse, ~Unsetting
    PROVE  AiSpec => RemovalDecides
  <1>1. AiInit => OwnerInv
    BY AiInitInv
  <1>2. ASSUME OwnerInv, OwnerInv', [AiNext]_aivars
        PROVE  [\A h \in Humans : AiLeave(h) => \A b \in Bots' : bot'[b].owner # h]_aivars
    <2>1. SUFFICES ASSUME NEW h \in Humans, AiLeave(h), NEW b \in Bots', bot'[b].owner = h
                   PROVE  FALSE
      OBVIOUS
    <2>2. b \in OwnedBots'
      BY <2>1, AiAssumption DEF OwnedBots
    <2>3. h \notin HumansHere'
      BY <1>2, <2>1 DEF AiLeave, HumansHere, Gone, OwnerInv, ListInv, AiTypeOK
    <2>4. QED
      BY <1>2, <2>1, <2>2, <2>3 DEF OwnerInv, Named, MayOwn
  <1>3. OwnerInv /\ [AiNext]_aivars => OwnerInv'
    BY OwnerStep
  <1>4. QED
    BY <1>1, <1>2, <1>3, PTL DEF AiSpec, RemovalDecides

-----------------------------------------------------------------------------
(***************************************************************************)
(* When no refresh is asked for.  Whatever takes a bot's owner, its place  *)
(* in a list or the right of a player to run bots asks for a refresh, and  *)
(* the round of checkai that asks for no other one changed no list.  Reuse *)
(* of a bot and unsetmaster are no exceptions here.                        *)
(***************************************************************************)
Computes(h) == human[h].state = "player"

\* A bot that is not to be announced again was announced with its owner.
Honest == \A b \in OwnedBots : ~bot[b].reinit => bot[b].told = bot[b].owner

SpiesWatch == \A h \in Humans : human[h].spy => ~Computes(h)

Calm == /\ \A b \in Bots : bot[b].owner # NoOwner /\ ~bot[b].reinit
        /\ \A h, k \in Humans : Computes(h) /\ Computes(k) => Load(h) <= Load(k) + 1

SettledInv == ListInv /\ Honest /\ SpiesWatch /\ (dorefresh \/ Calm)

\* What a handler may do to each bot, but for its team.
BotsTouched == \A b \in BotIds : \/ bot'[b] = bot[b] \/ bot'[b] = NoBot
                                 \/ bot'[b].owner = NoOwner \/ bot'[b].reinit

LEMMA HonestKept ==
    ASSUME Honest, BotsTouched
    PROVE  Honest'
  <1>1. SUFFICES ASSUME NEW b \in OwnedBots', ~bot'[b].reinit
                 PROVE  bot'[b].told = bot'[b].owner
    BY DEF Honest
  <1>2. b \in BotIds /\ bot'[b] # NoBot /\ bot'[b].owner # NoOwner
    BY <1>1 DEF OwnedBots, Bots
  <1>3. bot'[b] = bot[b] /\ b \in OwnedBots
    BY <1>1, <1>2 DEF BotsTouched, OwnedBots, Bots
  <1>4. QED
    BY <1>1, <1>3 DEF Honest

\* Calm depends on the bots, the lists and on who plays.
LEMMA CalmKept ==
    ASSUME Calm, UNCHANGED <<bot, runs>>, \A h \in Humans : Computes(h)' => Computes(h)
    PROVE  Calm'
  <1>1. Bots' = Bots /\ \A h \in Humans : Load(h)' = Load(h)
    BY DEF Bots, Load
  <1>2. QED
    BY <1>1 DEF Calm

\* The bots that a client loses are announced again, or wait for an owner.
LEMMA RehomeSettles ==
    ASSUME ListInv, NEW h \in Humans, Rehome(h)
    PROVE  /\ BotsTouched
           /\ runs[h] = {} => bot' = bot /\ runs' = runs
  <1> DEFINE heirs == IF Valid \ {h} = {} THEN {NoOwner} ELSE Valid \ {h}
  <1>1. PICK heir \in [runs[h] -> heirs] :
          /\ runs' = [k \in Humans |-> IF k = h THEN {}
                                       ELSE runs[k] \cup {b \in runs[h] : heir[b] = k}]
          /\ bot' = [b \in BotIds |-> IF b \in runs[h] THEN Shifted(b, heir[b]) ELSE bot[b]]
    BY DEF Rehome
  <1>2. bot \in [BotIds -> Bot \cup {NoBot}] /\ runs \in [Humans -> SUBSET BotIds]
    BY DEF ListInv, AiTypeOK
  <1>3. ASSUME runs[h] = {} PROVE bot' = bot /\ runs' = runs
    <2>1. bot' = bot
      BY <1>1, <1>2, <1>3
    <2>2. \A k \in Humans : runs'[k] = runs[k]
      BY <1>1, <1>3
    <2>3. runs' = runs
      BY <1>1, <1>2, <2>2
    <2>4. QED
      BY <2>1, <2>3
  <1>4. ASSUME NEW b \in BotIds
        PROVE  bot'[b] = bot[b] \/ bot'[b].owner = NoOwner \/ bot'[b].reinit
    <2>1. CASE b \notin runs[h]
      BY <1>1, <2>1
    <2>2. CASE b \in runs[h]
      <3>1. bot'[b] = Shifted(b, heir[b])
        BY <1>1, <2>2
      <3>2. bot'[b].owner = heir[b] /\ bot'[b].reinit = (heir[b] # NoOwner)
        BY <3>1 DEF Shifted
      <3>3. QED
        BY <3>2
    <2>3. QED
      BY <2>1, <2>2
  <1>5. QED
    BY <1>3, <1>4 DEF BotsTouched

LEMMA RemoveSettles ==
    ASSUME ListInv, NEW h \in Humans, NEW P, IF P THEN RemoveAi(h) ELSE NoRefresh
    PROVE  BotsTouched /\ (dorefresh' \/ (UNCHANGED <<bot, runs, dorefresh>>))
  <1>1. CASE P
    BY <1>1, RehomeSettles DEF RemoveAi, ListInv, AiTypeOK
  <1>2. CASE ~P
    BY <1>2 DEF NoRefresh, BotsTouched
  <1>3. QED
    BY <1>1, <1>2

LEMMA DeleteSettles ==
    ASSUME NEW S, DeleteAi(S)
    PROVE  BotsTouched
  BY DEF DeleteAi, BotsTouched

LEMMA AddSettles ==
    ASSUME ListInv, NEW limit, AddAi(limit)
    PROVE  BotsTouched
  <1>1. PICK b \in BotIds \ OwnedBots, o \in Heirs(Valid), team \in Smallest :
          IF b \in Bots THEN ReuseBot(b, o) ELSE AddBot(b, o, team)
    BY DEF AddAi
  <1>2. bot \in [BotIds -> Bot \cup {NoBot}]
    BY DEF ListInv, AiTypeOK
  <1>3. CASE b \in Bots
    <2> DEFINE new == [bot[b] EXCEPT !.owner = o, !.reinit = TRUE]
    <2>1. bot[b] \in Bot
      BY <1>3, BotType DEF ListInv
    <2>2. new.reinit
      BY <2>1 DEF Bot
    <2>3. bot' = [bot EXCEPT ![b] = new]
      BY <1>1, <1>3 DEF ReuseBot
    <2> HIDE DEF new
    <2>4. QED
      BY <1>2, <2>2, <2>3 DEF BotsTouched
  <1>4. CASE b \notin Bots
    <2> DEFINE new == [owner |-> o, told |-> NoOwner, reinit |-> TRUE, team |-> team]
    <2>1. new.reinit /\ bot' = [bot EXCEPT ![b] = new]
      BY <1>1, <1>4 DEF AddBot
    <2> HIDE DEF new
    <2>2. QED
      BY <1>2, <2>1 DEF BotsTouched
  <1>5. QED
    BY <1>3, <1>4

\* A round of checkai announces every bot; one that asks for no other round has
\* found every bot with an owner, and the bots of the players even.
LEMMA SetupSettles ==
    ASSUME ListInv, Honest, SpiesWatch, NEW moved, NEW to \in AiTeams \cup {""}, CheckSetup(moved, to),
           UNCHANGED human
    PROVE  /\ Honest'
           /\ dorefresh' \in BOOLEAN
           /\ ~dorefresh' =>
                /\ Calm'
                /\ Bots' = Bots
                /\ \A b \in Bots : bot'[b].team = IF b \in moved THEN to ELSE bot[b].team
  <1> DEFINE kept == UNION {runs[h] : h \in Valid}
  <1>1. PICK owner \in [kept -> Valid] :
          /\ Reassigned(owner)
          /\ runs' = [h \in Humans |-> IF h \in Valid THEN {b \in kept : owner[b] = h} ELSE runs[h]]
          /\ bot' = [b \in BotIds |->
               IF b \notin OwnedBots THEN NoBot
               ELSE LET o == IF b \in kept THEN owner[b] ELSE bot[b].owner IN
                    [owner  |-> o,
                     told   |-> IF bot[b].reinit THEN bot[b].owner ELSE bot[b].told,
                     reinit |-> o # bot[b].owner,
                     team   |-> IF b \in moved THEN to ELSE bot[b].team]]
          /\ Settle(Bots \ OwnedBots # {}, \E b \in kept : owner[b] # bot[b].owner)
    BY DEF CheckSetup
  <1> DEFINE o(b) == IF b \in kept THEN owner[b] ELSE bot[b].owner
             rec(b) == [owner  |-> o(b),
                        told   |-> IF bot[b].reinit THEN bot[b].owner ELSE bot[b].told,
                        reinit |-> o(b) # bot[b].owner,
                        team   |-> IF b \in moved THEN to ELSE bot[b].team]
  <1>2. /\ \A b \in OwnedBots : b \in BotIds /\ bot'[b] = rec(b)
        /\ \A b \in BotIds : b \notin OwnedBots => bot'[b] = NoBot
    BY <1>1, BotType DEF ListInv
  <1>3. OwnedBots' \subseteq OwnedBots
    BY <1>2 DEF OwnedBots, Bots
  <1>4. \A b \in OwnedBots : /\ bot'[b].owner = o(b)
                             /\ bot'[b].told = IF bot[b].reinit THEN bot[b].owner ELSE bot[b].told
                             /\ bot'[b].reinit <=> o(b) # bot[b].owner
                             /\ bot'[b].team = IF b \in moved THEN to ELSE bot[b].team
    <2>1. ASSUME NEW b \in OwnedBots
          PROVE  /\ rec(b).owner = o(b)
                 /\ rec(b).told = IF bot[b].reinit THEN bot[b].owner ELSE bot[b].told
                 /\ rec(b).reinit = (o(b) # bot[b].owner)
                 /\ rec(b).team = IF b \in moved THEN to ELSE bot[b].team
      OBVIOUS
    <2> HIDE DEF rec, o
    <2>2. QED
      BY <1>2, <2>1
  <1>5. Honest'
    <2>1. SUFFICES ASSUME NEW b \in OwnedBots, ~bot'[b].reinit PROVE bot'[b].told = bot'[b].owner
      BY <1>3 DEF Honest
    <2>2. o(b) = bot[b].owner
      BY <1>4, <2>1
    <2>3. bot'[b].told = bot[b].owner
      BY <1>4, <2>1 DEF Honest
    <2>4. QED
      BY <1>4, <2>2, <2>3
  <1>6. dorefresh' = (Bots \ OwnedBots # {} \/ \E b \in kept : owner[b] # bot[b].owner)
    BY <1>1 DEF Settle
  <1>7. \A h \in Humans : \A b \in runs[h] : b \in Bots /\ bot[b].owner = h
    BY DEF ListInv, Listed
  <1>8. ASSUME ~dorefresh'
        PROVE  /\ Calm' /\ Bots' = Bots
               /\ \A b \in Bots : bot'[b].team = IF b \in moved THEN to ELSE bot[b].team
    <2>1. Bots = OwnedBots /\ \A b \in kept : owner[b] = bot[b].owner
      BY <1>6, <1>8, BotType DEF ListInv
    <2>2. \A b \in OwnedBots : o(b) = bot[b].owner /\ bot[b].owner \in Humans /\ bot[b] \in Bot
      BY <2>1, BotType DEF ListInv
    <2>3. \A b \in OwnedBots : bot'[b] # NoBot
      <3>1. \A b \in OwnedBots : rec(b) \in Bot
        BY <2>2 DEF Bot
      <3> HIDE DEF rec
      <3>2. QED
        BY <1>2, <3>1, NoBotAssumption
    <2>4. Bots' = Bots
      BY <1>2, <2>1, <2>3, BotType DEF Bots, ListInv
    <2>5. Valid \subseteq Humans /\ runs \in [Humans -> SUBSET BotIds]
      BY ValidPresent DEF ListInv, AiTypeOK
    <2>6. \A h \in Valid : {b \in kept : owner[b] = h} = runs[h]
      <3>1. SUFFICES ASSUME NEW h \in Valid PROVE {b \in kept : owner[b] = h} = runs[h]
        OBVIOUS
      <3>2. \A b \in runs[h] : b \in kept /\ owner[b] = h
        BY <1>7, <2>1, <2>5
      <3>3. ASSUME NEW b \in kept, owner[b] = h PROVE b \in runs[h]
        <4>1. PICK k \in Valid : b \in runs[k]
          OBVIOUS
        <4>2. bot[b].owner = k /\ owner[b] = bot[b].owner
          BY <1>7, <2>1, <2>5, <4>1
        <4>3. QED
          BY <3>3, <4>1, <4>2
      <3>4. QED
        BY <3>2, <3>3
    <2>7. \A h \in Humans : runs'[h] = runs[h]
      BY <1>1, <2>6
    <2>8. \A h, k \in Valid : Load(h) <= Load(k) + 1
      <3> DEFINE mine(h) == {b \in DOMAIN owner : owner[b] = h}
      <3>1. \A h \in Valid : mine(h) = runs[h]
        BY <1>1, <2>6
      <3>2. Even([h \in Valid |-> Load(h)]) \/ Even([h \in Valid |-> Cardinality(mine(h))])
        BY <1>1 DEF Reassigned
      <3>3. \A h \in Valid : Cardinality(mine(h)) = Load(h)
        BY <3>1 DEF Load
      <3> HIDE DEF mine
      <3>4. QED
        BY <3>2, <3>3 DEF Even
    <2>9. \A h \in Humans : Computes(h) => h \in Valid
      BY DEF SpiesWatch, Valid, HumansHere, Computes
    <2>10. \A h \in Humans : Computes(h)' = Computes(h) /\ Load(h)' = Load(h)
      BY <2>7 DEF Computes, Load
    <2>11. \A b \in Bots' : bot'[b].owner # NoOwner /\ ~bot'[b].reinit
      <3>1. \A b \in OwnedBots : bot'[b].owner \in Humans /\ ~bot'[b].reinit
        <4> HIDE DEF o
        <4>1. QED
          BY <1>4, <2>2
      <3>2. QED
        BY <2>1, <2>4, <3>1, AiAssumption
    <2>12. Calm'
      BY <2>8, <2>9, <2>10, <2>11 DEF Calm
    <2>13. QED
      BY <1>4, <2>1, <2>4, <2>12
  <1>9. QED
    BY <1>5, <1>6, <1>8

LEMMA SettledPlayers ==
    ASSUME SettledInv, NEW h \in Humans, dorefresh' \in BOOLEAN,
           \/ \E state \in {"player", "spectator"}, t \in AiTeams : AiJoin(h, state, t)
           \/ AiLeave(h) \/ AiSpectate(h) \/ AiUnspectate(h)
           \/ \E t \in AiTeams : AiSwitchTeam(h, t)
           \/ \E p \in {"master", "admin"} : Raise(h, p)
           \/ AiRelinquish(h) \/ AiEnterSpy(h)
           \/ \E open \in BOOLEAN : AiLeaveSpy(h, open)
    PROVE  Honest' /\ SpiesWatch' /\ (dorefresh' \/ Calm')
  <1>1. ListInv /\ Honest /\ SpiesWatch /\ (dorefresh \/ Calm) /\ human \in [Humans -> Human]
        /\ human[h] \in Human
    BY DEF SettledInv, ListInv, AiTypeOK
  <1>2. ASSUME NEW q, human' = [human EXCEPT ![h] = q], q.spy => q.state # "player"
        PROVE  SpiesWatch'
    BY <1>1, <1>2 DEF SpiesWatch, Computes
  <1>3. ASSUME NEW q, human' = [human EXCEPT ![h] = q],
               q.spy => q.state # "player", BotsTouched,
               dorefresh' \/ (/\ UNCHANGED <<bot, runs, dorefresh>>
                              /\ q.state = "player" => human[h].state = "player")
        PROVE  Honest' /\ SpiesWatch' /\ (dorefresh' \/ Calm')
    <2>1. Honest' /\ SpiesWatch'
      BY <1>1, <1>2, <1>3, HonestKept
    <2>2. ASSUME ~dorefresh' PROVE Calm'
      <3>1. /\ UNCHANGED <<bot, runs, dorefresh>>
            /\ q.state = "player" => human[h].state = "player"
        BY <1>3, <2>2
      <3>2. Calm
        BY <1>1, <2>2, <3>1
      <3>3. \A k \in Humans : Computes(k)' => Computes(k)
        BY <1>1, <1>3, <3>1 DEF Computes
      <3>4. QED
        BY <3>1, <3>2, <3>3, CalmKept
    <2>3. QED
      BY <2>1, <2>2
  <1>4. UNCHANGED bot => BotsTouched
    BY DEF BotsTouched
  <1>5. human[h].spy => human[h].state # "player"
    BY <1>1 DEF SpiesWatch, Computes
  <1>6. ASSUME NEW state \in {"player", "spectator"}, NEW t \in AiTeams, AiJoin(h, state, t)
        PROVE  Honest' /\ SpiesWatch' /\ (dorefresh' \/ Calm')
    <2> DEFINE q == [Gone EXCEPT !.state = state, !.team = t]
    <2>1. human' = [human EXCEPT ![h] = q] /\ bot' = bot /\ dorefresh'
      BY <1>6 DEF AiJoin, Refresh
    <2>2. q.spy = FALSE
      BY DEF Gone
    <2> HIDE DEF q
    <2>3. QED
      BY <1>3, <1>4, <2>1, <2>2
  <1>7. CASE AiLeave(h)
    <2>1. human' = [human EXCEPT ![h] = Gone] /\ Gone.state = "gone"
      BY <1>7 DEF AiLeave, Gone
    <2>2. BotsTouched /\ (runs[h] = {} => bot' = bot /\ runs' = runs)
      BY <1>1, <1>7, RehomeSettles DEF AiLeave
    <2>3. ASSUME ~dorefresh' PROVE UNCHANGED <<bot, runs, dorefresh>>
      <3>1. ~dorefresh /\ Bots = {}
        BY <1>7, <2>3 DEF AiLeave
      <3>2. runs[h] = {}
        BY <1>1, <3>1 DEF ListInv, Listed
      <3>3. QED
        BY <1>1, <2>2, <2>3, <3>1, <3>2 DEF ListInv, AiTypeOK
    <2>4. QED
      BY <1>3, <2>1, <2>2, <2>3
  <1>8. CASE AiSpectate(h)
    <2> DEFINE q == [human[h] EXCEPT !.state = "spectator"]
    <2>1. human' = [human EXCEPT ![h] = q]
      BY <1>8 DEF AiSpectate
    <2>2. q.state = "spectator"
      BY <1>1 DEF Human
    <2>3. BotsTouched /\ (dorefresh' \/ UNCHANGED <<bot, runs, dorefresh>>)
      BY <1>1, <1>8, RemoveSettles DEF AiSpectate
    <2> HIDE DEF q
    <2>4. QED
      BY <1>3, <2>1, <2>2, <2>3
  <1>9. CASE AiUnspectate(h)
    <2> DEFINE q == [human[h] EXCEPT !.state = "player"]
    <2>1. human' = [human EXCEPT ![h] = q] /\ bot' = bot /\ dorefresh' /\ ~human[h].spy
      BY <1>9 DEF AiUnspectate, Refresh
    <2>2. q.spy = human[h].spy
      BY <1>1 DEF Human
    <2> HIDE DEF q
    <2>3. QED
      BY <1>3, <1>4, <2>1, <2>2
  <1>10. ASSUME NEW t \in AiTeams, AiSwitchTeam(h, t)
         PROVE  Honest' /\ SpiesWatch' /\ (dorefresh' \/ Calm')
    <2> DEFINE q == [human[h] EXCEPT !.team = t]
    <2>1. human' = [human EXCEPT ![h] = q] /\ bot' = bot /\ dorefresh'
      BY <1>10 DEF AiSwitchTeam, Refresh
    <2>2. q.spy = human[h].spy /\ q.state = human[h].state
      BY <1>1 DEF Human
    <2> HIDE DEF q
    <2>3. QED
      BY <1>3, <1>4, <1>5, <2>1, <2>2
  <1>11. ASSUME NEW p \in {"master", "admin"}, Raise(h, p)
         PROVE  Honest' /\ SpiesWatch' /\ (dorefresh' \/ Calm')
    <2> DEFINE q == [human[h] EXCEPT !.priv = p]
    <2>1. human' = [human EXCEPT ![h] = q] /\ UNCHANGED <<bot, runs, dorefresh>>
      BY <1>11 DEF Raise, NoRefresh
    <2>2. q.spy = human[h].spy /\ q.state = human[h].state
      BY <1>1 DEF Human
    <2> HIDE DEF q
    <2>3. QED
      BY <1>3, <1>4, <1>5, <2>1, <2>2
  <1>12. CASE AiRelinquish(h)
    <2> DEFINE q == [human[h] EXCEPT !.priv = "none"]
    <2>1. human' = [human EXCEPT ![h] = q]
      BY <1>12 DEF AiRelinquish
    <2>2. q.spy = human[h].spy /\ q.state = human[h].state
      BY <1>1 DEF Human
    <2>3. BotsTouched /\ (dorefresh' \/ UNCHANGED <<bot, runs, dorefresh>>)
      BY <1>1, <1>12, RemoveSettles DEF AiRelinquish
    <2> HIDE DEF q
    <2>4. QED
      BY <1>3, <1>5, <2>1, <2>2, <2>3
  <1>13. CASE AiEnterSpy(h)
    <2> DEFINE q == [human[h] EXCEPT !.state = "spectator", !.spy = TRUE, !.priv = "admin"]
    <2>1. human' = [human EXCEPT ![h] = q]
      BY <1>13 DEF AiEnterSpy
    <2>2. q.state = "spectator"
      BY <1>1 DEF Human
    <2>3. BotsTouched /\ (dorefresh' \/ UNCHANGED <<bot, runs, dorefresh>>)
      BY <1>1, <1>13, RemoveSettles DEF AiEnterSpy
    <2> HIDE DEF q
    <2>4. QED
      BY <1>3, <2>1, <2>2, <2>3
  <1>14. ASSUME NEW open \in BOOLEAN, AiLeaveSpy(h, open)
         PROVE  Honest' /\ SpiesWatch' /\ (dorefresh' \/ Calm')
    <2> DEFINE q == [human[h] EXCEPT !.spy = FALSE,
                                     !.state = IF open THEN "player" ELSE @]
    <2>1. human' = [human EXCEPT ![h] = q] /\ UNCHANGED <<bot, runs>>
      BY <1>1, <1>14 DEF AiLeaveSpy
    <2>2. q.spy = FALSE /\ (~open => q.state = human[h].state)
      BY <1>1 DEF Human
    <2>3. dorefresh' = (dorefresh \/ open)
      BY <1>14 DEF AiLeaveSpy
    <2>4. dorefresh' \/ (/\ UNCHANGED <<bot, runs, dorefresh>>
                         /\ q.state = "player" => human[h].state = "player")
      BY <1>1, <2>1, <2>2, <2>3 DEF ListInv, AiTypeOK
    <2> HIDE DEF q
    <2>5. QED
      BY <1>3, <1>4, <2>1, <2>2, <2>4
  <1>15. QED
    BY <1>6, <1>7, <1>8, <1>9, <1>10, <1>11, <1>12, <1>13, <1>14

LEMMA SettledOthers ==
    ASSUME SettledInv, dorefresh' \in BOOLEAN,
           \/ \E b \in BotIds, t \in AiTeams : SetBotTeam(b, t)
           \/ SetTeamRefused \/ AiUnsetMaster
           \/ ReqAdd \/ ExecuteAddBot \/ ReqDel
           \/ \E b \in BotIds : ExecuteDeleteBot(b)
           \/ \E limit \in Limits, balance, refresh \in BOOLEAN : SetBots(limit, balance, refresh)
           \/ \E m \in Modes : AiChangeMap(m)
           \/ \E on \in BOOLEAN : Stop(on)
           \/ CheckAi
    PROVE  Honest' /\ SpiesWatch' /\ (dorefresh' \/ Calm')
  <1>1. ListInv /\ Honest /\ SpiesWatch /\ (dorefresh \/ Calm) /\ human \in [Humans -> Human]
    BY DEF SettledInv, ListInv, AiTypeOK
  <1>2. UNCHANGED human => SpiesWatch'
    BY <1>1 DEF SpiesWatch, Computes
  <1>3. ASSUME UNCHANGED human, BotsTouched, dorefresh'
        PROVE  Honest' /\ SpiesWatch' /\ (dorefresh' \/ Calm')
    BY <1>1, <1>2, <1>3, HonestKept
  <1>4. ASSUME UNCHANGED <<human, bot, runs>>, dorefresh => dorefresh'
        PROVE  Honest' /\ SpiesWatch' /\ (dorefresh' \/ Calm')
    <2>1. BotsTouched /\ \A h \in Humans : Computes(h)' => Computes(h)
      BY <1>4 DEF BotsTouched, Computes
    <2>2. QED
      BY <1>1, <1>2, <1>4, <2>1, HonestKept, CalmKept
  <1>5. ASSUME NEW b \in BotIds, NEW t \in AiTeams, SetBotTeam(b, t)
        PROVE  Honest' /\ SpiesWatch' /\ (dorefresh' \/ Calm')
    <2> DEFINE new == [bot[b] EXCEPT !.team = t]
    <2>1. bot' = [bot EXCEPT ![b] = new] /\ b \in Bots /\ UNCHANGED <<human, runs, dorefresh>>
      BY <1>5 DEF SetBotTeam
    <2>2. bot \in [BotIds -> Bot \cup {NoBot}] /\ bot[b] \in Bot
      BY <1>1, <2>1, BotType DEF ListInv, AiTypeOK
    <2>3. new.owner = bot[b].owner /\ new.told = bot[b].told /\ new.reinit = bot[b].reinit
      BY <2>2 DEF Bot
    <2> HIDE DEF new
    <2>4. \A d \in BotIds : d # b => bot'[d] = bot[d]
      BY <2>1, <2>2
    <2>5. bot'[b] = new /\ b \in BotIds
      BY <2>1, <2>2
    <2>6. \A d \in Bots' : /\ d \in Bots /\ bot'[d].owner = bot[d].owner
                           /\ bot'[d].told = bot[d].told /\ bot'[d].reinit = bot[d].reinit
      BY <2>1, <2>3, <2>4, <2>5 DEF Bots
    <2>7. Honest'
      BY <1>1, <2>6 DEF Honest, OwnedBots
    <2>8. \A h \in Humans : Computes(h)' = Computes(h) /\ Load(h)' = Load(h)
      BY <2>1 DEF Computes, Load
    <2>9. Calm => Calm'
      BY <2>6, <2>8 DEF Calm
    <2>10. QED
      BY <1>1, <1>2, <2>1, <2>7, <2>9
  <1>6. CASE SetTeamRefused
    BY <1>4, <1>6 DEF SetTeamRefused, Refresh
  <1>7. CASE AiUnsetMaster
    <2>1. \A h \in Humans : human'[h].state = human[h].state /\ human'[h].spy = human[h].spy
      <3>1. \A h \in Humans : [human[h] EXCEPT !.priv = "none"].state = human[h].state
                              /\ [human[h] EXCEPT !.priv = "none"].spy = human[h].spy
        BY <1>1 DEF Human
      <3>2. QED
        BY <1>7, <3>1 DEF AiUnsetMaster
    <2>2. UNCHANGED <<bot, runs, dorefresh>>
      BY <1>7 DEF AiUnsetMaster, NoRefresh
    <2>3. SpiesWatch' /\ BotsTouched /\ \A h \in Humans : Computes(h)' => Computes(h)
      BY <1>1, <2>1, <2>2 DEF SpiesWatch, Computes, BotsTouched
    <2>4. QED
      BY <1>1, <2>2, <2>3, HonestKept, CalmKept
  <1>8. ASSUME NEW limit, AddAi(limit)
        PROVE  Honest' /\ SpiesWatch' /\ (dorefresh' \/ Calm')
    BY <1>1, <1>3, <1>8, AddSettles DEF AddAi, Refresh
  <1>9. CASE ReqAdd \/ ExecuteAddBot
    BY <1>8, <1>9 DEF ReqAdd, ExecuteAddBot
  <1>10. CASE ReqDel
    BY <1>3, <1>10, DeleteSettles DEF ReqDel, Refresh
  <1>11. ASSUME NEW b \in BotIds, ExecuteDeleteBot(b)
         PROVE  Honest' /\ SpiesWatch' /\ (dorefresh' \/ Calm')
    BY <1>3, <1>11, DeleteSettles DEF ExecuteDeleteBot, Refresh
  <1>12. ASSUME NEW limit \in Limits, NEW balance \in BOOLEAN, NEW refresh \in BOOLEAN,
                SetBots(limit, balance, refresh)
         PROVE  Honest' /\ SpiesWatch' /\ (dorefresh' \/ Calm')
    BY <1>4, <1>12 DEF SetBots
  <1>13. ASSUME NEW m \in Modes, AiChangeMap(m)
         PROVE  Honest' /\ SpiesWatch' /\ (dorefresh' \/ Calm')
    BY <1>3, <1>13, DeleteSettles DEF AiChangeMap, Refresh
  <1>14. ASSUME NEW on \in BOOLEAN, Stop(on)
         PROVE  Honest' /\ SpiesWatch' /\ (dorefresh' \/ Calm')
    BY <1>4, <1>14 DEF Stop
  <1>15. CASE CheckAi
    <2>1. UNCHANGED human
      BY <1>15 DEF CheckAi
    <2>2. ASSUME NEW moved, NEW to \in AiTeams \cup {""}, CheckSetup(moved, to)
          PROVE  Honest' /\ SpiesWatch' /\ (dorefresh' \/ Calm')
      BY <1>1, <1>2, <2>1, <2>2, SetupSettles
    <2>3. CASE DeleteAi(Bots) /\ dorefresh' = (Bots # {})
      <3>1. Honest' /\ SpiesWatch'
        BY <1>1, <1>2, <2>1, <2>3, DeleteSettles, HonestKept
      <3>2. ASSUME Bots = {} PROVE Calm'
        <4>1. Bots' = {}
          BY <2>3, <3>2 DEF DeleteAi, Bots
        <4>2. \A h \in Humans : runs'[h] = {}
          BY <1>1, <2>3, <3>2 DEF DeleteAi, ListInv, Listed
        <4>3. \A h \in Humans : Load(h)' = 0
          BY <4>2, FS_EmptySet DEF Load
        <4>4. QED
          BY <4>1, <4>3 DEF Calm
      <3>3. QED
        BY <2>3, <3>1, <3>2
    <2>4. \/ \E moved : \E to \in AiTeams \cup {""} : CheckSetup(moved, to)
          \/ DeleteAi(Bots) /\ dorefresh' = (Bots # {})
      BY <1>15 DEF CheckAi
    <2>5. QED
      BY <2>2, <2>3, <2>4
  <1>16. QED
    BY <1>5, <1>6, <1>7, <1>9, <1>10, <1>11, <1>12, <1>13, <1>14, <1>15

LEMMA SettledStep == SettledInv /\ [AiNext]_aivars => SettledInv'
  <1> SUFFICES ASSUME SettledInv, [AiNext]_aivars PROVE SettledInv'
    OBVIOUS
  <1>1. ListInv' /\ dorefresh' \in BOOLEAN
    BY ListStep DEF SettledInv, ListInv, AiTypeOK
  <1>2. CASE UNCHANGED aivars
    <2>1. UNCHANGED <<human, bot, runs, dorefresh>>
      BY <1>2 DEF aivars
    <2>2. BotsTouched /\ \A h \in Humans : Computes(h)' = Computes(h)
      BY <2>1 DEF BotsTouched, Computes
    <2>3. SpiesWatch'
      BY <2>1 DEF SettledInv, SpiesWatch, Computes
    <2>4. QED
      BY <1>1, <2>1, <2>2, <2>3, HonestKept, CalmKept DEF SettledInv
  <1>3. CASE AiNext
    <2>1. Honest' /\ SpiesWatch' /\ (dorefresh' \/ Calm')
      BY <1>1, <1>3, SettledPlayers, SettledOthers DEF AiNext
    <2>2. QED
      BY <1>1, <2>1 DEF SettledInv
  <1>4. QED
    BY <1>2, <1>3

LEMMA InitSettled == AiInit => SettledInv
  <1> SUFFICES ASSUME AiInit PROVE SettledInv
    OBVIOUS
  <1>1. ListInv
    BY AiInitInv DEF OwnerInv
  <1>2. Bots = {} /\ OwnedBots = {}
    BY DEF AiInit, Bots, OwnedBots
  <1>3. \A h \in Humans : ~Computes(h)
    BY DEF AiInit, Computes, Gone
  <1>4. QED
    BY <1>1, <1>2, <1>3 DEF SettledInv, Honest, SpiesWatch, Calm

\* When dorefresh is not set every bot has an owner, every client was told which,
\* and no player runs two bots more than another one, whatever joins, leaves,
\* watches, spies, adds, deletes, pauses and changes maps went before.
THEOREM RefreshesSettle == AiSpec => []Settled
  <1>1. SettledInv => Settled
    <2>1. SUFFICES ASSUME SettledInv, ~dorefresh PROVE Settled
      BY DEF Settled
    <2>2. Calm /\ Honest
      BY <2>1 DEF SettledInv
    <2>3. \A b \in Bots : bot[b].owner # NoOwner /\ bot[b].told = bot[b].owner
      BY <2>2 DEF Calm, Honest, OwnedBots
    <2>4. QED
      BY <2>2, <2>3 DEF Settled, Calm, Computes
  <1>2. QED
    BY <1>1, InitSettled, SettledStep, PTL DEF AiSpec

-----------------------------------------------------------------------------
(* Even teams                                                              *)

\* SizesAfter: the sizes of the two teams after "moved" bots changed sides.
LEMMA SizesAfter ==
    ASSUME ListInv, NEW from \in AiTeams, NEW to \in AiTeams, from # to,
           NEW moved \in SUBSET Bots, \A b \in moved : bot[b].team = from,
           UNCHANGED human, Bots' = Bots,
           \A b \in Bots : bot'[b].team = IF b \in moved THEN to ELSE bot[b].team
    PROVE  /\ Size(from) \in Nat /\ Size(to) \in Nat /\ Cardinality(moved) \in Nat
           /\ Size(from)' = Size(from) - Cardinality(moved)
           /\ Size(to)' = Size(to) + Cardinality(moved)
  <1> DEFINE H(t) == {h \in Humans : human[h].state = "player" /\ human[h].team = t}
             B(t) == {b \in Bots : bot[b].team = t}
             C(t) == {b \in Bots : bot'[b].team = t}
  <1>1. IsFiniteSet(Bots) /\ IsFiniteSet(Humans)
    BY BotType, BotIdsType, FS_Subset, AiAssumption DEF ListInv
  <1>2. \A t \in AiTeams : /\ IsFiniteSet(H(t)) /\ Cardinality(H(t)) \in Nat
                           /\ IsFiniteSet(B(t)) /\ Cardinality(B(t)) \in Nat
    <2>1. \A t \in AiTeams : H(t) \subseteq Humans /\ B(t) \subseteq Bots
      OBVIOUS
    <2> HIDE DEF H, B
    <2>2. QED
      BY <1>1, <2>1, FS_Subset, FS_CardinalityType
  <1>3. IsFiniteSet(moved) /\ Cardinality(moved) \in Nat
    BY <1>1, FS_Subset, FS_CardinalityType
  <1>4. moved \subseteq B(from) /\ moved \cap B(to) = {}
    OBVIOUS
  <1>5. C(from) = B(from) \ moved /\ C(to) = B(to) \cup moved
    OBVIOUS
  <1>6. /\ \A t \in AiTeams : Size(t) = Cardinality(H(t)) + Cardinality(B(t))
        /\ \A t \in AiTeams : Size(t)' = Cardinality(H(t)) + Cardinality(C(t))
    BY DEF Size
  <1> HIDE DEF H, B, C
  <1>7. Cardinality(C(from)) = Cardinality(B(from)) - Cardinality(moved)
    <2>1. B(from) \cap moved = moved
      BY <1>4
    <2>2. Cardinality(B(from) \ moved) = Cardinality(B(from)) - Cardinality(B(from) \cap moved)
      BY <1>2, FS_Difference
    <2>3. QED
      BY <1>5, <2>1, <2>2
  <1>8. Cardinality(C(to)) = Cardinality(B(to)) + Cardinality(moved)
    <2>1. Cardinality(B(to) \cap moved) = 0
      BY <1>4, FS_EmptySet
    <2>2. Cardinality(B(to) \cup moved)
            = Cardinality(B(to)) + Cardinality(moved) - Cardinality(B(to) \cap moved)
      BY <1>2, <1>3, FS_Union
    <2>3. QED
      BY <1>2, <1>3, <1>5, <2>1, <2>2
  <1>9. QED
    BY <1>2, <1>3, <1>6, <1>7, <1>8

\* The round of checkai that asks for no other one leaves teams that differ by one
\* player at most, unless the larger one has no bot that balanceteams could move.
THEOREM TeamsAreEvened == AiSpec => TeamsEvened
  <1>1. ASSUME SettledInv, CheckAi, ~dorefresh', mode = "team", botbalance, Bots' # {},
               NEW t \in AiTeams, NEW u \in AiTeams, Size(t)' > Size(u)' + 1,
               NEW b \in Bots', bot'[b].team = t
        PROVE  FALSE
    <2>1. ListInv /\ Honest /\ SpiesWatch /\ UNCHANGED human
      BY <1>1 DEF SettledInv, CheckAi
    <2>2. ~DeleteAi(Bots)
      BY <1>1 DEF DeleteAi, Bots
    <2>3. PICK from \in AiTeams, to \in AiTeams, moved \in SUBSET Bots :
             from # to /\ Evens(moved, from, to) /\ CheckSetup(moved, to)
      BY <1>1, <2>2 DEF CheckAi
    <2>4. /\ Bots' = Bots
          /\ \A d \in Bots : bot'[d].team = IF d \in moved THEN to ELSE bot[d].team
      BY <1>1, <2>1, <2>3, SetupSettles
    <2> DEFINE k == Cardinality(moved)
    <2>5. /\ Size(from) >= Size(to) /\ \A d \in moved : bot[d].team = from
          /\ k > 0 => Size(from) - (k - 1) > Size(to) + (k - 1) + 1
          /\ \/ Size(from) - k <= Size(to) + k + 1
             \/ \A d \in Bots : bot[d].team = from => d \in moved
      BY <2>3 DEF Evens
    <2>6. /\ Size(from) \in Nat /\ Size(to) \in Nat /\ k \in Nat
          /\ Size(from)' = Size(from) - k /\ Size(to)' = Size(to) + k
      BY <2>1, <2>3, <2>4, <2>5, SizesAfter
    <2>7. (t = from \/ t = to) /\ (u = from \/ u = to)
      BY <2>3, AiAssumption
    <2> HIDE DEF k
    <2>8. CASE t = u
      BY <1>1, <2>6, <2>7, <2>8
    <2>9. CASE t = from /\ u = to
      <3>1. ~(Size(from) - k <= Size(to) + k + 1)
        BY <1>1, <2>6, <2>9
      <3>2. \A d \in Bots : bot'[d].team # from
        BY <2>3, <2>4, <2>5, <3>1
      <3>3. QED
        BY <1>1, <2>4, <2>9, <3>2
    <2>10. CASE t = to /\ u = from
      <3>1. Size(to) + k > Size(from) - k + 1
        BY <1>1, <2>6, <2>10
      <3>2. CASE k = 0
        BY <2>5, <2>6, <3>1, <3>2
      <3>3. CASE k > 0
        BY <2>5, <2>6, <3>1, <3>3
      <3>4. QED
        BY <2>6, <3>2, <3>3
    <2>11. QED
      BY <2>7, <2>8, <2>9, <2>10
  <1>2. SettledInv /\ [AiNext]_aivars =>
          [CheckAi /\ ~dorefresh' /\ mode = "team" /\ botbalance /\ Bots' # {} =>
             \A t, u \in AiTeams : Size(t)' > Size(u)' + 1 => \A b \in Bots' : bot'[b].team # t]_aivars
    BY <1>1
  <1>3. QED
    BY <1>2, InitSettled, SettledStep, PTL DEF AiSpec, TeamsEvened
=============================================================================
