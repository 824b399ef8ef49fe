----------------------------- MODULE CtfProofs -----------------------------
(***************************************************************************)
(* Proofs about Ctf for every set of clients and flags and every mode.     *)
(*                                                                         *)
(* The invariants are not inductive one by one: that a carrier is in the   *)
(* right team survives a dead player's change of team only because nobody  *)
(* carries a flag while dead.  Inv is their conjunction; with player_slay  *)
(* it says of a carrier only that he is there (Plays).                     *)
(***************************************************************************)
EXTENDS Ctf, FiniteSetTheorems, TLAPS

-----------------------------------------------------------------------------
(* What the operations do to one flag                                      *)

LEMMA StreakType ==
    ASSUME NEW f \in Flag
    PROVE  NextStreak(f) \in Streak
  BY DEF NextStreak, Flag, Streak, Timer

LEMMA OwnedFlag ==
    ASSUME NEW f \in Flag, NEW c \in CtfClients
    PROVE  /\ Owned(f, c) \in Flag
           /\ Owned(f, c).owner = c /\ Owned(f, c).dropper = NoClient
           /\ Owned(f, c).drop = f.drop
           /\ Owned(f, c).version = f.version + 1
  BY StreakType DEF Owned, Flag, Timer

LEMMA DroppedFlag ==
    ASSUME NEW f \in Flag, NEW d \in CtfClients, NEW penalty \in BOOLEAN
    PROVE  /\ Dropped(f, d, penalty) \in Flag
           /\ Dropped(f, d, penalty).owner = NoClient /\ Dropped(f, d, penalty).dropper = d
           /\ Dropped(f, d, penalty).drop = "on"
           /\ Dropped(f, d, penalty).version = f.version + 1
  BY DEF Dropped, Flag, Timer, Streak, Penalty

LEMMA ReturnedFlag ==
    ASSUME NEW f \in Flag, NEW invis \in Timer
    PROVE  /\ Returned(f, invis) \in Flag
           /\ Returned(f, invis).owner = NoClient /\ Returned(f, invis).dropper = NoClient
           /\ Returned(f, invis).drop = "off"
           /\ Returned(f, invis).version = f.version + 1
  BY DEF Returned, Flag, Timer, Streak

LEMMA ForgottenFlag ==
    ASSUME NEW f \in Flag, NEW c
    PROVE  /\ Forgotten(f, c) \in Flag
           /\ Forgotten(f, c).owner = f.owner /\ Forgotten(f, c).drop = f.drop
           /\ Forgotten(f, c).version = f.version
           /\ Forgotten(f, c).dropper = IF f.dropper = c THEN NoClient ELSE f.dropper
  BY DEF Forgotten, Flag

LEMMA TouchedFlag ==
    ASSUME NEW f \in Flag
    PROVE  /\ Touched(f) \in Flag
           /\ Touched(f).owner = f.owner /\ Touched(f).drop = f.drop
           /\ Touched(f).version = f.version /\ Touched(f).dropper = f.dropper
  BY DEF Touched, Flag, Streak, Timer

LEMMA TimedFlag ==
    ASSUME NEW f \in Flag
    PROVE  /\ Timed(f) \in Flag
           /\ Timed(f).owner = f.owner /\ Timed(f).drop = f.drop
           /\ Timed(f).version = f.version /\ Timed(f).dropper = f.dropper
  BY DEF Timed, Flag

LEMMA PassedFlag ==
    ASSUME NEW f \in Flag
    PROVE  /\ Passed(f) \in Flag
           /\ Passed(f).owner = f.owner /\ Passed(f).drop = f.drop
           /\ Passed(f).version = f.version /\ Passed(f).dropper = f.dropper
  BY DEF Passed, Flag

LEMMA BumpedFlag ==
    ASSUME NEW f \in Flag
    PROVE  /\ Bumped(f) \in Flag
           /\ Bumped(f).owner = f.owner /\ Bumped(f).drop = f.drop
           /\ Bumped(f).version = f.version + 1 /\ Bumped(f).dropper = f.dropper
  BY DEF Bumped, Flag

-----------------------------------------------------------------------------
(* The invariant                                                           *)

\* Who carries a flag is on the server and, unless somebody uses player_slay, is
\* alive and of a team that may have the flag.
Plays(c, i) == c \in CtfPresent /\ (~Slaying => Alive(c) /\ TakesFlag(c, i))

\* What a single flag needs: a carrier who plays, and a dropper who is on the
\* server and the flag on the ground.
Sound(f, i) ==
    /\ f.owner # NoClient => Plays(f.owner, i)
    /\ f.dropper # NoClient => f.dropper \in CtfPresent /\ f.owner = NoClient /\ f.drop # "off"

Inv == CtfTypeOK /\ \A i \in Flags : Sound(flag[i], i)

\* What dropflag and the end of leavegame and died do to each flag.
LEMMA FallenFlag ==
    ASSUME CtfTypeOK, NEW c \in CtfClients, NEW d \in CtfClients, NEW inbase \in BOOLEAN, NEW i \in Flags
    PROVE  LET g == DropAll(c, d, inbase)[i] IN
           /\ g \in Flag
           /\ g.owner = IF flag[i].owner = c THEN NoClient ELSE flag[i].owner
           /\ flag[i].owner # c => g = flag[i]
           /\ flag[i].owner = c => /\ g.version = flag[i].version + 1
                                   /\ g.dropper = NoClient \/ (g.dropper = d /\ g.drop # "off")
  <1>1. flag[i] \in Flag /\ "off" \in Timer /\ (d # c) \in BOOLEAN /\ NoClient # c
    BY CtfAssumption DEF CtfTypeOK, Timer
  <1>2. CASE flag[i].owner # c
    BY <1>1, <1>2 DEF DropAll
  <1>3. CASE flag[i].owner = c
    <2>1. \/ DropAll(c, d, inbase)[i] = Returned(flag[i], "off")
          \/ DropAll(c, d, inbase)[i] = Dropped(flag[i], d, d # c)
      <3>1. CASE Mode = "protect" /\ inbase
        BY <1>3, <3>1, Zenon DEF DropAll
      <3>2. CASE ~(Mode = "protect" /\ inbase)
        BY <1>3, <3>2, Zenon DEF DropAll
      <3>3. QED
        BY <3>1, <3>2
    <2> DEFINE h == Dropped(flag[i], d, d # c)
    <2>2. h \in Flag /\ h.owner = NoClient /\ h.dropper = d /\ h.drop = "on"
             /\ h.version = flag[i].version + 1
      BY <1>1, DroppedFlag, Zenon
    <2> HIDE DEF h
    <2>3. QED
      BY <1>1, <1>3, <2>1, <2>2, ReturnedFlag DEF h
  <1>4. QED
    BY <1>2, <1>3

LEMMA TrackType ==
    ASSUME CtfTypeOK, NEW S, Track(S)
    PROVE  sent' \in [CtfClients -> Take \cup {NoTake}]
  <1>1. ASSUME NEW c \in CtfClients, sent[c] # NoTake
        PROVE  [flag |-> sent[c].flag, version |-> sent[c].version,
                stale |-> sent[c].stale \/ Moved(sent[c].flag)] \in Take
    <2>1. sent[c] \in Take
      BY <1>1 DEF CtfTypeOK
    <2>2. QED
      BY <2>1 DEF Take
  <1>2. QED
    BY <1>1 DEF Track

LEMMA ScoreType ==
    ASSUME CtfTypeOK, NEW c \in CtfClients, NEW i \in Flags, ScoreFlag(c, i)
    PROVE  /\ flagscores' \in [CtfTeams -> Int] /\ gameover' \in BOOLEAN
           /\ report' \in [timed : BOOLEAN, used_rugby : BOOLEAN]
           /\ gotflags' \in BOOLEAN /\ fighter' = fighter
  <1>1. fighter[c].team \in CtfTeams /\ flag[i] \in Flag
    BY DEF CtfTypeOK, Fighter
  <1>2. flag[i].timed \in BOOLEAN /\ Returned(flag[i], "off").used_rugby = FALSE
    BY <1>1 DEF Flag, Returned
  <1>3. report' \in [timed : BOOLEAN, used_rugby : BOOLEAN]
    BY <1>2 DEF ScoreFlag
  <1>4. QED
    BY <1>1, <1>3 DEF ScoreFlag, CtfTypeOK

-----------------------------------------------------------------------------
(* One lemma per group of actions                                          *)

\* Only the player c changes, and it is not the one who lives with a flag.
LEMMA PlayerSteps ==
    ASSUME Inv, NEW c \in CtfClients, UNCHANGED <<flag, game>>,
           sent' \in [CtfClients -> Take \cup {NoTake}],
           NEW p \in Fighter, fighter' = [fighter EXCEPT ![c] = p],
           Slaying \/ ~Alive(c), fighter[c].state # "gone" => p.state # "gone"
    PROVE  Inv'
  <1>1. CtfTypeOK'
    BY DEF Inv, CtfTypeOK, game
  <1>2. ASSUME NEW i \in Flags
        PROVE  Sound(flag[i], i)'
    <2>1. Sound(flag[i], i) /\ flag[i] \in Flag /\ flag' = flag
      BY DEF Inv, CtfTypeOK
    <2>2. ASSUME flag[i].owner # NoClient
          PROVE  Plays(flag[i].owner, i)'
      <3>1. flag[i].owner \in CtfClients /\ Plays(flag[i].owner, i)
        BY <2>1, <2>2 DEF Sound, Flag
      <3>2. CASE flag[i].owner # c
        <4>1. fighter'[flag[i].owner] = fighter[flag[i].owner]
          BY <3>1, <3>2 DEF Inv, CtfTypeOK
        <4>2. QED
          BY <2>1, <3>1, <4>1 DEF Plays, CtfPresent, Alive, TakesFlag
      <3>3. CASE flag[i].owner = c
        <4>1. Slaying /\ c \in CtfPresent
          BY <3>1, <3>3 DEF Plays
        <4>2. fighter'[c].state # "gone"
          BY <4>1 DEF CtfPresent, Inv, CtfTypeOK
        <4>3. QED
          BY <2>1, <3>1, <3>3, <4>1, <4>2 DEF Plays, CtfPresent
      <3>4. QED
        BY <3>2, <3>3
    <2>3. ASSUME flag[i].dropper # NoClient
          PROVE  flag[i].dropper \in CtfPresent'
      BY <2>1, <2>3 DEF Sound, CtfPresent, Inv, CtfTypeOK
    <2>4. QED
      BY <2>1, <2>2, <2>3 DEF Sound
  <1>3. QED
    BY <1>1, <1>2 DEF Inv

\* The flags of c fall; d, who is on the server, counts as their dropper.
LEMMA FallSteps ==
    ASSUME Inv, NEW c \in CtfClients, NEW d \in CtfClients, NEW inbase \in BOOLEAN,
           flag' = [i \in Flags |-> Forgotten(DropAll(c, d, inbase)[i], c)],
           NEW p \in Fighter, fighter' = [fighter EXCEPT ![c] = p],
           d # c => d \in CtfPresent,
           UNCHANGED game, NEW S, Track(S)
    PROVE  Inv'
  <1>1. ASSUME NEW i \in Flags
        PROVE  /\ flag'[i] \in Flag
               /\ flag'[i].owner # c
               /\ flag'[i].owner = NoClient \/ (flag'[i].owner = flag[i].owner /\ flag[i].owner # c)
               /\ flag'[i].dropper # NoClient =>
                    /\ flag'[i].dropper # c /\ flag'[i].dropper \in CtfPresent
                    /\ flag'[i].owner = NoClient /\ flag'[i].drop # "off"
    <2> DEFINE g == DropAll(c, d, inbase)[i]
    <2>1. /\ g \in Flag
          /\ g.owner = IF flag[i].owner = c THEN NoClient ELSE flag[i].owner
          /\ flag[i].owner # c => g = flag[i]
          /\ flag[i].owner = c => g.dropper = NoClient \/ (g.dropper = d /\ g.drop # "off")
      BY FallenFlag DEF Inv
    <2>2. Sound(flag[i], i)
      BY DEF Inv
    <2>3. flag'[i] = Forgotten(g, c)
      OBVIOUS
    <2> HIDE DEF g
    <2>4. /\ flag'[i] \in Flag /\ flag'[i].owner = g.owner /\ flag'[i].drop = g.drop
          /\ flag'[i].dropper = IF g.dropper = c THEN NoClient ELSE g.dropper
      BY <2>1, <2>3, ForgottenFlag
    <2>5. NoClient # c
      BY CtfAssumption
    <2>6. QED
      BY <2>1, <2>2, <2>4, <2>5 DEF Sound
  <1>2. CtfTypeOK'
    <2>1. flag' \in [Flags -> Flag]
      BY <1>1
    <2>2. sent' \in [CtfClients -> Take \cup {NoTake}]
      BY TrackType DEF Inv
    <2>3. QED
      BY <2>1, <2>2 DEF Inv, CtfTypeOK, game
  <1>3. ASSUME NEW i \in Flags
        PROVE  Sound(flag[i], i)'
    <2>1. Sound(flag[i], i) /\ flag[i] \in Flag
      BY DEF Inv, CtfTypeOK
    <2>2. ASSUME flag'[i].owner # NoClient
          PROVE  Plays(flag[i].owner, i)'
      <3>1. flag'[i].owner = flag[i].owner /\ flag[i].owner # c /\ flag[i].owner \in CtfClients
        BY <1>1, <2>1, <2>2 DEF Flag
      <3>2. fighter'[flag[i].owner] = fighter[flag[i].owner]
        BY <3>1 DEF Inv, CtfTypeOK
      <3>3. QED
        BY <2>1, <2>2, <3>1, <3>2 DEF Sound, Plays, CtfPresent, Alive, TakesFlag
    <2>3. ASSUME flag'[i].dropper # NoClient
          PROVE  flag'[i].dropper \in CtfPresent'
      BY <1>1, <2>3 DEF CtfPresent, Inv, CtfTypeOK
    <2>4. QED
      BY <1>1, <2>2, <2>3 DEF Sound
  <1>4. QED
    BY <1>2, <1>3 DEF Inv

\* The players stay as they are.
LEMMA FlagSteps ==
    ASSUME Inv, UNCHANGED fighter, CtfTypeOK',
           \A i \in Flags : Sound(flag'[i], i)
    PROVE  Inv'
  BY DEF Inv, Sound, Plays, Alive, CtfPresent, TakesFlag

\* The flags of c fall and c stays on the server, maybe in another team.
LEMMA DropSteps ==
    ASSUME Inv, NEW c \in CtfPresent, NEW inbase \in BOOLEAN,
           flag' = DropAll(c, c, inbase),
           NEW p \in Fighter, fighter' = [fighter EXCEPT ![c] = p], p.state # "gone",
           UNCHANGED game, NEW S, Track(S)
    PROVE  Inv'
  <1>1. ASSUME NEW i \in Flags
        PROVE  /\ flag'[i] \in Flag
               /\ flag'[i].owner = NoClient \/ (flag'[i].owner = flag[i].owner /\ flag[i].owner # c)
               /\ flag'[i].dropper # NoClient =>
                    /\ flag'[i].dropper \in CtfPresent
                    /\ flag'[i].owner = NoClient /\ flag'[i].drop # "off"
    <2> DEFINE g == DropAll(c, c, inbase)[i]
    <2>1. /\ g \in Flag
          /\ g.owner = IF flag[i].owner = c THEN NoClient ELSE flag[i].owner
          /\ flag[i].owner # c => g = flag[i]
          /\ flag[i].owner = c => g.dropper = NoClient \/ (g.dropper = c /\ g.drop # "off")
      BY FallenFlag DEF Inv, CtfPresent
    <2>2. Sound(flag[i], i)
      BY DEF Inv
    <2>3. flag'[i] = g
      OBVIOUS
    <2> HIDE DEF g
    <2>4. QED
      BY <2>1, <2>2, <2>3 DEF Sound
  <1>2. CtfTypeOK'
    <2>1. flag' \in [Flags -> Flag]
      BY <1>1 DEF DropAll
    <2>2. sent' \in [CtfClients -> Take \cup {NoTake}]
      BY TrackType DEF Inv
    <2>3. QED
      BY <2>1, <2>2 DEF Inv, CtfTypeOK, game, CtfPresent
  <1>3. ASSUME NEW i \in Flags
        PROVE  Sound(flag[i], i)'
    <2>1. Sound(flag[i], i) /\ flag[i] \in Flag
      BY DEF Inv, CtfTypeOK
    <2>2. ASSUME flag'[i].owner # NoClient
          PROVE  Plays(flag[i].owner, i)'
      <3>1. flag'[i].owner = flag[i].owner /\ flag[i].owner # c /\ flag[i].owner \in CtfClients
        BY <1>1, <2>1, <2>2 DEF Flag
      <3>2. fighter'[flag[i].owner] = fighter[flag[i].owner]
        BY <3>1 DEF Inv, CtfTypeOK
      <3>3. QED
        BY <2>1, <2>2, <3>1, <3>2 DEF Sound, Plays, CtfPresent, Alive, TakesFlag
    <2>3. ASSUME flag'[i].dropper # NoClient
          PROVE  flag'[i].dropper \in CtfPresent'
      BY <1>1, <2>3 DEF CtfPresent, Inv, CtfTypeOK
    <2>4. QED
      BY <1>1, <2>2, <2>3 DEF Sound
  <1>4. QED
    BY <1>2, <1>3 DEF Inv

\* Every flag is new.
LEMMA NewFlagSound ==
    NewFlag \in Flag /\ NewFlag.owner = NoClient /\ NewFlag.dropper = NoClient
  BY DEF NewFlag, Flag, Timer, Streak

LEMMA CtfInitInv == CtfInit => Inv
  <1> SUFFICES ASSUME CtfInit PROVE Inv
    OBVIOUS
  <1>1. ASSUME NEW i \in Flags
        PROVE  flag[i] = NewFlag
    BY DEF CtfInit
  <1>2. flag \in [Flags -> Flag]
    BY NewFlagSound DEF CtfInit
  <1>3. fighter \in [CtfClients -> Fighter]
    BY DEF CtfInit, Fighter, CtfTeams
  <1>4. CtfTypeOK
    <2>1. flagscores \in [CtfTeams -> Int] /\ sent \in [CtfClients -> Take \cup {NoTake}]
      BY DEF CtfInit
    <2>2. report \in [timed : BOOLEAN, used_rugby : BOOLEAN]
      BY DEF CtfInit
    <2>3. gotflags \in BOOLEAN /\ gameover \in BOOLEAN
      BY DEF CtfInit
    <2>4. QED
      BY <1>2, <1>3, <2>1, <2>2, <2>3, Zenon DEF CtfTypeOK
  <1>5. \A i \in Flags : Sound(flag[i], i)
    BY <1>1, NewFlagSound DEF Sound
  <1>6. QED
    BY <1>4, <1>5 DEF Inv

\* A step of takeflag: flag i is replaced by g, the players stay.
LEMMA OneFlagSteps ==
    ASSUME Inv, UNCHANGED fighter, NEW i \in Flags, NEW g \in Flag, Sound(g, i),
           flag' = [flag EXCEPT ![i] = g],
           gotflags' \in BOOLEAN, gameover' \in BOOLEAN, flagscores' \in [CtfTeams -> Int],
           report' \in [timed : BOOLEAN, used_rugby : BOOLEAN],
           sent' \in [CtfClients -> Take \cup {NoTake}]
    PROVE  Inv'
  <1>1. CtfTypeOK'
    BY DEF Inv, CtfTypeOK
  <1>2. \A j \in Flags : Sound(flag'[j], j)
    BY DEF Inv, CtfTypeOK
  <1>3. QED
    BY <1>1, <1>2, FlagSteps

LEMMA GameType ==
    ASSUME Inv, UNCHANGED game
    PROVE  /\ gotflags' \in BOOLEAN /\ gameover' \in BOOLEAN /\ flagscores' \in [CtfTeams -> Int]
           /\ report' \in [timed : BOOLEAN, used_rugby : BOOLEAN]
  BY DEF Inv, CtfTypeOK, game

LEMMA TakeRefusedStep ==
    ASSUME Inv, NEW c \in CtfClients, sent[c] # NoTake, Track({c}),
           NEW i \in Flags, NEW version, TakeRefused(c, i, version)
    PROVE  Inv'
  <1>1. flag[i] \in Flag /\ Sound(flag[i], i)
    BY DEF Inv, CtfTypeOK
  <1>2. Touched(flag[i]) \in Flag /\ Sound(Touched(flag[i]), i)
    BY <1>1, TouchedFlag DEF Sound
  <1>3. UNCHANGED <<fighter, game>> /\ flag' = [flag EXCEPT ![i] = Touched(flag[i])]
    BY DEF TakeRefused, NoScore
  <1>4. sent' \in [CtfClients -> Take \cup {NoTake}]
    BY TrackType DEF Inv
  <1>5. QED
    BY <1>2, <1>3, <1>4, GameType, OneFlagSteps

LEMMA TakeTheFlagStep ==
    ASSUME Inv, NEW c \in CtfClients, Track({c}), Alive(c),
           NEW i \in Flags, flag[i].owner = NoClient, TakeTheFlag(c, i)
    PROVE  Inv'
  <1> DEFINE g == IF HandsFull(c) THEN Touched(flag[i]) ELSE Timed(Owned(flag[i], c))
  <1>1. flag[i] \in Flag /\ Sound(flag[i], i)
    BY DEF Inv, CtfTypeOK
  <1>2. Touched(flag[i]) \in Flag /\ Sound(Touched(flag[i]), i)
    BY <1>1, TouchedFlag DEF Sound
  <1>3. Timed(Owned(flag[i], c)) \in Flag /\ Sound(Timed(Owned(flag[i], c)), i)
    <2> DEFINE h == Owned(flag[i], c)
    <2>1. h \in Flag /\ h.owner = c /\ h.dropper = NoClient
      BY <1>1, OwnedFlag
    <2> HIDE DEF h
    <2>2. /\ Timed(h) \in Flag /\ Timed(h).owner = c /\ Timed(h).dropper = NoClient
      BY <2>1, TimedFlag
    <2>3. Sound(Timed(h), i)
      BY <2>2 DEF Sound, Plays, CtfPresent, Alive, TakeTheFlag
    <2>4. QED
      BY <2>2, <2>3 DEF h
  <1>4. g \in Flag /\ Sound(g, i)
    BY <1>2, <1>3, Zenon
  <1>5. UNCHANGED <<fighter, game>> /\ flag' = [flag EXCEPT ![i] = g]
    BY Zenon DEF TakeTheFlag, NoScore
  <1> HIDE DEF g
  <1>6. sent' \in [CtfClients -> Take \cup {NoTake}]
    BY TrackType DEF Inv
  <1>7. QED
    BY <1>4, <1>5, <1>6, GameType, OneFlagSteps

\* Flag i goes home, with or without a point for somebody.
LEMMA HomeStep ==
    ASSUME Inv, NEW S, Track(S), NEW i \in Flags, NEW invis \in Timer,
           flag' = [flag EXCEPT ![i] = Returned(flag[i], invis)],
           NEW c \in CtfClients, NEW j \in Flags, ScoreFlag(c, j) \/ NoScore
    PROVE  Inv'
  <1>1. flag[i] \in Flag
    BY DEF Inv, CtfTypeOK
  <1>2. Returned(flag[i], invis) \in Flag /\ Sound(Returned(flag[i], invis), i)
    BY <1>1, ReturnedFlag DEF Sound
  <1>3. /\ gotflags' \in BOOLEAN /\ gameover' \in BOOLEAN /\ flagscores' \in [CtfTeams -> Int]
        /\ report' \in [timed : BOOLEAN, used_rugby : BOOLEAN] /\ fighter' = fighter
    <2>1. CASE ScoreFlag(c, j)
      BY <2>1, ScoreType DEF Inv
    <2>2. CASE NoScore
      BY <2>2, GameType DEF NoScore
    <2>3. QED
      BY <2>1, <2>2
  <1>4. sent' \in [CtfClients -> Take \cup {NoTake}]
    BY TrackType DEF Inv
  <1>5. QED
    BY <1>2, <1>3, <1>4, OneFlagSteps

LEMMA TouchTheirsStep ==
    ASSUME Inv, NEW c \in CtfClients, Track({c}), NEW i \in Flags, TouchTheirs(c, i)
    PROVE  Inv'
  <1>1. InvisAtHome \in Timer
    BY DEF InvisAtHome, Timer
  <1>2. CASE flag[i].invis = "off"
    BY <1>1, <1>2, HomeStep DEF TouchTheirs
  <1>3. CASE flag[i].invis # "off"
    <2>1. UNCHANGED <<flag, fighter, game>>
      BY <1>3 DEF TouchTheirs, NoScore
    <2>2. sent' \in [CtfClients -> Take \cup {NoTake}]
      BY TrackType DEF Inv
    <2>3. CtfTypeOK'
      BY <2>1, <2>2 DEF Inv, CtfTypeOK, game
    <2>4. \A j \in Flags : Sound(flag'[j], j)
      BY <2>1 DEF Inv
    <2>5. QED
      BY <2>1, <2>3, <2>4, FlagSteps
  <1>4. QED
    BY <1>2, <1>3

\* Flag i is the goal and flag j goes home.
LEMMA GoalStep ==
    ASSUME Inv, NEW c \in CtfClients, Track({c}), NEW i \in Flags, NEW j \in Flags,
           flag' = [flag EXCEPT ![j] = Returned(flag[j], "off"), ![i] = Bumped(flag[i])],
           flag[i].owner = NoClient, flag[j].owner = c, ScoreFlag(c, j)
    PROVE  Inv'
  <1>1. flag[i] \in Flag /\ flag[j] \in Flag /\ "off" \in Timer /\ i # j
    BY CtfAssumption DEF Inv, CtfTypeOK, Timer
  <1> DEFINE g == Returned(flag[j], "off")
             h == Bumped(flag[i])
  <1>2. g \in Flag /\ Sound(g, j)
    BY <1>1, ReturnedFlag DEF Sound
  <1>3. h \in Flag /\ Sound(h, i)
    <2>1. Sound(flag[i], i)
      BY DEF Inv
    <2>2. QED
      BY <1>1, <2>1, BumpedFlag DEF Sound
  <1>4. flag' = [flag EXCEPT ![j] = g, ![i] = h]
    OBVIOUS
  <1> HIDE DEF g, h
  <1>5. \A k \in Flags : flag'[k] \in Flag /\ Sound(flag'[k], k)
    BY <1>1, <1>2, <1>3, <1>4 DEF Inv, CtfTypeOK
  <1>6. CtfTypeOK'
    <2>1. flag' \in [Flags -> Flag]
      BY <1>4, <1>5 DEF Inv, CtfTypeOK
    <2>2. sent' \in [CtfClients -> Take \cup {NoTake}]
      BY TrackType DEF Inv
    <2>3. QED
      BY <2>1, <2>2, ScoreType DEF Inv, CtfTypeOK
  <1>7. QED
    BY <1>5, <1>6, ScoreType, FlagSteps DEF Inv

LEMMA TouchOwnStep ==
    ASSUME Inv, NEW c \in CtfClients, Track({c}), NEW i \in Flags,
           flag[i].owner = NoClient, TouchOwn(c, i)
    PROVE  Inv'
  <1>1. "off" \in Timer
    BY DEF Timer
  <1>2. CASE flag' = [flag EXCEPT ![i] = Returned(flag[i], "off")] /\ NoScore
    BY <1>1, <1>2, HomeStep
  <1>3. CASE UNCHANGED flag /\ NoScore
    <2>1. sent' \in [CtfClients -> Take \cup {NoTake}]
      BY TrackType DEF Inv
    <2>2. CtfTypeOK'
      BY <1>3, <2>1 DEF Inv, CtfTypeOK, game, NoScore
    <2>3. \A j \in Flags : Sound(flag'[j], j)
      BY <1>3 DEF Inv
    <2>4. QED
      BY <1>3, <2>2, <2>3, FlagSteps DEF NoScore
  <1>4. CASE \E j \in Carried(c) :
                /\ \A k \in Carried(c) : j <= k
                /\ flag' = [flag EXCEPT ![j] = Returned(flag[j], "off"), ![i] = Bumped(flag[i])]
                /\ ScoreFlag(c, j)
    <2>1. PICK j \in Carried(c) :
                /\ flag' = [flag EXCEPT ![j] = Returned(flag[j], "off"), ![i] = Bumped(flag[i])]
                /\ ScoreFlag(c, j)
      BY <1>4, Zenon
    <2>2. j \in Flags /\ flag[j].owner = c
      BY DEF Carried
    <2>3. QED
      BY <2>1, <2>2, GoalStep
  <1>5. QED
    BY <1>2, <1>3, <1>4 DEF TouchOwn

LEMMA TakeFlagStep ==
    ASSUME Inv, NEW c \in CtfClients, TakeFlag(c)
    PROVE  Inv'
  <1> DEFINE i == sent[c].flag
             v == sent[c].version
  <1>1. sent[c] # NoTake /\ i \in Flags /\ Track({c})
    BY DEF TakeFlag, Inv, CtfTypeOK, Take
  <1>2. CASE TakeIgnored(c)
    <2>1. UNCHANGED <<flag, fighter, game>>
      BY <1>2 DEF TakeIgnored, NoScore
    <2>2. sent' \in [CtfClients -> Take \cup {NoTake}]
      BY <1>1, TrackType DEF Inv
    <2>3. CtfTypeOK'
      BY <2>1, <2>2 DEF Inv, CtfTypeOK, game
    <2>4. \A j \in Flags : Sound(flag'[j], j)
      BY <2>1 DEF Inv
    <2>5. QED
      BY <2>1, <2>3, <2>4, FlagSteps
  <1>3. CASE TakeRefused(c, i, v)
    BY <1>1, <1>3, TakeRefusedStep
  <1>4. CASE MayTouch(c, i, v) /\ TakeTheFlag(c, i)
    BY <1>1, <1>4, TakeTheFlagStep DEF MayTouch
  <1>5. CASE MayTouch(c, i, v) /\ TouchTheirs(c, i)
    BY <1>1, <1>5, TouchTheirsStep
  <1>6. CASE MayTouch(c, i, v) /\ TouchOwn(c, i)
    BY <1>1, <1>6, TouchOwnStep DEF MayTouch
  <1>7. QED
    BY <1>2, <1>3, <1>4, <1>5, <1>6 DEF TakeFlag

LEMMA PassFlagStep ==
    ASSUME Inv, NEW c \in CtfClients, NEW d \in CtfClients, PassFlag(c, d)
    PROVE  Inv'
  <1>1. UNCHANGED <<fighter, game>> /\ Track({}) /\ Alive(d) /\ Mates(c, d)
    BY DEF PassFlag, NoScore
  <1>2. ASSUME NEW i \in Flags
        PROVE  flag'[i] \in Flag /\ Sound(flag'[i], i)
    <2>1. flag[i] \in Flag /\ Sound(flag[i], i)
      BY DEF Inv, CtfTypeOK
    <2>2. CASE flag[i].owner # c
      BY <2>1, <2>2 DEF PassFlag
    <2>3. CASE flag[i].owner = c
      <3> DEFINE p == Passed(flag[i])
                 g == Owned(p, d)
      <3>1. p \in Flag
        BY <2>1, PassedFlag
      <3>2. flag'[i] = g
        BY <2>3 DEF PassFlag
      <3> HIDE DEF p
      <3>3. g \in Flag /\ g.owner = d /\ g.dropper = NoClient
        BY <3>1, OwnedFlag
      <3> HIDE DEF g
      <3>4. ~Slaying => TakesFlag(c, i)
        BY <2>1, <2>3, CtfAssumption DEF Sound, Plays
      <3>5. Plays(d, i)
        BY <3>4, <1>1 DEF Plays, CtfPresent, Alive, TakesFlag, Mates
      <3>6. QED
        BY <1>1, <3>2, <3>3, <3>5 DEF Sound
    <2>4. QED
      BY <2>2, <2>3
  <1>3. flag' \in [Flags -> Flag]
    BY <1>2 DEF PassFlag
  <1>4. sent' \in [CtfClients -> Take \cup {NoTake}]
    BY <1>1, TrackType DEF Inv
  <1>5. CtfTypeOK'
    BY <1>1, <1>3, <1>4, GameType DEF Inv, CtfTypeOK
  <1>6. QED
    BY <1>1, <1>2, <1>5, FlagSteps

LEMMA TickStep ==
    ASSUME Inv, NEW i \in Flags, Tick(i)
    PROVE  Inv'
  <1> DEFINE f == flag[i]
  <1>1. f \in Flag /\ Sound(f, i)
    BY DEF Inv, CtfTypeOK
  <1>2. UNCHANGED <<fighter, game, sent>> /\ sent' \in [CtfClients -> Take \cup {NoTake}]
    BY DEF Tick, Inv, CtfTypeOK
  <1>3. CASE f.drop = "on" /\ flag' = [flag EXCEPT ![i] = [f EXCEPT !.drop = "due"]]
    <2> DEFINE g == [f EXCEPT !.drop = "due"]
    <2>1. g \in Flag /\ g.owner = f.owner /\ g.dropper = f.dropper /\ g.drop = "due"
      BY <1>1 DEF Flag, Timer
    <2> HIDE DEF g
    <2>2. Sound(g, i)
      BY <1>1, <2>1 DEF Sound
    <2>3. flag' = [flag EXCEPT ![i] = g]
      BY <1>3 DEF g
    <2>4. QED
      BY <1>2, <2>1, <2>2, <2>3, GameType, OneFlagSteps
  <1>4. CASE flag' = [flag EXCEPT ![i] = [f EXCEPT !.invis = "due"]]
    <2> DEFINE g == [f EXCEPT !.invis = "due"]
    <2>1. g \in Flag /\ g.owner = f.owner /\ g.dropper = f.dropper /\ g.drop = f.drop
      BY <1>1 DEF Flag, Timer
    <2> HIDE DEF g
    <2>2. Sound(g, i)
      BY <1>1, <2>1 DEF Sound
    <2>3. flag' = [flag EXCEPT ![i] = g]
      BY <1>4 DEF g
    <2>4. QED
      BY <1>2, <2>1, <2>2, <2>3, GameType, OneFlagSteps
  <1>5. CASE flag' = [flag EXCEPT ![i] = [f EXCEPT !.hold = "due", !.streak = "due"]]
    <2> DEFINE g == [f EXCEPT !.hold = "due", !.streak = "due"]
    <2>1. g \in Flag /\ g.owner = f.owner /\ g.dropper = f.dropper /\ g.drop = f.drop
      BY <1>1 DEF Flag, Timer, Streak
    <2> HIDE DEF g
    <2>2. Sound(g, i)
      BY <1>1, <2>1 DEF Sound
    <2>3. flag' = [flag EXCEPT ![i] = g]
      BY <1>5 DEF g
    <2>4. QED
      BY <1>2, <2>1, <2>2, <2>3, GameType, OneFlagSteps
  <1>6. CASE flag' = [flag EXCEPT ![i] = [f EXCEPT !.streak = "due"]]
    <2> DEFINE g == [f EXCEPT !.streak = "due"]
    <2>1. g \in Flag /\ g.owner = f.owner /\ g.dropper = f.dropper /\ g.drop = f.drop
      BY <1>1 DEF Flag, Timer, Streak
    <2> HIDE DEF g
    <2>2. Sound(g, i)
      BY <1>1, <2>1 DEF Sound
    <2>3. flag' = [flag EXCEPT ![i] = g]
      BY <1>6 DEF g
    <2>4. QED
      BY <1>2, <2>1, <2>2, <2>3, GameType, OneFlagSteps
  <1>7. QED
    BY <1>3, <1>4, <1>5, <1>6 DEF Tick

\* Flags that have lain too long cost their team a point each.
LEMMA LostFlags ==
    ASSUME NEW t \in CtfTeams
    PROVE  Cardinality({i \in Flags : Resets(i) /\ FlagTeam[i] = t}) \in Nat
  <1>1. IsFiniteSet({i \in Flags : Resets(i) /\ FlagTeam[i] = t})
    BY CtfAssumption, FS_Subset
  <1>2. QED
    BY <1>1, FS_CardinalityType

LEMMA UpdateFlagsStep ==
    ASSUME Inv, UpdateFlags
    PROVE  Inv'
  <1>1. InvisAtHome \in Timer
    BY DEF InvisAtHome, Timer
  <1>2. ASSUME NEW i \in Flags
        PROVE  flag'[i] \in Flag /\ Sound(flag'[i], i)
    <2>1. flag[i] \in Flag /\ Sound(flag[i], i)
      BY DEF Inv, CtfTypeOK
    <2>2. Returned(flag[i], InvisAtHome) \in Flag /\ Sound(Returned(flag[i], InvisAtHome), i)
      BY <1>1, <2>1, ReturnedFlag DEF Sound
    <2> DEFINE g == [flag[i] EXCEPT !.invis = "off"]
    <2>3. g \in Flag /\ g.owner = flag[i].owner /\ g.dropper = flag[i].dropper /\ g.drop = flag[i].drop
      BY <2>1 DEF Flag, Timer
    <2> HIDE DEF g
    <2>4. Sound(g, i)
      BY <2>1, <2>3 DEF Sound
    <2>5. flag'[i] \in {Returned(flag[i], InvisAtHome), g, flag[i]}
      <3>1. CASE Resets(i)
        BY <3>1, Zenon DEF UpdateFlags
      <3>2. CASE ~Resets(i) /\ flag[i].invis = "due"
        BY <3>2, Zenon DEF UpdateFlags, g
      <3>3. CASE ~Resets(i) /\ flag[i].invis # "due"
        BY <3>3, Zenon DEF UpdateFlags
      <3>4. QED
        BY <3>1, <3>2, <3>3
    <2>6. QED
      BY <2>1, <2>2, <2>3, <2>4, <2>5
  <1>3. flag' \in [Flags -> Flag]
    BY <1>2 DEF UpdateFlags
  <1>4. flagscores' \in [CtfTeams -> Int]
    <2>1. ASSUME NEW t \in CtfTeams
          PROVE  flagscores'[t] \in Int
      <3>1. flagscores[t] \in Int
        BY DEF Inv, CtfTypeOK
      <3>2. \/ flagscores'[t] = flagscores[t]
            \/ flagscores'[t] = flagscores[t] - Cardinality({i \in Flags : Resets(i) /\ FlagTeam[i] = t})
        <4>1. CASE Mode = "protect"
          BY <4>1, Zenon DEF UpdateFlags
        <4>2. CASE Mode # "protect"
          BY <4>2, Zenon DEF UpdateFlags
        <4>3. QED
          BY <4>1, <4>2
      <3>3. QED
        BY <3>1, <3>2, LostFlags
    <2>2. QED
      BY <2>1 DEF UpdateFlags
  <1>5. sent' \in [CtfClients -> Take \cup {NoTake}]
    BY TrackType DEF Inv, UpdateFlags
  <1>6. CtfTypeOK'
    BY <1>3, <1>4, <1>5 DEF Inv, CtfTypeOK, UpdateFlags
  <1>7. QED
    BY <1>2, <1>6, FlagSteps DEF UpdateFlags

LEMMA UpdateHoldStep ==
    ASSUME Inv, NEW i \in Flags, UpdateHold(i)
    PROVE  Inv'
  <1>1. flag[i].owner \in CtfClients
    BY DEF UpdateHold, HoldEnds, Inv, CtfTypeOK, Flag
  <1>2. "off" \in Timer
    BY DEF Timer
  <1>3. QED
    BY <1>1, <1>2, HomeStep DEF UpdateHold

\* A new map or the flags of the map: nobody carries a flag.
LEMMA NewFlagsStep ==
    ASSUME Inv, flag' = [i \in Flags |-> NewFlag], CtfTypeOK'
    PROVE  Inv'
  <1>1. \A i \in Flags : flag'[i].owner = NoClient /\ flag'[i].dropper = NoClient
    BY NewFlagSound
  <1>2. QED
    BY <1>1 DEF Inv, Sound

LEMMA ChangeMapStep ==
    ASSUME Inv, NEW known \in BOOLEAN, NEW teams \in [CtfClients -> CtfTeams], CtfChangeMap(known, teams)
    PROVE  Inv'
  <1>1. flag' \in [Flags -> Flag]
    BY NewFlagSound DEF CtfChangeMap
  <1>2. fighter' \in [CtfClients -> Fighter]
    BY DEF CtfChangeMap, Inv, CtfTypeOK, Fighter
  <1>3. sent' \in [CtfClients -> Take \cup {NoTake}]
    <2>1. ASSUME NEW c \in CtfClients, sent[c] # NoTake
          PROVE  [flag |-> sent[c].flag, version |-> sent[c].version, stale |-> TRUE] \in Take
      <3>1. sent[c] \in Take
        BY <2>1 DEF Inv, CtfTypeOK
      <3>2. QED
        BY <3>1 DEF Take
    <2>2. QED
      BY <2>1 DEF CtfChangeMap
  <1>4. flagscores' \in [CtfTeams -> Int]
    BY DEF CtfChangeMap
  <1>5. CtfTypeOK'
    BY <1>1, <1>2, <1>3, <1>4 DEF CtfChangeMap, Inv, CtfTypeOK
  <1>6. QED
    BY <1>5, NewFlagsStep DEF CtfChangeMap

LEMMA ParseFlagsStep ==
    ASSUME Inv, ParseFlags
    PROVE  Inv'
  <1>1. flag' \in [Flags -> Flag]
    BY NewFlagSound DEF ParseFlags
  <1>2. CtfTypeOK'
    BY <1>1 DEF ParseFlags, Inv, CtfTypeOK
  <1>3. QED
    BY <1>2, NewFlagsStep DEF ParseFlags

-----------------------------------------------------------------------------
(* The invariant is inductive                                              *)

LEMMA PlayerActions ==
    ASSUME Inv, NEW c \in CtfClients,
           \/ \E state \in {"dead", "spectator"}, t \in CtfTeams : CtfJoin(c, state, t)
           \/ CtfUnspectate(c)
           \/ CtfSpawn(c)
    PROVE  Inv'
  <1>1. fighter[c] \in Fighter /\ sent \in [CtfClients -> Take \cup {NoTake}]
    BY DEF Inv, CtfTypeOK
  <1>2. ASSUME NEW state \in {"dead", "spectator"}, NEW t \in CtfTeams, CtfJoin(c, state, t)
        PROVE  Inv'
    <2> DEFINE p == [state |-> state, team |-> t]
    <2>1. p \in Fighter /\ p.state # "gone"
      BY DEF Fighter
    <2>2. fighter' = [fighter EXCEPT ![c] = p] /\ UNCHANGED <<flag, game, sent>> /\ ~Alive(c)
      BY <1>2 DEF CtfJoin, Alive
    <2> HIDE DEF p
    <2>3. QED
      BY <1>1, <2>1, <2>2, PlayerSteps
  <1>3. ASSUME NEW state \in {"dead", "alive"}, ~Alive(c),
               fighter' = [fighter EXCEPT ![c].state = state],
               UNCHANGED <<flag, game, sent>>
        PROVE  Inv'
    <2> DEFINE p == [fighter[c] EXCEPT !.state = state]
    <2>1. p \in Fighter /\ p.state # "gone"
      BY <1>1 DEF Fighter
    <2>2. fighter' = [fighter EXCEPT ![c] = p]
      BY <1>3
    <2> HIDE DEF p
    <2>3. QED
      BY <1>1, <1>3, <2>1, <2>2, PlayerSteps
  <1>4. CASE CtfUnspectate(c)
    BY <1>3, <1>4 DEF CtfUnspectate, Alive
  <1>5. CASE CtfSpawn(c)
    BY <1>3, <1>5 DEF CtfSpawn, Alive
  <1>6. QED
    BY <1>2, <1>4, <1>5

LEMMA FallActions ==
    ASSUME Inv, NEW c \in CtfClients, NEW inbase \in BOOLEAN,
           \/ CtfLeave(c, inbase)
           \/ CtfSpectate(c, inbase)
           \/ \E actor \in CtfClients \cup {NoClient} : CtfDie(c, actor, inbase)
    PROVE  Inv'
  <1>1. fighter[c] \in Fighter
    BY DEF Inv, CtfTypeOK
  <1>2. CASE CtfLeave(c, inbase)
    <2> DEFINE p == [state |-> "gone", team |-> "good"]
    <2>1. p \in Fighter
      BY DEF Fighter, CtfTeams
    <2>2. fighter' = [fighter EXCEPT ![c] = p]
      BY <1>2 DEF CtfLeave
    <2> HIDE DEF p
    <2>3. QED
      BY <1>2, <2>1, <2>2, FallSteps DEF CtfLeave, LeaveGame
  <1>3. CASE CtfSpectate(c, inbase)
    <2> DEFINE p == [fighter[c] EXCEPT !.state = "spectator"]
    <2>1. p \in Fighter
      BY <1>1 DEF Fighter
    <2>2. fighter' = [fighter EXCEPT ![c] = p]
      BY <1>3 DEF CtfSpectate
    <2> HIDE DEF p
    <2>3. QED
      BY <1>3, <2>1, <2>2, FallSteps DEF CtfSpectate, LeaveGame
  <1>4. ASSUME NEW actor \in CtfClients \cup {NoClient}, CtfDie(c, actor, inbase)
        PROVE  Inv'
    <2> DEFINE p == [fighter[c] EXCEPT !.state = "dead"]
               d == IF TkPenalty /\ actor # NoClient /\ Mates(actor, c) THEN actor ELSE c
    <2>1. p \in Fighter
      BY <1>1 DEF Fighter
    <2>2. fighter' = [fighter EXCEPT ![c] = p]
      BY <1>4 DEF CtfDie
    <2>3. d \in CtfClients /\ (d # c => d \in CtfPresent)
      BY <1>4 DEF CtfDie
    <2>4. flag' = [i \in Flags |-> Forgotten(DropAll(c, d, inbase)[i], c)]
      BY <1>4, Zenon DEF CtfDie, Died
    <2> HIDE DEF p, d
    <2>5. QED
      BY <1>4, <2>1, <2>2, <2>3, <2>4, FallSteps DEF CtfDie
  <1>5. QED
    BY <1>2, <1>3, <1>4

LEMMA TeamActions ==
    ASSUME Inv, NEW c \in CtfClients, NEW inbase \in BOOLEAN, NEW t \in CtfTeams,
           CtfSwitchTeam(c, t, inbase) \/ BalanceBot(c, t, inbase)
    PROVE  Inv'
  <1> DEFINE p == [fighter[c] EXCEPT !.team = t]
  <1>1. p \in Fighter /\ c \in CtfPresent /\ p.state # "gone"
    BY DEF CtfSwitchTeam, BalanceBot, CtfPresent, Inv, CtfTypeOK, Fighter
  <1>2. CASE CtfSwitchTeam(c, t, inbase) /\ Alive(c)
    <2> DEFINE q == [state |-> "dead", team |-> t]
    <2>1. q \in Fighter
      BY DEF Fighter
    <2>2. fighter' = [fighter EXCEPT ![c] = q]
      BY <1>2 DEF CtfSwitchTeam
    <2>3. flag' = [i \in Flags |-> Forgotten(DropAll(c, c, inbase)[i], c)]
      BY <1>2 DEF CtfSwitchTeam, Died
    <2> HIDE DEF p, q
    <2>4. QED
      BY <1>2, <2>1, <2>2, <2>3, FallSteps DEF CtfSwitchTeam
  <1>3. CASE CtfSwitchTeam(c, t, inbase) /\ ~Alive(c)
    <2>1. fighter' = [fighter EXCEPT ![c] = p]
      BY <1>3 DEF CtfSwitchTeam
    <2>2. UNCHANGED <<flag, game>> /\ sent' \in [CtfClients -> Take \cup {NoTake}]
      BY <1>3 DEF CtfSwitchTeam, Inv, CtfTypeOK
    <2> HIDE DEF p
    <2>3. QED
      BY <1>1, <1>3, <2>1, <2>2, PlayerSteps
  <1>4. CASE BalanceBot(c, t, inbase)
    <2>1. fighter' = [fighter EXCEPT ![c] = p] /\ UNCHANGED game /\ Track({})
      BY <1>4 DEF BalanceBot
    <2>2. CASE Alive(c)
      <3>1. flag' = DropAll(c, c, inbase)
        BY <1>4, <2>2 DEF BalanceBot
      <3> HIDE DEF p
      <3>2. QED
        BY <1>1, <2>1, <3>1, DropSteps
    <2>3. CASE ~Alive(c)
      <3>1. UNCHANGED flag /\ sent' \in [CtfClients -> Take \cup {NoTake}]
        BY <1>4, <2>1, <2>3, TrackType DEF BalanceBot, Inv
      <3> HIDE DEF p
      <3>2. QED
        BY <1>1, <2>1, <2>3, <3>1, PlayerSteps
    <2>4. QED
      BY <2>2, <2>3
  <1>5. QED
    BY <1>2, <1>3, <1>4

LEMMA TryDropFlagStep ==
    ASSUME Inv, NEW c \in CtfClients, NEW inbase \in BOOLEAN, TryDropFlag(c, inbase)
    PROVE  Inv'
  <1>1. fighter[c] \in Fighter /\ c \in CtfPresent /\ fighter[c].state # "gone"
    BY DEF TryDropFlag, CtfPresent, Inv, CtfTypeOK
  <1>2. fighter' = [fighter EXCEPT ![c] = fighter[c]]
    BY DEF TryDropFlag, Inv, CtfTypeOK
  <1>3. QED
    BY <1>1, <1>2, DropSteps DEF TryDropFlag

LEMMA SendTakeStep ==
    ASSUME Inv, NEW c \in CtfClients, NEW i \in Flags, SendTake(c, i)
    PROVE  Inv'
  <1>1. [flag |-> i, version |-> flag[i].version, stale |-> FALSE] \in Take
    BY DEF Take, Inv, CtfTypeOK, Flag
  <1>2. CtfTypeOK'
    BY <1>1 DEF SendTake, Inv, CtfTypeOK, game
  <1>3. \A j \in Flags : Sound(flag'[j], j)
    BY DEF SendTake, Inv
  <1>4. QED
    BY <1>2, <1>3, FlagSteps DEF SendTake

LEMMA EndOfTimeStep ==
    ASSUME Inv, CtfEndOfTime \/ CtfReopen
    PROVE  Inv'
  <1>1. CtfTypeOK'
    BY DEF CtfEndOfTime, CtfReopen, Inv, CtfTypeOK
  <1>2. \A j \in Flags : Sound(flag'[j], j)
    BY DEF CtfEndOfTime, CtfReopen, Inv
  <1>3. QED
    BY <1>1, <1>2, FlagSteps DEF CtfEndOfTime, CtfReopen

\* player_slay leaves the flag with the player it kills.
LEMMA SlayStep ==
    ASSUME Inv, NEW c \in CtfClients, Slay(c)
    PROVE  Inv'
  <1> DEFINE p == [fighter[c] EXCEPT !.state = "dead"]
  <1>1. p \in Fighter /\ p.state # "gone"
    BY DEF Inv, CtfTypeOK, Fighter
  <1>2. fighter' = [fighter EXCEPT ![c] = p] /\ UNCHANGED <<flag, game, sent>> /\ Slaying
    BY DEF Slay
  <1>3. sent' \in [CtfClients -> Take \cup {NoTake}]
    BY <1>2 DEF Inv, CtfTypeOK
  <1> HIDE DEF p
  <1>4. QED
    BY <1>1, <1>2, <1>3, PlayerSteps

\* The invariant is inductive.
LEMMA NextInv ==
    ASSUME Inv, [CtfNext]_ctfvars
    PROVE  Inv'
  <1>1. CASE UNCHANGED ctfvars
    <2>1. CtfTypeOK'
      BY <1>1 DEF ctfvars, Inv, CtfTypeOK
    <2>2. \A j \in Flags : Sound(flag'[j], j)
      BY <1>1 DEF ctfvars, Inv
    <2>3. QED
      BY <1>1, <2>1, <2>2, FlagSteps DEF ctfvars
  <1>2. ASSUME NEW c \in CtfClients,
               \E state \in {"dead", "spectator"}, t \in CtfTeams : CtfJoin(c, state, t)
        PROVE  Inv'
    BY <1>2, PlayerActions
  <1>3. ASSUME NEW c \in CtfClients, NEW inbase \in BOOLEAN,
               \/ CtfLeave(c, inbase)
               \/ CtfSpectate(c, inbase)
               \/ TryDropFlag(c, inbase)
               \/ \E actor \in CtfClients \cup {NoClient} : CtfDie(c, actor, inbase)
               \/ \E t \in CtfTeams : CtfSwitchTeam(c, t, inbase) \/ BalanceBot(c, t, inbase)
        PROVE  Inv'
    BY <1>3, FallActions, TryDropFlagStep, TeamActions
  <1>4. ASSUME NEW c \in CtfClients, CtfUnspectate(c) \/ CtfSpawn(c) \/ Slay(c) \/ TakeFlag(c)
        PROVE  Inv'
    BY <1>4, PlayerActions, SlayStep, TakeFlagStep
  <1>5. ASSUME NEW c \in CtfClients, NEW i \in Flags, SendTake(c, i)
        PROVE  Inv'
    BY <1>5, SendTakeStep
  <1>6. ASSUME NEW c \in CtfClients, NEW d \in CtfClients, PassFlag(c, d)
        PROVE  Inv'
    BY <1>6, PassFlagStep
  <1>7. ASSUME NEW i \in Flags, Tick(i) \/ UpdateHold(i)
        PROVE  Inv'
    BY <1>7, TickStep, UpdateHoldStep
  <1>8. ASSUME NEW known \in BOOLEAN, NEW teams \in [CtfClients -> CtfTeams], CtfChangeMap(known, teams)
        PROVE  Inv'
    BY <1>8, ChangeMapStep
  <1>9. QED
    BY <1>1, <1>2, <1>3, <1>4, <1>5, <1>6, <1>7, <1>8,
       UpdateFlagsStep, EndOfTimeStep, ParseFlagsStep DEF CtfNext

\* The invariant holds in every mode.
LEMMA Invariance == CtfSpec => []Inv
  <1>1. CtfInit => Inv
    BY CtfInitInv
  <1>2. Inv /\ [CtfNext]_ctfvars => Inv'
    BY NextInv
  <1>3. QED
    BY <1>1, <1>2, PTL DEF CtfSpec

-----------------------------------------------------------------------------
(* Versions and the messages that name them                                *)

\* A flag's version never falls, and grows when the flag moves.
Grows(i) == /\ flag'[i].version >= flag[i].version
            /\ Moved(i) => flag'[i].version > flag[i].version

\* Every move of a flag is marked in the messages under way.
Follows == \/ \E S : Track(S)
           \/ UNCHANGED sent /\ \A i \in Flags : ~Moved(i)
           \/ \E c \in CtfClients, i \in Flags : SendTake(c, i)

\* Who comes to life has no message under way.
Wakes == \A c \in CtfClients : Alive(c)' => Alive(c) \/ sent[c] = NoTake

\* What every step on one map does.
Orderly == /\ \A i \in Flags : Grows(i)
           /\ UNCHANGED gotflags
           /\ Follows
           /\ Wakes

LEMMA StillFlags ==
    ASSUME CtfTypeOK, UNCHANGED flag
    PROVE  \A i \in Flags : Grows(i) /\ ~Moved(i)
  BY DEF CtfTypeOK, Flag, Grows, Moved

LEMMA SamePlayers ==
    ASSUME UNCHANGED fighter
    PROVE  Wakes
  BY DEF Wakes, Alive

\* Nobody but c changes, and c does not come to life.
LEMMA OneFighter ==
    ASSUME CtfTypeOK, NEW c \in CtfClients, NEW p, fighter' = [fighter EXCEPT ![c] = p],
           p.state = "alive" => Alive(c) \/ sent[c] = NoTake
    PROVE  Wakes
  BY DEF CtfTypeOK, Wakes, Alive

LEMMA FallGrows ==
    ASSUME CtfTypeOK, NEW c \in CtfClients, NEW d \in CtfClients, NEW inbase \in BOOLEAN,
           \/ flag' = [i \in Flags |-> Forgotten(DropAll(c, d, inbase)[i], c)]
           \/ flag' = DropAll(c, d, inbase)
    PROVE  \A i \in Flags : Grows(i)
  <1> SUFFICES ASSUME NEW i \in Flags PROVE Grows(i)
    OBVIOUS
  <1> DEFINE g == DropAll(c, d, inbase)[i]
  <1>1. /\ g \in Flag
        /\ flag[i].owner # c => g = flag[i]
        /\ flag[i].owner = c => g.version = flag[i].version + 1
    BY FallenFlag
  <1>2. flag'[i] = g \/ flag'[i] = Forgotten(g, c)
    OBVIOUS
  <1> HIDE DEF g
  <1>3. flag'[i].version = g.version /\ flag'[i].owner = g.owner /\ flag'[i].drop = g.drop
    BY <1>1, <1>2, ForgottenFlag
  <1>4. flag[i].version \in Nat
    BY DEF CtfTypeOK, Flag
  <1>5. QED
    BY <1>1, <1>3, <1>4 DEF Grows, Moved

\* One flag becomes g.
LEMMA OneFlagGrows ==
    ASSUME CtfTypeOK, NEW i \in Flags, NEW g, flag' = [flag EXCEPT ![i] = g],
           \/ g.version = flag[i].version + 1
           \/ g.version = flag[i].version /\ g.owner = flag[i].owner
                /\ (g.drop = "off") = (flag[i].drop = "off")
    PROVE  \A j \in Flags : Grows(j)
  <1> SUFFICES ASSUME NEW j \in Flags PROVE Grows(j)
    OBVIOUS
  <1>1. flag[j].version \in Nat
    BY DEF CtfTypeOK, Flag
  <1>2. CASE j = i
    BY <1>1, <1>2 DEF CtfTypeOK, Grows, Moved
  <1>3. CASE j # i
    BY <1>1, <1>3 DEF CtfTypeOK, Grows, Moved
  <1>4. QED
    BY <1>2, <1>3

LEMMA PlayersOrderly ==
    ASSUME Inv, NEW c \in CtfClients,
           \/ \E state \in {"dead", "spectator"}, t \in CtfTeams : CtfJoin(c, state, t)
           \/ CtfUnspectate(c) \/ CtfSpawn(c) \/ Slay(c)
    PROVE  Orderly
  <1>1. UNCHANGED <<flag, game, sent>>
    BY DEF CtfJoin, CtfUnspectate, CtfSpawn, Slay
  <1>2. Wakes
    <2>1. PICK p : fighter' = [fighter EXCEPT ![c] = p] /\ (p.state = "alive" => sent[c] = NoTake)
      <3>1. ASSUME NEW state \in {"dead", "spectator"}, NEW t \in CtfTeams, CtfJoin(c, state, t)
            PROVE  \E p : fighter' = [fighter EXCEPT ![c] = p] /\ (p.state = "alive" => sent[c] = NoTake)
        <4> DEFINE p == [state |-> state, team |-> t]
        <4>1. fighter' = [fighter EXCEPT ![c] = p] /\ p.state # "alive"
          BY <3>1 DEF CtfJoin
        <4>2. QED
          BY <4>1
      <3>2. ASSUME NEW state \in {"dead", "alive"}, fighter' = [fighter EXCEPT ![c].state = state],
                   state = "alive" => sent[c] = NoTake
            PROVE  \E p : fighter' = [fighter EXCEPT ![c] = p] /\ (p.state = "alive" => sent[c] = NoTake)
        <4> DEFINE p == [fighter[c] EXCEPT !.state = state]
        <4>1. fighter[c] \in Fighter
          BY DEF Inv, CtfTypeOK
        <4>2. fighter' = [fighter EXCEPT ![c] = p] /\ p.state = state
          BY <3>2, <4>1 DEF Fighter
        <4> HIDE DEF p
        <4>3. QED
          BY <3>2, <4>2
      <3>3. QED
        BY <3>1, <3>2 DEF CtfUnspectate, CtfSpawn, Slay
    <2>2. QED
      BY <2>1, OneFighter DEF Inv
  <1>3. QED
    BY <1>1, <1>2, StillFlags DEF Orderly, Follows, game, Inv

\* A player falls or changes the team; the flags it carried are dropped.
LEMMA FallOrderly ==
    ASSUME Inv, NEW c \in CtfClients, NEW inbase \in BOOLEAN, NEW t \in CtfTeams,
           \/ CtfLeave(c, inbase)
           \/ CtfSpectate(c, inbase)
           \/ TryDropFlag(c, inbase)
           \/ \E actor \in CtfClients \cup {NoClient} : CtfDie(c, actor, inbase)
           \/ CtfSwitchTeam(c, t, inbase)
           \/ BalanceBot(c, t, inbase)
    PROVE  Orderly
  <1>1. ASSUME NEW p, fighter' = [fighter EXCEPT ![c] = p], p.state = "alive" => Alive(c),
               NEW d \in CtfClients,
               \/ flag' = [i \in Flags |-> Forgotten(DropAll(c, d, inbase)[i], c)]
               \/ flag' = DropAll(c, d, inbase)
               \/ UNCHANGED flag,
               UNCHANGED game, (\E S : Track(S)) \/ UNCHANGED <<flag, sent>>
        PROVE  Orderly
    <2>1. \A i \in Flags : Grows(i)
      BY <1>1, FallGrows, StillFlags DEF Inv
    <2>2. Wakes
      BY <1>1, OneFighter DEF Inv
    <2>3. Follows
      BY <1>1, StillFlags DEF Inv, Follows
    <2>4. QED
      BY <1>1, <2>1, <2>2, <2>3 DEF Orderly, game
  <1>2. fighter[c] \in Fighter
    BY DEF Inv, CtfTypeOK
  <1>3. CASE CtfLeave(c, inbase)
    <2> DEFINE p == [state |-> "gone", team |-> "good"]
    <2>1. fighter' = [fighter EXCEPT ![c] = p] /\ p.state # "alive"
      BY <1>3 DEF CtfLeave
    <2> HIDE DEF p
    <2>2. QED
      BY <1>1, <1>3, <2>1 DEF CtfLeave, LeaveGame
  <1>4. CASE CtfSpectate(c, inbase)
    <2> DEFINE p == [fighter[c] EXCEPT !.state = "spectator"]
    <2>1. fighter' = [fighter EXCEPT ![c] = p] /\ p.state # "alive"
      BY <1>2, <1>4 DEF CtfSpectate, Fighter
    <2> HIDE DEF p
    <2>2. QED
      BY <1>1, <1>4, <2>1 DEF CtfSpectate, LeaveGame
  <1>5. CASE TryDropFlag(c, inbase)
    <2>1. fighter' = [fighter EXCEPT ![c] = fighter[c]]
      BY <1>5 DEF TryDropFlag, Inv, CtfTypeOK
    <2>2. QED
      BY <1>1, <1>5, <2>1 DEF TryDropFlag, Alive
  <1>6. ASSUME NEW actor \in CtfClients \cup {NoClient}, CtfDie(c, actor, inbase)
        PROVE  Orderly
    <2> DEFINE p == [fighter[c] EXCEPT !.state = "dead"]
               d == IF TkPenalty /\ actor # NoClient /\ Mates(actor, c) THEN actor ELSE c
    <2>1. fighter' = [fighter EXCEPT ![c] = p] /\ p.state # "alive"
      BY <1>2, <1>6 DEF CtfDie, Fighter
    <2>2. d \in CtfClients
      OBVIOUS
    <2>3. flag' = [i \in Flags |-> Forgotten(DropAll(c, d, inbase)[i], c)]
      BY <1>6, Zenon DEF CtfDie, Died
    <2> HIDE DEF p, d
    <2>4. QED
      BY <1>1, <1>6, <2>1, <2>2, <2>3 DEF CtfDie
  <1>7. CASE CtfSwitchTeam(c, t, inbase) /\ Alive(c)
    <2> DEFINE p == [state |-> "dead", team |-> t]
    <2>1. fighter' = [fighter EXCEPT ![c] = p] /\ p.state # "alive"
      BY <1>7 DEF CtfSwitchTeam
    <2>2. flag' = [i \in Flags |-> Forgotten(DropAll(c, c, inbase)[i], c)]
      BY <1>7 DEF CtfSwitchTeam, Died
    <2> HIDE DEF p
    <2>3. QED
      BY <1>1, <1>7, <2>1, <2>2 DEF CtfSwitchTeam
  <1> DEFINE q == [fighter[c] EXCEPT !.team = t]
  <1>8. q.state = fighter[c].state
    BY <1>2 DEF Fighter
  <1>9. CASE CtfSwitchTeam(c, t, inbase) /\ ~Alive(c)
    <2>1. fighter' = [fighter EXCEPT ![c] = q] /\ UNCHANGED <<flag, sent, game>>
      BY <1>9 DEF CtfSwitchTeam
    <2> HIDE DEF q
    <2>2. QED
      BY <1>1, <1>8, <2>1 DEF Alive
  <1>10. CASE BalanceBot(c, t, inbase)
    <2>1. fighter' = [fighter EXCEPT ![c] = q] /\ UNCHANGED game /\ Track({})
      BY <1>10 DEF BalanceBot
    <2>2. flag' = DropAll(c, c, inbase) \/ UNCHANGED flag
      BY <1>10, Zenon DEF BalanceBot
    <2> HIDE DEF q
    <2>3. QED
      BY <1>1, <1>8, <2>1, <2>2 DEF Alive
  <1>11. QED
    BY <1>3, <1>4, <1>5, <1>6, <1>7, <1>9, <1>10

LEMMA TakeOrderly ==
    ASSUME Inv, NEW c \in CtfClients, TakeFlag(c)
    PROVE  /\ Orderly
           /\ Track({c}) /\ UNCHANGED fighter
           /\ \/ \A i \in Flags : ~Moved(i) /\ flag'[i].version = flag[i].version
              \/ MayTouch(c, sent[c].flag, sent[c].version)
  <1> DEFINE i == sent[c].flag
             v == sent[c].version
             Still == \A j \in Flags : ~Moved(j) /\ flag'[j].version = flag[j].version
             May == MayTouch(c, i, v)
  <1>1. sent[c] # NoTake /\ i \in Flags /\ Track({c})
    BY DEF TakeFlag, Inv, CtfTypeOK, Take
  <1>2. flag[i] \in Flag
    BY <1>1 DEF Inv, CtfTypeOK
  <1>3. UNCHANGED <<fighter, gotflags>>
    BY DEF TakeFlag, TakeIgnored, TakeRefused, TakeTheFlag, TouchTheirs, TouchOwn,
           NoScore, ScoreFlag, game
  <1>4. Follows /\ Wakes
    BY <1>1, <1>3, SamePlayers DEF Follows
  <1> SUFFICES (\A j \in Flags : Grows(j)) /\ (Still \/ May)
    BY <1>1, <1>3, <1>4 DEF Orderly
  <1>14. CASE TakeIgnored(c)
    <2>1. UNCHANGED flag
      BY <1>14 DEF TakeIgnored
    <2>2. QED
      BY <2>1, StillFlags DEF Inv
  <1>5. CASE TakeRefused(c, i, v)
    <2> DEFINE g == Touched(flag[i])
    <2>1. g.owner = flag[i].owner /\ g.drop = flag[i].drop /\ g.version = flag[i].version
      BY <1>2, TouchedFlag
    <2>2. flag' = [flag EXCEPT ![i] = g]
      BY <1>5 DEF TakeRefused
    <2> HIDE DEF g
    <2>3. Still
      BY <2>1, <2>2, <1>1 DEF Moved, Inv, CtfTypeOK
    <2>4. \A j \in Flags : Grows(j)
      BY <1>1, <2>1, <2>2, OneFlagGrows DEF Inv
    <2>5. QED
      BY <2>3, <2>4
  <1>6. CASE May /\ TakeTheFlag(c, i)
    <2> DEFINE g == IF HandsFull(c) THEN Touched(flag[i]) ELSE Timed(Owned(flag[i], c))
    <2>1. flag' = [flag EXCEPT ![i] = g]
      BY <1>6, Zenon DEF TakeTheFlag
    <2>2. \/ g.version = flag[i].version + 1
          \/ g.version = flag[i].version /\ g.owner = flag[i].owner /\ g.drop = flag[i].drop
      <3>1. Owned(flag[i], c) \in Flag /\ Owned(flag[i], c).version = flag[i].version + 1
        BY <1>2, OwnedFlag
      <3>2. Timed(Owned(flag[i], c)).version = flag[i].version + 1
        BY <3>1, TimedFlag
      <3>3. CASE HandsFull(c)
        <4>1. g = Touched(flag[i])
          BY <3>3, Zenon
        <4> HIDE DEF g
        <4>2. QED
          BY <1>2, <4>1, TouchedFlag
      <3>4. CASE ~HandsFull(c)
        <4>1. g = Timed(Owned(flag[i], c))
          BY <3>4, Zenon
        <4> HIDE DEF g
        <4>2. QED
          BY <3>2, <4>1
      <3>5. QED
        BY <3>3, <3>4
    <2> HIDE DEF g
    <2>3. \A j \in Flags : Grows(j)
      BY <1>1, <2>1, <2>2, OneFlagGrows DEF Inv
    <2>4. QED
      BY <1>6, <2>3
  <1>7. CASE May /\ \E invis \in Timer : flag' = [flag EXCEPT ![i] = Returned(flag[i], invis)]
    <2>1. PICK invis \in Timer : flag' = [flag EXCEPT ![i] = Returned(flag[i], invis)]
      BY <1>7
    <2>2. Returned(flag[i], invis).version = flag[i].version + 1
      BY <1>2, ReturnedFlag
    <2>3. \A j \in Flags : Grows(j)
      BY <1>1, <2>1, <2>2, OneFlagGrows DEF Inv
    <2>4. QED
      BY <1>7, <2>3
  <1>8. CASE May /\ \E j \in Carried(c) :
                flag' = [flag EXCEPT ![j] = Returned(flag[j], "off"), ![i] = Bumped(flag[i])]
    <2>1. PICK j \in Carried(c) :
                flag' = [flag EXCEPT ![j] = Returned(flag[j], "off"), ![i] = Bumped(flag[i])]
      BY <1>8, Zenon
    <2>2. j \in Flags /\ flag[j] \in Flag /\ flag[j].owner = c /\ flag[i].owner = NoClient
      BY <1>8 DEF Carried, MayTouch, Inv, CtfTypeOK
    <2>3. i # j /\ "off" \in Timer
      BY <2>2, CtfAssumption DEF Timer
    <2> DEFINE g == Returned(flag[j], "off")
               h == Bumped(flag[i])
    <2>4. g.version = flag[j].version + 1
      BY <2>2, <2>3, ReturnedFlag
    <2>5. h.version = flag[i].version + 1 /\ h.owner = flag[i].owner /\ h.drop = flag[i].drop
      BY <1>2, BumpedFlag
    <2>6. flag' = [flag EXCEPT ![j] = g, ![i] = h]
      BY <2>1
    <2> HIDE DEF g, h
    <2>7. ASSUME NEW k \in Flags
          PROVE  Grows(k)
      <3>1. flag[k].version \in Nat
        BY DEF Inv, CtfTypeOK, Flag
      <3>2. CASE k = i
        BY <2>5, <2>6, <3>1, <3>2 DEF Grows, Moved, Inv, CtfTypeOK
      <3>3. CASE k = j
        BY <2>3, <2>4, <2>6, <3>1, <3>3 DEF Grows, Moved, Inv, CtfTypeOK
      <3>4. CASE k # i /\ k # j
        BY <2>6, <3>1, <3>4 DEF Grows, Moved, Inv, CtfTypeOK
      <3>5. QED
        BY <3>2, <3>3, <3>4
    <2>8. QED
      BY <1>8, <2>7
  <1>9. CASE May /\ UNCHANGED flag
    BY <1>9, StillFlags DEF Inv
  <1>10. CASE May /\ TouchTheirs(c, i)
    <2>1. InvisAtHome \in Timer
      BY DEF InvisAtHome, Timer
    <2>2. QED
      BY <1>7, <1>9, <1>10, <2>1 DEF TouchTheirs
  <1>11. CASE May /\ TouchOwn(c, i)
    <2>1. "off" \in Timer
      BY DEF Timer
    <2>2. \/ \E invis \in Timer : flag' = [flag EXCEPT ![i] = Returned(flag[i], invis)]
          \/ UNCHANGED flag
          \/ \E j \in Carried(c) :
                flag' = [flag EXCEPT ![j] = Returned(flag[j], "off"), ![i] = Bumped(flag[i])]
      BY <1>11, <2>1, Zenon DEF TouchOwn
    <2>3. QED
      BY <1>7, <1>8, <1>9, <1>11, <2>2
  <1> HIDE DEF Still, May
  <1>12. \/ TakeIgnored(c) \/ TakeRefused(c, i, v)
         \/ May /\ (TakeTheFlag(c, i) \/ TouchTheirs(c, i) \/ TouchOwn(c, i))
    BY Zenon DEF TakeFlag, May
  <1>13. QED
    BY <1>5, <1>6, <1>10, <1>11, <1>12, <1>14

LEMMA SendOrderly ==
    ASSUME Inv, NEW c \in CtfClients, NEW i \in Flags, SendTake(c, i)
    PROVE  Orderly
  <1>1. UNCHANGED <<fighter, flag, gotflags>>
    BY DEF SendTake, game
  <1>2. QED
    BY <1>1, StillFlags, SamePlayers DEF Orderly, Follows, Inv

LEMMA PassOrderly ==
    ASSUME Inv, NEW c \in CtfClients, NEW d \in CtfClients, PassFlag(c, d)
    PROVE  Orderly
  <1>1. UNCHANGED <<fighter, gotflags>> /\ Track({})
    BY DEF PassFlag, NoScore, game
  <1>2. ASSUME NEW i \in Flags
        PROVE  Grows(i)
    <2>1. flag[i] \in Flag /\ flag[i].version \in Nat
      BY DEF Inv, CtfTypeOK, Flag
    <2>2. CASE flag[i].owner # c
      BY <2>1, <2>2 DEF PassFlag, Grows, Moved
    <2>3. CASE flag[i].owner = c
      <3> DEFINE p == Passed(flag[i])
      <3>1. p \in Flag /\ p.version = flag[i].version
        BY <2>1, PassedFlag
      <3>2. flag'[i] = Owned(p, d)
        BY <2>3 DEF PassFlag
      <3> HIDE DEF p
      <3>3. flag'[i].version = flag[i].version + 1
        BY <3>1, <3>2, OwnedFlag
      <3>4. QED
        BY <2>1, <3>3 DEF Grows
    <2>4. QED
      BY <2>2, <2>3
  <1>3. QED
    BY <1>1, <1>2, SamePlayers DEF Orderly, Follows

LEMMA TickOrderly ==
    ASSUME Inv, NEW i \in Flags, Tick(i)
    PROVE  Orderly /\ \A j \in Flags : ~Moved(j)
  <1> DEFINE f == flag[i]
  <1>1. f \in Flag
    BY DEF Inv, CtfTypeOK
  <1>2. UNCHANGED <<fighter, gotflags, sent>>
    BY DEF Tick, game
  <1>3. PICK g : /\ flag' = [flag EXCEPT ![i] = g] /\ g.version = f.version
                 /\ g.owner = f.owner /\ (g.drop = "off") = (f.drop = "off")
    <2>1. CASE f.drop = "on" /\ flag' = [flag EXCEPT ![i] = [f EXCEPT !.drop = "due"]]
      <3> DEFINE g == [f EXCEPT !.drop = "due"]
      <3>1. g.version = f.version /\ g.owner = f.owner /\ (g.drop = "off") = (f.drop = "off")
        BY <1>1, <2>1 DEF Flag
      <3>2. flag' = [flag EXCEPT ![i] = g]
        BY <2>1
      <3> HIDE DEF g
      <3>3. QED
        BY <3>1, <3>2
    <2>2. CASE flag' = [flag EXCEPT ![i] = [f EXCEPT !.invis = "due"]]
      <3> DEFINE g == [f EXCEPT !.invis = "due"]
      <3>1. g.version = f.version /\ g.owner = f.owner /\ g.drop = f.drop
        BY <1>1 DEF Flag
      <3>2. flag' = [flag EXCEPT ![i] = g]
        BY <2>2
      <3> HIDE DEF g
      <3>3. QED
        BY <3>1, <3>2
    <2>3. CASE flag' = [flag EXCEPT ![i] = [f EXCEPT !.hold = "due", !.streak = "due"]]
      <3> DEFINE g == [f EXCEPT !.hold = "due", !.streak = "due"]
      <3>1. g.version = f.version /\ g.owner = f.owner /\ g.drop = f.drop
        BY <1>1 DEF Flag
      <3>2. flag' = [flag EXCEPT ![i] = g]
        BY <2>3
      <3> HIDE DEF g
      <3>3. QED
        BY <3>1, <3>2
    <2>4. CASE flag' = [flag EXCEPT ![i] = [f EXCEPT !.streak = "due"]]
      <3> DEFINE g == [f EXCEPT !.streak = "due"]
      <3>1. g.version = f.version /\ g.owner = f.owner /\ g.drop = f.drop
        BY <1>1 DEF Flag
      <3>2. flag' = [flag EXCEPT ![i] = g]
        BY <2>4
      <3> HIDE DEF g
      <3>3. QED
        BY <3>1, <3>2
    <2>5. QED
      BY <2>1, <2>2, <2>3, <2>4 DEF Tick
  <1>4. \A j \in Flags : Grows(j)
    BY <1>3, OneFlagGrows DEF Inv
  <1>5. \A j \in Flags : ~Moved(j)
    BY <1>3 DEF Moved, Inv, CtfTypeOK
  <1>6. QED
    BY <1>2, <1>4, <1>5, SamePlayers DEF Orderly, Follows

LEMMA UpdateOrderly ==
    ASSUME Inv, UpdateFlags \/ \E i \in Flags : UpdateHold(i)
    PROVE  Orderly
  <1>1. UNCHANGED <<fighter, gotflags>> /\ Track({})
    BY DEF UpdateFlags, UpdateHold, ScoreFlag
  <1>2. CASE UpdateFlags
    <2>1. ASSUME NEW i \in Flags
          PROVE  Grows(i)
      <3>1. flag[i] \in Flag /\ flag[i].version \in Nat /\ InvisAtHome \in Timer
        BY DEF Inv, CtfTypeOK, Flag, InvisAtHome, Timer
      <3> DEFINE g == [flag[i] EXCEPT !.invis = "off"]
      <3>2. g.version = flag[i].version /\ g.owner = flag[i].owner /\ g.drop = flag[i].drop
        BY <3>1 DEF Flag
      <3>3. flag'[i] \in {Returned(flag[i], InvisAtHome), g, flag[i]}
        <4>1. CASE Resets(i)
          BY <1>2, <4>1, Zenon DEF UpdateFlags
        <4>2. CASE ~Resets(i) /\ flag[i].invis = "due"
          BY <1>2, <4>2, Zenon DEF UpdateFlags
        <4>3. CASE ~Resets(i) /\ flag[i].invis # "due"
          BY <1>2, <4>3, Zenon DEF UpdateFlags
        <4>4. QED
          BY <4>1, <4>2, <4>3
      <3> HIDE DEF g
      <3>4. Returned(flag[i], InvisAtHome).version = flag[i].version + 1
        BY <3>1, ReturnedFlag
      <3>5. QED
        BY <3>1, <3>2, <3>3, <3>4 DEF Grows, Moved
    <2>2. QED
      BY <1>1, <2>1, SamePlayers DEF Orderly, Follows
  <1>3. ASSUME NEW i \in Flags, UpdateHold(i)
        PROVE  Orderly
    <2>1. flag[i] \in Flag /\ "off" \in Timer
      BY DEF Inv, CtfTypeOK, Timer
    <2>2. Returned(flag[i], "off").version = flag[i].version + 1
      BY <2>1, ReturnedFlag
    <2>3. \A j \in Flags : Grows(j)
      BY <1>3, <2>2, OneFlagGrows DEF UpdateHold, Inv
    <2>4. QED
      BY <1>1, <2>3, SamePlayers DEF Orderly, Follows
  <1>4. QED
    BY <1>2, <1>3

LEMMA NextOrderly ==
    ASSUME Inv, [CtfNext]_ctfvars
    PROVE  Orderly \/ ParseFlags
              \/ \E known \in BOOLEAN, teams \in [CtfClients -> CtfTeams] : CtfChangeMap(known, teams)
  <1>1. CASE UNCHANGED <<fighter, flag, gotflags, sent>>
    BY <1>1, StillFlags, SamePlayers DEF Orderly, Follows, Inv
  <1>2. CASE UNCHANGED ctfvars \/ CtfEndOfTime \/ CtfReopen
    BY <1>1, <1>2 DEF ctfvars, CtfEndOfTime, CtfReopen
  <1>3. ASSUME NEW c \in CtfClients,
               \E state \in {"dead", "spectator"}, t \in CtfTeams : CtfJoin(c, state, t)
        PROVE  Orderly
    BY <1>3, PlayersOrderly
  <1>4. ASSUME NEW c \in CtfClients, NEW inbase \in BOOLEAN,
               \/ CtfLeave(c, inbase)
               \/ CtfSpectate(c, inbase)
               \/ TryDropFlag(c, inbase)
               \/ \E actor \in CtfClients \cup {NoClient} : CtfDie(c, actor, inbase)
               \/ \E t \in CtfTeams : CtfSwitchTeam(c, t, inbase) \/ BalanceBot(c, t, inbase)
        PROVE  Orderly
    <2>1. "good" \in CtfTeams
      BY DEF CtfTeams
    <2>2. QED
      BY <1>4, <2>1, FallOrderly
  <1>5. ASSUME NEW c \in CtfClients, CtfUnspectate(c) \/ CtfSpawn(c) \/ Slay(c) \/ TakeFlag(c)
        PROVE  Orderly
    BY <1>5, PlayersOrderly, TakeOrderly
  <1>6. ASSUME NEW c \in CtfClients, NEW i \in Flags, SendTake(c, i)
        PROVE  Orderly
    BY <1>6, SendOrderly
  <1>7. ASSUME NEW c \in CtfClients, NEW d \in CtfClients, PassFlag(c, d)
        PROVE  Orderly
    BY <1>7, PassOrderly
  <1>8. ASSUME NEW i \in Flags, Tick(i) \/ UpdateHold(i)
        PROVE  Orderly
    BY <1>8, TickOrderly, UpdateOrderly
  <1>9. QED
    BY <1>2, <1>3, <1>4, <1>5, <1>6, <1>7, <1>8, UpdateOrderly DEF CtfNext

\* A message of a living client is about a flag of this map, and about an older
\* version of it when the flag has moved since.
Fresh(c) == sent[c] # NoTake /\ Alive(c) =>
                /\ gotflags
                /\ sent[c].version <= flag[sent[c].flag].version
                /\ sent[c].stale => sent[c].version < flag[sent[c].flag].version

FreshInv == Inv /\ \A c \in CtfClients : Fresh(c)

LEMMA OrderlyFresh ==
    ASSUME FreshInv, Orderly, NEW c \in CtfClients, CtfTypeOK'
    PROVE  Fresh(c)'
  <1> SUFFICES ASSUME sent'[c] # NoTake, Alive(c)'
               PROVE  /\ gotflags'
                      /\ sent'[c].version <= flag'[sent'[c].flag].version
                      /\ sent'[c].stale => sent'[c].version < flag'[sent'[c].flag].version
    BY DEF Fresh
  <1>1. \A i \in Flags : flag[i].version \in Nat /\ flag'[i].version \in Nat /\ Grows(i)
    BY DEF Orderly, FreshInv, Inv, CtfTypeOK, Flag
  <1>2. CASE \E S : Track(S)
    <2>1. sent[c] # NoTake /\ Alive(c)
      BY <1>2 DEF Track, Orderly, Wakes
    <2> DEFINE i == sent[c].flag
    <2>2. i \in Flags /\ sent[c].version \in Nat
      BY <2>1 DEF FreshInv, Inv, CtfTypeOK, Take
    <2> DEFINE x == sent[c].stale \/ Moved(i)
    <2>3. sent'[c] = [flag |-> i, version |-> sent[c].version, stale |-> x]
      <3>1. PICK S : Track(S)
        BY <1>2
      <3>2. c \notin S
        BY <3>1 DEF Track
      <3>3. QED
        BY <2>1, <3>1, <3>2, Zenon DEF Track
    <2> HIDE DEF x
    <2>6. sent'[c].flag = i /\ sent'[c].version = sent[c].version /\ sent'[c].stale = x
      BY <2>3
    <2>7. x => sent[c].stale \/ Moved(i)
      BY DEF x
    <2>4. /\ gotflags /\ sent[c].version <= flag[i].version
          /\ sent[c].stale => sent[c].version < flag[i].version
      BY <2>1 DEF FreshInv, Fresh
    <2>5. QED
      BY <1>1, <2>2, <2>4, <2>6, <2>7 DEF Grows, Orderly
  <1>3. CASE sent'[c] = sent[c] /\ \A i \in Flags : ~Moved(i)
    <2>1. sent[c] # NoTake /\ Alive(c)
      BY <1>3 DEF Orderly, Wakes
    <2> DEFINE i == sent[c].flag
    <2>2. i \in Flags /\ sent[c].version \in Nat
      BY <2>1 DEF FreshInv, Inv, CtfTypeOK, Take
    <2>3. /\ gotflags /\ sent[c].version <= flag[i].version
          /\ sent[c].stale => sent[c].version < flag[i].version
      BY <2>1 DEF FreshInv, Fresh
    <2>4. QED
      BY <1>1, <1>3, <2>2, <2>3 DEF Grows, Orderly
  <1>5. ASSUME NEW d \in CtfClients, NEW i \in Flags, SendTake(d, i)
        PROVE  /\ gotflags'
               /\ sent'[c].version <= flag'[sent'[c].flag].version
               /\ sent'[c].stale => sent'[c].version < flag'[sent'[c].flag].version
    <2>1. UNCHANGED flag /\ gotflags' /\ gotflags
      BY <1>5 DEF SendTake, game
    <2>2. CASE c = d
      BY <1>1, <1>5, <2>1, <2>2 DEF SendTake, FreshInv, Inv, CtfTypeOK
    <2>3. CASE c # d
      BY <1>3, <1>5, <2>1, <2>3, StillFlags DEF SendTake, FreshInv, Inv, CtfTypeOK
    <2>4. QED
      BY <2>2, <2>3
  <1>6. CASE UNCHANGED sent /\ \A i \in Flags : ~Moved(i)
    BY <1>3, <1>6
  <1>7. QED
    BY <1>2, <1>5, <1>6 DEF Orderly, Follows

\* ParseFlags restarts the versions, but then no message is under way from a
\* living client; changemap leaves nobody alive.
LEMMA NextFresh ==
    ASSUME FreshInv, [CtfNext]_ctfvars
    PROVE  FreshInv'
  <1>1. Inv'
    BY NextInv DEF FreshInv
  <1>2. ASSUME NEW c \in CtfClients
        PROVE  Fresh(c)'
    <2>1. CASE Orderly
      BY <1>1, <2>1, OrderlyFresh DEF Inv
    <2>2. CASE ParseFlags
      BY <2>2 DEF ParseFlags, FreshInv, Fresh, Alive
    <2>3. ASSUME NEW known \in BOOLEAN, NEW teams \in [CtfClients -> CtfTeams], CtfChangeMap(known, teams)
          PROVE  ~Alive(c)'
      BY <2>3 DEF CtfChangeMap, Alive
    <2>4. QED
      BY <2>1, <2>2, <2>3, NextOrderly DEF FreshInv, Fresh
  <1>3. QED
    BY <1>1, <1>2 DEF FreshInv

LEMMA Freshness == CtfSpec => []FreshInv
  <1>1. CtfInit => FreshInv
    BY CtfInitInv DEF CtfInit, FreshInv, Fresh
  <1>2. FreshInv /\ [CtfNext]_ctfvars => FreshInv'
    BY NextFresh
  <1>3. QED
    BY <1>1, <1>2, PTL DEF CtfSpec

\* A message that a step only marks is still there.
LEMMA TrackKeeps ==
    ASSUME CtfTypeOK, NEW c \in CtfClients, sent[c] # NoTake, NEW S, c \notin S, Track(S)
    PROVE  sent'[c] # NoTake
  <1>1. sent[c] \in Take
    BY DEF CtfTypeOK
  <1> DEFINE x == sent[c].stale \/ Moved(sent[c].flag)
  <1>2. sent'[c] = [flag |-> sent[c].flag, version |-> sent[c].version, stale |-> x]
    BY Zenon DEF Track
  <1>3. x \in BOOLEAN
    BY <1>1 DEF Take, Moved
  <1> HIDE DEF x
  <1>4. sent'[c] \in Take
    BY <1>1, <1>2, <1>3 DEF Take
  <1>5. QED
    BY <1>4, NoTakeAssumption

\* Only takeflag ends a message without a change to the players.
LEMMA WhoTakes ==
    ASSUME CtfTypeOK, [CtfNext]_ctfvars, NEW c \in CtfClients,
           sent[c] # NoTake, sent'[c] = NoTake, UNCHANGED fighter
    PROVE  TakeFlag(c)
  <1>1. ASSUME Track({})
        PROVE  FALSE
    BY <1>1, TrackKeeps
  <1>2. ASSUME NEW d \in CtfClients, d # c, Track({d})
        PROVE  FALSE
    BY <1>2, TrackKeeps
  <1>3. CASE UNCHANGED sent
    BY <1>3
  <1>4. ASSUME NEW d \in CtfClients,
               \/ \E state \in {"dead", "spectator"}, t \in CtfTeams : CtfJoin(d, state, t)
               \/ CtfUnspectate(d) \/ CtfSpawn(d) \/ Slay(d)
        PROVE  FALSE
    BY <1>3, <1>4 DEF CtfJoin, CtfUnspectate, CtfSpawn, Slay
  <1>5. ASSUME NEW d \in CtfClients, NEW inbase \in BOOLEAN,
               \/ CtfSpectate(d, inbase)
               \/ TryDropFlag(d, inbase)
               \/ \E actor \in CtfClients \cup {NoClient} : CtfDie(d, actor, inbase)
               \/ \E t \in CtfTeams : CtfSwitchTeam(d, t, inbase) \/ BalanceBot(d, t, inbase)
        PROVE  FALSE
    BY <1>1, <1>3, <1>5 DEF CtfSpectate, TryDropFlag, CtfDie, CtfSwitchTeam, BalanceBot
  <1>6. ASSUME NEW d \in CtfClients, NEW inbase \in BOOLEAN, CtfLeave(d, inbase)
        PROVE  FALSE
    <2>1. fighter'[d].state = "gone" /\ fighter[d].state # "gone"
      BY <1>6 DEF CtfLeave, CtfTypeOK
    <2>2. QED
      BY <2>1
  <1>7. ASSUME NEW d \in CtfClients, TakeFlag(d), d # c
        PROVE  FALSE
    BY <1>2, <1>7 DEF TakeFlag
  <1>8. ASSUME NEW d \in CtfClients, NEW i \in Flags, SendTake(d, i)
        PROVE  FALSE
    BY <1>8 DEF SendTake, CtfTypeOK
  <1>9. ASSUME NEW d \in CtfClients, NEW e \in CtfClients, PassFlag(d, e)
        PROVE  FALSE
    BY <1>1, <1>9 DEF PassFlag
  <1>10. ASSUME NEW i \in Flags, Tick(i) \/ UpdateHold(i)
         PROVE  FALSE
    BY <1>1, <1>3, <1>10 DEF Tick, UpdateHold
  <1>11. ASSUME UpdateFlags \/ CtfEndOfTime \/ CtfReopen \/ ParseFlags
         PROVE  FALSE
    BY <1>1, <1>3, <1>11 DEF UpdateFlags, CtfEndOfTime, CtfReopen, ParseFlags
  <1>12. ASSUME NEW known \in BOOLEAN, NEW teams \in [CtfClients -> CtfTeams], CtfChangeMap(known, teams)
         PROVE  FALSE
    <2>1. sent[c] \in Take
      BY DEF CtfTypeOK
    <2>2. sent'[c] = [flag |-> sent[c].flag, version |-> sent[c].version, stale |-> TRUE]
      BY <1>12, Zenon DEF CtfChangeMap
    <2>3. sent'[c] \in Take
      BY <2>1, <2>2 DEF Take
    <2>4. QED
      BY <2>3, NoTakeAssumption
  <1>13. CASE UNCHANGED ctfvars
    BY <1>3, <1>13 DEF ctfvars
  <1>14. QED
    BY <1>4, <1>5, <1>6, <1>7, <1>8, <1>9, <1>10, <1>11, <1>12, <1>13 DEF CtfNext

-----------------------------------------------------------------------------
(* Who carries, and who scores                                             *)

\* No flag gets an owner it did not have.
Drained == \A i \in Flags : flag'[i].owner \in {flag[i].owner, NoClient}

\* One flag becomes g, whose owner is not new.
LEMMA OneFlagDrained ==
    ASSUME CtfTypeOK, NEW i \in Flags, NEW g, flag' = [flag EXCEPT ![i] = g],
           g.owner \in {flag[i].owner, NoClient}
    PROVE  Drained
  BY DEF CtfTypeOK, Drained

\* Flag i comes to c, who carried none.
Gained(c, i) == /\ Carried(c) = {} /\ flag'[i].owner = c
                /\ \A j \in Flags \ {i} : flag'[j].owner = flag[j].owner

LEMMA FallDrained ==
    ASSUME CtfTypeOK, NEW c \in CtfClients, NEW d \in CtfClients, NEW inbase \in BOOLEAN,
           \/ flag' = [i \in Flags |-> Forgotten(DropAll(c, d, inbase)[i], c)]
           \/ flag' = DropAll(c, d, inbase)
    PROVE  Drained
  <1> SUFFICES ASSUME NEW i \in Flags PROVE flag'[i].owner \in {flag[i].owner, NoClient}
    BY DEF Drained
  <1> DEFINE g == DropAll(c, d, inbase)[i]
  <1>1. g \in Flag /\ g.owner = IF flag[i].owner = c THEN NoClient ELSE flag[i].owner
    BY FallenFlag
  <1>2. flag'[i] = g \/ flag'[i] = Forgotten(g, c)
    OBVIOUS
  <1> HIDE DEF g
  <1>3. QED
    BY <1>1, <1>2, ForgottenFlag

LEMMA PlayersDrained ==
    ASSUME Inv, NEW c \in CtfClients, NEW inbase \in BOOLEAN, NEW t \in CtfTeams,
           \/ CtfLeave(c, inbase)
           \/ CtfSpectate(c, inbase)
           \/ TryDropFlag(c, inbase)
           \/ \E actor \in CtfClients \cup {NoClient} : CtfDie(c, actor, inbase)
           \/ CtfSwitchTeam(c, t, inbase)
           \/ BalanceBot(c, t, inbase)
    PROVE  Drained /\ flagscores' = flagscores
  <1>1. ASSUME UNCHANGED flag
        PROVE  Drained
    BY <1>1 DEF Drained
  <1>2. CASE CtfLeave(c, inbase) \/ CtfSpectate(c, inbase) \/ TryDropFlag(c, inbase)
    BY <1>2, FallDrained DEF CtfLeave, CtfSpectate, TryDropFlag, LeaveGame, game, Inv
  <1>3. ASSUME NEW actor \in CtfClients \cup {NoClient}, CtfDie(c, actor, inbase)
        PROVE  Drained /\ flagscores' = flagscores
    <2> DEFINE d == IF TkPenalty /\ actor # NoClient /\ Mates(actor, c) THEN actor ELSE c
    <2>1. d \in CtfClients
      OBVIOUS
    <2>2. flag' = [i \in Flags |-> Forgotten(DropAll(c, d, inbase)[i], c)]
      BY <1>3, Zenon DEF CtfDie, Died
    <2> HIDE DEF d
    <2>3. QED
      BY <1>3, <2>1, <2>2, FallDrained DEF CtfDie, game, Inv
  <1>4. CASE CtfSwitchTeam(c, t, inbase)
    <2>1. \/ flag' = [i \in Flags |-> Forgotten(DropAll(c, c, inbase)[i], c)]
          \/ UNCHANGED flag
      BY <1>4 DEF CtfSwitchTeam, Died
    <2>2. QED
      BY <1>1, <1>4, <2>1, FallDrained DEF CtfSwitchTeam, game, Inv
  <1>5. CASE BalanceBot(c, t, inbase)
    <2>1. flag' = DropAll(c, c, inbase) \/ UNCHANGED flag
      BY <1>5, Zenon DEF BalanceBot
    <2>2. QED
      BY <1>1, <1>5, <2>1, FallDrained DEF BalanceBot, game, Inv
  <1>6. QED
    BY <1>2, <1>3, <1>4, <1>5

\* What ScoreEarned asks of a point for team t.
Earned(t) == \E j \in Flags :
                /\ flag[j].owner # NoClient /\ flag'[j].owner = NoClient
                /\ flag'[j].drop = "off"
                /\ FlagTeam[j] # t /\ fighter[flag[j].owner].team = t
                /\ \E i \in Flags : FlagTeam[i] = t /\ flag[i].owner = NoClient
                                    /\ flag[i].drop = "off"

\* In ctf a step adds at most a point to a team, which has earned it then, unless
\* somebody was slain and carries a flag of the team he changed to.
Kept == Mode = "ctf" => \A t \in CtfTeams :
           \/ flagscores'[t] = flagscores[t]
           \/ flagscores'[t] = flagscores[t] + 1 /\ (Slaying \/ Earned(t))

LEMMA TakeTheFlagGains ==
    ASSUME Inv, NEW c \in CtfClients, NEW i \in Flags, TakeTheFlag(c, i)
    PROVE  Drained \/ Gained(c, i)
  <1>1. flag[i] \in Flag
    BY DEF Inv, CtfTypeOK
  <1>2. CASE HandsFull(c)
    <2> DEFINE g == Touched(flag[i])
    <2>1. flag' = [flag EXCEPT ![i] = g]
      BY <1>2, Zenon DEF TakeTheFlag
    <2>2. g.owner = flag[i].owner
      BY <1>1, TouchedFlag
    <2> HIDE DEF g
    <2>3. QED
      BY <2>1, <2>2, OneFlagDrained DEF Inv
  <1>3. CASE ~HandsFull(c)
    <2> DEFINE h == Owned(flag[i], c)
               g == Timed(h)
    <2>1. flag' = [flag EXCEPT ![i] = g]
      BY <1>3, Zenon DEF TakeTheFlag
    <2>2. h \in Flag /\ h.owner = c
      BY <1>1, OwnedFlag
    <2> HIDE DEF h
    <2>3. g.owner = c
      BY <2>2, TimedFlag
    <2> HIDE DEF g
    <2>4. QED
      BY <1>3, <2>1, <2>3 DEF Gained, HandsFull, Inv, CtfTypeOK
  <1>4. QED
    BY <1>2, <1>3

\* The goal: flag j of the others, which c carries, goes home, and c's own flag
\* i is there.
LEMMA GoalEarned ==
    ASSUME Inv, NEW c \in CtfClients, NEW i \in Flags, NEW j \in Carried(c),
           Mode = "ctf", ~TakesFlag(c, i), flag[i].owner = NoClient, flag[i].drop = "off",
           flag' = [flag EXCEPT ![j] = Returned(flag[j], "off"), ![i] = Bumped(flag[i])],
           ScoreFlag(c, j)
    PROVE  Drained /\ Kept
  <1>1. /\ flag[i] \in Flag /\ j \in Flags /\ flag[j] \in Flag /\ flag[j].owner = c
        /\ c # NoClient /\ "off" \in Timer
    BY CtfAssumption DEF Inv, CtfTypeOK, Carried, Timer
  <1> DEFINE g == Returned(flag[j], "off")
             h == Bumped(flag[i])
  <1>2. g.owner = NoClient /\ g.drop = "off"
    BY <1>1, ReturnedFlag
  <1>3. h.owner = flag[i].owner
    BY <1>1, BumpedFlag
  <1>4. flag' = [flag EXCEPT ![j] = g, ![i] = h]
    OBVIOUS
  <1> HIDE DEF g, h
  <1>5. i # j
    BY <1>1
  <1>6. flag'[j].owner = NoClient /\ flag'[j].drop = "off"
    BY <1>1, <1>2, <1>4, <1>5 DEF Inv, CtfTypeOK
  <1>7. Drained
    <2> SUFFICES ASSUME NEW k \in Flags PROVE flag'[k].owner \in {flag[k].owner, NoClient}
      BY DEF Drained
    <2>1. CASE k = i
      BY <1>3, <1>4, <2>1 DEF Inv, CtfTypeOK
    <2>2. CASE k = j
      BY <1>6, <2>2
    <2>3. CASE k # i /\ k # j
      BY <1>4, <2>3 DEF Inv, CtfTypeOK
    <2>4. QED
      BY <2>1, <2>2, <2>3
  <1>8. Slaying \/ TakesFlag(c, j)
    BY <1>1 DEF Inv, Sound, Plays
  <1>9. Slaying \/ Earned(fighter[c].team)
    <2>1. CASE TakesFlag(c, j)
      <3>1. FlagTeam[j] # fighter[c].team /\ FlagTeam[i] = fighter[c].team
        BY <2>1 DEF TakesFlag
      <3>2. QED
        BY <1>1, <1>6, <3>1 DEF Earned
    <2>2. QED
      BY <1>8, <2>1
  <1>10. /\ flagscores' = [flagscores EXCEPT ![fighter[c].team] = @ + 1]
         /\ flagscores \in [CtfTeams -> Int]
    BY Zenon DEF ScoreFlag, Inv, CtfTypeOK
  <1>11. ASSUME NEW t \in CtfTeams
         PROVE  \/ flagscores'[t] = flagscores[t]
                \/ flagscores'[t] = flagscores[t] + 1 /\ (Slaying \/ Earned(t))
    <2>1. CASE t = fighter[c].team
      <3>1. flagscores'[t] = flagscores[t] + 1
        BY <1>10, <2>1
      <3>2. Slaying \/ Earned(t)
        BY <1>9, <2>1, Zenon
      <3>3. QED
        BY <3>1, <3>2, Zenon
    <2>2. CASE t # fighter[c].team
      BY <1>10, <2>2
    <2>3. QED
      BY <2>1, <2>2, Zenon
  <1>12. QED
    BY <1>7, <1>11, Zenon DEF Kept

LEMMA TakeFlagOwners ==
    ASSUME Inv, NEW c \in CtfClients, TakeFlag(c)
    PROVE  (Drained \/ \E i \in Flags : Gained(c, i)) /\ Kept
  <1> DEFINE i == sent[c].flag
             v == sent[c].version
             May == MayTouch(c, i, v)
  <1>1. i \in Flags /\ "off" \in Timer /\ InvisAtHome \in Timer
    BY DEF TakeFlag, Inv, CtfTypeOK, Take, Timer, InvisAtHome
  <1>2. flag[i] \in Flag
    BY <1>1 DEF Inv, CtfTypeOK
  <1>3. ASSUME NoScore
        PROVE  Kept
    BY <1>3 DEF NoScore, game, Kept
  <1>4. ASSUME UNCHANGED flag
        PROVE  Drained
    BY <1>4 DEF Drained
  <1>5. ASSUME NEW invis \in Timer, flag' = [flag EXCEPT ![i] = Returned(flag[i], invis)]
        PROVE  Drained
    <2> DEFINE g == Returned(flag[i], invis)
    <2>1. g.owner = NoClient
      BY <1>2, ReturnedFlag
    <2>2. flag' = [flag EXCEPT ![i] = g]
      BY <1>5
    <2> HIDE DEF g
    <2>3. QED
      BY <1>1, <2>1, <2>2, OneFlagDrained DEF Inv
  <1>6. CASE TakeIgnored(c)
    BY <1>3, <1>4, <1>6 DEF TakeIgnored
  <1>7. CASE TakeRefused(c, i, v)
    <2> DEFINE g == Touched(flag[i])
    <2>1. g.owner = flag[i].owner
      BY <1>2, TouchedFlag
    <2>2. flag' = [flag EXCEPT ![i] = g]
      BY <1>7 DEF TakeRefused
    <2> HIDE DEF g
    <2>3. Drained
      BY <1>1, <2>1, <2>2, OneFlagDrained DEF Inv
    <2>4. QED
      BY <1>3, <1>7, <2>3 DEF TakeRefused
  <1>8. CASE TakeTheFlag(c, i)
    <2>1. NoScore
      BY <1>8 DEF TakeTheFlag
    <2>2. QED
      BY <1>1, <1>3, <1>8, <2>1, TakeTheFlagGains
  <1>9. CASE TouchTheirs(c, i)
    <2>1. Kept
      BY <1>9 DEF TouchTheirs, Kept
    <2>2. QED
      BY <1>1, <1>4, <1>5, <1>9, <2>1 DEF TouchTheirs
  <1>10. CASE May /\ TouchOwn(c, i)
    <2>1. Mode = "ctf" /\ ~TakesFlag(c, i) /\ flag[i].owner = NoClient
      BY <1>10 DEF TouchOwn, MayTouch
    <2>2. CASE flag' = [flag EXCEPT ![i] = Returned(flag[i], "off")] /\ NoScore
      BY <1>1, <1>3, <1>5, <2>2
    <2>3. CASE UNCHANGED flag /\ NoScore
      BY <1>3, <1>4, <2>3
    <2>4. CASE /\ flag[i].drop = "off"
               /\ \E j \in Carried(c) :
                     /\ flag' = [flag EXCEPT ![j] = Returned(flag[j], "off"), ![i] = Bumped(flag[i])]
                     /\ ScoreFlag(c, j)
      BY <1>1, <2>1, <2>4, GoalEarned
    <2>5. QED
      BY <1>10, <2>2, <2>3, <2>4, Zenon DEF TouchOwn
  <1> HIDE DEF May
  <1>11. \/ TakeIgnored(c) \/ TakeRefused(c, i, v)
         \/ May /\ (TakeTheFlag(c, i) \/ TouchTheirs(c, i) \/ TouchOwn(c, i))
    BY Zenon DEF TakeFlag, May
  <1>12. QED
    BY <1>6, <1>7, <1>8, <1>9, <1>10, <1>11

LEMMA UpdateDrained ==
    ASSUME Inv, UpdateFlags \/ \E i \in Flags : UpdateHold(i)
    PROVE  Drained /\ Kept
  <1>1. CASE UpdateFlags
    <2>1. ASSUME NEW i \in Flags
          PROVE  flag'[i].owner \in {flag[i].owner, NoClient}
      <3>1. flag[i] \in Flag /\ InvisAtHome \in Timer
        BY DEF Inv, CtfTypeOK, InvisAtHome, Timer
      <3> DEFINE g == [flag[i] EXCEPT !.invis = "off"]
      <3>2. g.owner = flag[i].owner
        BY <3>1 DEF Flag
      <3>3. flag'[i] \in {Returned(flag[i], InvisAtHome), g, flag[i]}
        <4>1. CASE Resets(i)
          BY <1>1, <4>1, Zenon DEF UpdateFlags
        <4>2. CASE ~Resets(i) /\ flag[i].invis = "due"
          BY <1>1, <4>2, Zenon DEF UpdateFlags
        <4>3. CASE ~Resets(i) /\ flag[i].invis # "due"
          BY <1>1, <4>3, Zenon DEF UpdateFlags
        <4>4. QED
          BY <4>1, <4>2, <4>3
      <3> HIDE DEF g
      <3>4. Returned(flag[i], InvisAtHome).owner = NoClient
        BY <3>1, ReturnedFlag
      <3>5. QED
        BY <3>2, <3>3, <3>4
    <2>2. Kept
      <3> SUFFICES ASSUME Mode = "ctf", NEW t \in CtfTeams PROVE flagscores'[t] = flagscores[t]
        BY DEF Kept
      <3>1. QED
        BY <1>1, Zenon DEF UpdateFlags
    <2>3. QED
      BY <2>1, <2>2 DEF Drained
  <1>2. ASSUME NEW i \in Flags, UpdateHold(i)
        PROVE  Drained /\ Kept
    <2>1. flag[i] \in Flag /\ "off" \in Timer
      BY DEF Inv, CtfTypeOK, Timer
    <2>2. Returned(flag[i], "off").owner = NoClient
      BY <2>1, ReturnedFlag
    <2>3. Drained
      BY <1>2, <2>2, OneFlagDrained DEF UpdateHold, Inv
    <2>4. Kept
      BY <1>2 DEF UpdateHold, HoldEnds, Kept
    <2>5. QED
      BY <2>3, <2>4
  <1>3. QED
    BY <1>1, <1>2

\* A map starts with flags at home and without points.
Afresh == flag' = [i \in Flags |-> NewFlag] /\ (flagscores' = flagscores \/ flagscores' = [t \in CtfTeams |-> 0])

\* What the steps do to owners and points: only takeflag and pass_flag give a
\* flag to somebody.
LEMMA NextOwners ==
    ASSUME Inv, [CtfNext]_ctfvars
    PROVE  \/ Afresh
           \/ /\ \/ Drained
                 \/ \E c \in CtfClients, i \in Flags : Gained(c, i)
                 \/ Rugby
              /\ Kept
  <1>1. ASSUME UNCHANGED flagscores
        PROVE  Kept
    BY <1>1 DEF Kept
  <1>2. CASE UNCHANGED <<flag, flagscores>>
    BY <1>1, <1>2 DEF Drained
  <1>3. CASE UNCHANGED ctfvars \/ CtfEndOfTime \/ CtfReopen
    BY <1>2, <1>3 DEF ctfvars, CtfEndOfTime, CtfReopen
  <1>4. ASSUME NEW c \in CtfClients,
               \/ \E state \in {"dead", "spectator"}, t \in CtfTeams : CtfJoin(c, state, t)
               \/ CtfUnspectate(c) \/ CtfSpawn(c) \/ Slay(c)
               \/ \E i \in Flags : SendTake(c, i)
        PROVE  Drained /\ Kept
    <2>1. UNCHANGED <<flag, flagscores>>
      BY <1>4 DEF CtfJoin, CtfUnspectate, CtfSpawn, Slay, SendTake, game
    <2>2. QED
      BY <1>1, <2>1 DEF Drained
  <1>5. ASSUME NEW c \in CtfClients, NEW inbase \in BOOLEAN,
               \/ CtfLeave(c, inbase)
               \/ CtfSpectate(c, inbase)
               \/ TryDropFlag(c, inbase)
               \/ \E actor \in CtfClients \cup {NoClient} : CtfDie(c, actor, inbase)
               \/ \E t \in CtfTeams : CtfSwitchTeam(c, t, inbase) \/ BalanceBot(c, t, inbase)
        PROVE  Drained /\ Kept
    <2>1. "good" \in CtfTeams
      BY DEF CtfTeams
    <2>2. QED
      BY <1>1, <1>5, <2>1, PlayersDrained
  <1>6. ASSUME NEW c \in CtfClients, NEW d \in CtfClients, PassFlag(c, d)
        PROVE  Rugby /\ Kept
    BY <1>1, <1>6 DEF PassFlag, NoScore, game
  <1>7. ASSUME NEW i \in Flags, Tick(i)
        PROVE  Drained /\ Kept
    <2>1. \A j \in Flags : ~Moved(j)
      BY <1>7, TickOrderly
    <2>2. UNCHANGED flagscores
      BY <1>7 DEF Tick, game
    <2>3. QED
      BY <1>1, <2>1, <2>2 DEF Drained, Moved
  <1>8. CASE ParseFlags \/ \E known \in BOOLEAN, teams \in [CtfClients -> CtfTeams] : CtfChangeMap(known, teams)
    BY <1>8 DEF ParseFlags, CtfChangeMap, Afresh
  <1>9. QED
    BY <1>3, <1>4, <1>5, <1>6, <1>7, <1>8, TakeFlagOwners, UpdateDrained DEF CtfNext

LEMMA DrainedOneEach ==
    ASSUME Inv, OneFlagEach, Drained
    PROVE  OneFlagEach'
  BY DEF OneFlagEach, Drained

LEMMA GainedOneEach ==
    ASSUME Inv, OneFlagEach, NEW c \in CtfClients, NEW i \in Flags, Gained(c, i)
    PROVE  OneFlagEach'
  <1>1. \A j \in Flags : flag[j].owner # c
    BY DEF Gained, Carried
  <1>2. QED
    BY <1>1 DEF OneFlagEach, Gained

LEMMA AfreshOneEach ==
    ASSUME Afresh
    PROVE  OneFlagEach'
  <1>1. \A i \in Flags : flag'[i].owner = NoClient
    BY DEF Afresh, NewFlag
  <1>2. QED
    BY <1>1 DEF OneFlagEach

-----------------------------------------------------------------------------
(* The time of a flagrun                                                   *)

\* A flag is timed only as long as nobody has dropped it, and until somebody
\* does, the clients remembered for it are its owner and nobody else.
Run(f) == /\ f.timed => ~f.drops
          /\ ~f.drops => f.helpers = IF f.owner = NoClient THEN {} ELSE {f.owner}

Runs == \A i \in Flags : Run(flag[i])

LEMMA OwnedRun ==
    ASSUME NEW f \in Flag, NEW c \in CtfClients, f.owner = NoClient, Run(f)
    PROVE  Run(Timed(Owned(f, c)))
  <1>1. /\ Owned(f, c).owner = c /\ Owned(f, c).helpers = f.helpers \cup {c}
        /\ Owned(f, c).drops = f.drops /\ Owned(f, c).timed = f.timed
    BY Zenon DEF Owned
  <1>2. Owned(f, c) \in Flag /\ c # NoClient
    BY OwnedFlag, CtfAssumption
  <1>3. f.drops \in BOOLEAN
    BY DEF Flag
  <1> DEFINE h == Owned(f, c)
  <1> HIDE DEF h
  <1>4. h \in Flag /\ h.owner = c /\ h.helpers = f.helpers \cup {c}
           /\ h.drops = f.drops /\ h.timed = f.timed
    BY <1>1, <1>2 DEF h
  <1>5. /\ Timed(h).owner = c /\ Timed(h).helpers = f.helpers \cup {c} /\ Timed(h).drops = f.drops
        /\ Timed(h).timed => ~f.drops
    BY <1>4 DEF Timed, Flag, Run
  <1>6. ~f.drops => f.helpers = {}
    BY DEF Run
  <1>7. Run(Timed(h))
    BY <1>2, <1>5, <1>6 DEF Run
  <1>8. QED
    BY <1>7 DEF h

LEMMA FallenRun ==
    ASSUME NEW f \in Flag, NEW d, NEW penalty, NEW invis
    PROVE  Run(Dropped(f, d, penalty)) /\ Run(Returned(f, invis))
  BY DEF Run, Dropped, Returned

\* What is left of a flag's life does not touch its run.
SameRun(f, g) == /\ g.owner = f.owner /\ g.helpers = f.helpers
                 /\ g.drops = f.drops /\ g.timed = f.timed

LEMMA SameRunRuns ==
    ASSUME NEW f, NEW g, Run(f), SameRun(f, g)
    PROVE  Run(g)
  BY DEF Run, SameRun

LEMMA StillRun ==
    ASSUME NEW f \in Flag, NEW c
    PROVE  /\ SameRun(f, Touched(f)) /\ SameRun(f, Bumped(f)) /\ SameRun(f, Forgotten(f, c))
           /\ SameRun(f, [f EXCEPT !.drop = "due"]) /\ SameRun(f, [f EXCEPT !.invis = "due"])
           /\ SameRun(f, [f EXCEPT !.hold = "due", !.streak = "due"])
           /\ SameRun(f, [f EXCEPT !.streak = "due"]) /\ SameRun(f, [f EXCEPT !.invis = "off"])
  BY DEF SameRun, Touched, Bumped, Forgotten, Flag

\* The flags of c fall, and c may be forgotten as their dropper.
LEMMA FallRuns ==
    ASSUME Inv, Runs, NEW c \in CtfClients, NEW d \in CtfClients, NEW inbase \in BOOLEAN,
           \/ flag' = DropAll(c, d, inbase)
           \/ flag' = [i \in Flags |-> Forgotten(DropAll(c, d, inbase)[i], c)]
    PROVE  Runs'
  <1> SUFFICES ASSUME NEW i \in Flags PROVE Run(flag'[i])
    BY DEF Runs
  <1> DEFINE g == DropAll(c, d, inbase)[i]
  <1>1. flag[i] \in Flag /\ Run(flag[i])
    BY DEF Inv, CtfTypeOK, Runs
  <1>2. g \in {flag[i], Returned(flag[i], "off"), Dropped(flag[i], d, d # c)}
    <2>1. CASE flag[i].owner # c
      BY <2>1, Zenon DEF DropAll
    <2>2. CASE flag[i].owner = c /\ Mode = "protect" /\ inbase
      BY <2>2, Zenon DEF DropAll
    <2>3. CASE flag[i].owner = c /\ ~(Mode = "protect" /\ inbase)
      BY <2>3, Zenon DEF DropAll
    <2>4. QED
      BY <2>1, <2>2, <2>3
  <1>3. Run(g)
    BY <1>1, <1>2, FallenRun
  <1>4. g \in Flag
    BY FallenFlag DEF Inv
  <1>5. flag'[i] \in {g, Forgotten(g, c)}
    BY Zenon
  <1> HIDE DEF g
  <1>6. QED
    BY <1>3, <1>4, <1>5, StillRun, SameRunRuns

\* One flag changes, another one if there is a goal.
LEMMA OneRuns ==
    ASSUME Inv, Runs, NEW i \in Flags, NEW g, Run(g), flag' = [flag EXCEPT ![i] = g]
    PROVE  Runs'
  BY DEF Inv, CtfTypeOK, Runs

LEMMA TakeFlagRuns ==
    ASSUME Inv, Runs, NEW c \in CtfClients, TakeFlag(c)
    PROVE  Runs'
  <1> DEFINE i == sent[c].flag
             v == sent[c].version
  <1>1. i \in Flags
    BY DEF TakeFlag, Inv, CtfTypeOK, Take
  <1>2. flag[i] \in Flag /\ Run(flag[i])
    BY <1>1 DEF Inv, CtfTypeOK, Runs
  <1>3. ASSUME UNCHANGED flag
        PROVE  Runs'
    BY <1>3 DEF Runs
  <1>4. ASSUME NEW invis, flag' = [flag EXCEPT ![i] = Returned(flag[i], invis)]
        PROVE  Runs'
    <2> DEFINE g == Returned(flag[i], invis)
    <2>1. Run(g) /\ flag' = [flag EXCEPT ![i] = g]
      BY <1>2, <1>4, FallenRun
    <2> HIDE DEF g
    <2>2. QED
      BY <1>1, <2>1, OneRuns
  <1>5. ASSUME flag' = [flag EXCEPT ![i] = Touched(flag[i])]
        PROVE  Runs'
    <2> DEFINE g == Touched(flag[i])
    <2>1. Run(g) /\ flag' = [flag EXCEPT ![i] = g]
      BY <1>2, <1>5, StillRun, SameRunRuns
    <2> HIDE DEF g
    <2>2. QED
      BY <1>1, <2>1, OneRuns
  <1>6. CASE MayTouch(c, i, v) /\ TakeTheFlag(c, i)
    <2>1. flag[i].owner = NoClient
      BY <1>6 DEF MayTouch
    <2> DEFINE g == Timed(Owned(flag[i], c))
    <2>2. Run(g)
      BY <1>2, <2>1, OwnedRun
    <2>3. \/ flag' = [flag EXCEPT ![i] = Touched(flag[i])]
          \/ flag' = [flag EXCEPT ![i] = g]
      <3>1. CASE HandsFull(c)
        BY <1>6, <3>1, Zenon DEF TakeTheFlag
      <3>2. CASE ~HandsFull(c)
        BY <1>6, <3>2, Zenon DEF TakeTheFlag
      <3>3. QED
        BY <3>1, <3>2
    <2> HIDE DEF g
    <2>4. QED
      BY <1>1, <1>5, <2>2, <2>3, OneRuns
  <1>7. CASE TouchTheirs(c, i)
    BY <1>3, <1>4, <1>7 DEF TouchTheirs
  <1>8. ASSUME NEW j \in Carried(c),
               flag' = [flag EXCEPT ![j] = Returned(flag[j], "off"), ![i] = Bumped(flag[i])]
        PROVE  Runs'
    <2>1. j \in Flags /\ flag[j] \in Flag
      BY DEF Carried, Inv, CtfTypeOK
    <2> DEFINE g == Returned(flag[j], "off")
               h == Bumped(flag[i])
    <2>2. Run(g) /\ Run(h) /\ flag' = [flag EXCEPT ![j] = g, ![i] = h]
      BY <1>2, <1>8, <2>1, FallenRun, StillRun, SameRunRuns
    <2> HIDE DEF g, h
    <2>3. QED
      BY <1>1, <2>1, <2>2 DEF Inv, CtfTypeOK, Runs
  <1>9. CASE TouchOwn(c, i)
    BY <1>3, <1>4, <1>8, <1>9, Zenon DEF TouchOwn
  <1>10. QED
    BY <1>3, <1>5, <1>6, <1>7, <1>9 DEF TakeFlag, TakeIgnored, TakeRefused

LEMMA TimeRuns ==
    ASSUME Inv, Runs, UpdateFlags \/ \E i \in Flags : Tick(i) \/ UpdateHold(i)
    PROVE  Runs'
  <1>1. CASE UpdateFlags
    <2> SUFFICES ASSUME NEW i \in Flags PROVE Run(flag'[i])
      BY DEF Runs
    <2>1. flag[i] \in Flag /\ Run(flag[i])
      BY DEF Inv, CtfTypeOK, Runs
    <2>2. flag'[i] \in {Returned(flag[i], InvisAtHome), [flag[i] EXCEPT !.invis = "off"], flag[i]}
      <3>1. CASE Resets(i)
        BY <1>1, <3>1, Zenon DEF UpdateFlags
      <3>2. CASE ~Resets(i) /\ flag[i].invis = "due"
        BY <1>1, <3>2, Zenon DEF UpdateFlags
      <3>3. CASE ~Resets(i) /\ flag[i].invis # "due"
        BY <1>1, <3>3, Zenon DEF UpdateFlags
      <3>4. QED
        BY <3>1, <3>2, <3>3
    <2>3. QED
      BY <2>1, <2>2, FallenRun, StillRun, SameRunRuns
  <1>2. ASSUME NEW i \in Flags, Tick(i) \/ UpdateHold(i)
        PROVE  Runs'
    <2>1. flag[i] \in Flag /\ Run(flag[i])
      BY DEF Inv, CtfTypeOK, Runs
    <2>2. \E g \in {[flag[i] EXCEPT !.drop = "due"], [flag[i] EXCEPT !.invis = "due"],
                    [flag[i] EXCEPT !.hold = "due", !.streak = "due"],
                    [flag[i] EXCEPT !.streak = "due"], Returned(flag[i], "off")} :
             flag' = [flag EXCEPT ![i] = g]
      BY <1>2 DEF Tick, UpdateHold
    <2>3. PICK g \in {[flag[i] EXCEPT !.drop = "due"], [flag[i] EXCEPT !.invis = "due"],
                      [flag[i] EXCEPT !.hold = "due", !.streak = "due"],
                      [flag[i] EXCEPT !.streak = "due"], Returned(flag[i], "off")} :
             flag' = [flag EXCEPT ![i] = g]
      BY <2>2
    <2>4. Run(g)
      BY <2>1, StillRun, SameRunRuns, FallenRun
    <2>5. QED
      BY <2>3, <2>4, OneRuns
  <1>3. QED
    BY <1>1, <1>2

\* Without a pass, nothing but takeflag gives a flag an owner.
LEMMA NextRuns ==
    ASSUME Inv, Runs, ~Rugby, [CtfNext]_ctfvars
    PROVE  Runs'
  <1>1. CASE UNCHANGED flag
    BY <1>1 DEF Runs
  <1>2. ASSUME NEW c \in CtfClients,
               \/ \E state \in {"dead", "spectator"}, t \in CtfTeams : CtfJoin(c, state, t)
               \/ CtfUnspectate(c) \/ CtfSpawn(c) \/ Slay(c) \/ CtfEndOfTime \/ CtfReopen \/ UNCHANGED ctfvars
               \/ \E i \in Flags : SendTake(c, i)
        PROVE  UNCHANGED flag
    BY <1>2 DEF CtfJoin, CtfUnspectate, CtfSpawn, Slay, SendTake, CtfEndOfTime, CtfReopen, ctfvars
  <1>3. ASSUME NEW c \in CtfClients, NEW inbase \in BOOLEAN,
               \/ CtfLeave(c, inbase)
               \/ CtfSpectate(c, inbase)
               \/ TryDropFlag(c, inbase)
               \/ \E actor \in CtfClients \cup {NoClient} : CtfDie(c, actor, inbase)
               \/ \E t \in CtfTeams : CtfSwitchTeam(c, t, inbase) \/ BalanceBot(c, t, inbase)
        PROVE  Runs'
    <2>1. \/ UNCHANGED flag
          \/ \E d \in CtfClients : \/ flag' = DropAll(c, d, inbase)
                                   \/ flag' = [i \in Flags |-> Forgotten(DropAll(c, d, inbase)[i], c)]
      <3>1. ASSUME NEW actor \in CtfClients \cup {NoClient}, Died(c, actor, inbase)
            PROVE  \E d \in CtfClients : flag' = [i \in Flags |-> Forgotten(DropAll(c, d, inbase)[i], c)]
        <4> DEFINE d == IF TkPenalty /\ actor # NoClient /\ Mates(actor, c) THEN actor ELSE c
        <4>1. d \in CtfClients
          OBVIOUS
        <4>2. flag' = [i \in Flags |-> Forgotten(DropAll(c, d, inbase)[i], c)]
          BY <3>1, Zenon DEF Died
        <4> HIDE DEF d
        <4>3. QED
          BY <4>1, <4>2
      <3>2. CASE CtfLeave(c, inbase) \/ CtfSpectate(c, inbase)
        BY <3>2 DEF CtfLeave, CtfSpectate, LeaveGame
      <3>3. CASE TryDropFlag(c, inbase)
        BY <3>3 DEF TryDropFlag
      <3>4. ASSUME NEW actor \in CtfClients \cup {NoClient}, CtfDie(c, actor, inbase)
            PROVE  \E d \in CtfClients : flag' = [i \in Flags |-> Forgotten(DropAll(c, d, inbase)[i], c)]
        BY <3>1, <3>4 DEF CtfDie
      <3>5. ASSUME NEW t \in CtfTeams, CtfSwitchTeam(c, t, inbase) \/ BalanceBot(c, t, inbase)
            PROVE  \/ UNCHANGED flag
                   \/ \E d \in CtfClients :
                         \/ flag' = DropAll(c, d, inbase)
                         \/ flag' = [i \in Flags |-> Forgotten(DropAll(c, d, inbase)[i], c)]
        <4>1. CASE CtfSwitchTeam(c, t, inbase) /\ Alive(c)
          BY <3>1, <4>1, Zenon DEF CtfSwitchTeam
        <4>2. CASE CtfSwitchTeam(c, t, inbase) /\ ~Alive(c)
          BY <4>2, Zenon DEF CtfSwitchTeam
        <4>3. CASE BalanceBot(c, t, inbase)
          BY <4>3, Zenon DEF BalanceBot
        <4>4. QED
          BY <3>5, <4>1, <4>2, <4>3
      <3>6. QED
        BY <1>3, <3>2, <3>3, <3>4, <3>5
    <2>2. QED
      BY <1>1, <2>1, FallRuns
  <1>4. CASE ParseFlags \/ \E known \in BOOLEAN, teams \in [CtfClients -> CtfTeams] : CtfChangeMap(known, teams)
    <2>1. \A i \in Flags : flag'[i] = NewFlag
      BY <1>4 DEF ParseFlags, CtfChangeMap
    <2>2. Run(NewFlag)
      BY DEF Run, NewFlag
    <2>3. QED
      BY <2>1, <2>2 DEF Runs
  <1>5. CASE CtfEndOfTime \/ CtfReopen \/ UNCHANGED ctfvars
    BY <1>1, <1>5 DEF CtfEndOfTime, CtfReopen, ctfvars
  <1>6. ASSUME NEW c \in CtfClients, NEW d \in CtfClients, PassFlag(c, d)
        PROVE  FALSE
    BY <1>6 DEF PassFlag
  <1>7. QED
    BY <1>1, <1>2, <1>3, <1>4, <1>5, <1>6, TakeFlagRuns, TimeRuns DEF CtfNext

\* The points only sink in protect.
Positive == \A t \in CtfTeams : flagscores[t] >= 0

\* Who scores with flag j: at the goal, or by holding it long enough.
Home(j) == /\ flag[j].owner # NoClient /\ report'.timed = flag[j].timed
           /\ \A i \in Flags : flag[i].owner # NoClient /\ flag'[i].owner = NoClient => i = j

LEMMA GoalHome ==
    ASSUME Inv, NEW c \in CtfClients, NEW i \in Flags, NEW j \in Carried(c), flag[i].owner = NoClient,
           flag' = [flag EXCEPT ![j] = Returned(flag[j], "off"), ![i] = Bumped(flag[i])],
           ScoreFlag(c, j)
    PROVE  Home(j)
  <1>1. j \in Flags /\ flag[j].owner = c /\ c # NoClient
    BY CtfAssumption DEF Carried
  <1>2. report'.timed = flag[j].timed
    BY DEF ScoreFlag
  <1>3. ASSUME NEW k \in Flags, k # j, flag[k].owner # NoClient
        PROVE  flag'[k] = flag[k]
    BY <1>1, <1>3 DEF Inv, CtfTypeOK
  <1>4. QED
    BY <1>1, <1>2, <1>3 DEF Home

LEMMA NextScores ==
    ASSUME Inv, Positive, Mode # "protect", [CtfNext]_ctfvars
    PROVE  /\ Positive'
           /\ (\E t \in CtfTeams : flagscores'[t] > flagscores[t]) => \E j \in Flags : Home(j)
  <1> DEFINE Same == Positive' /\ \A t \in CtfTeams : ~(flagscores'[t] > flagscores[t])
             Goal == Positive' /\ \E j \in Flags : Home(j)
  <1>1. \A t \in CtfTeams : flagscores[t] \in Int /\ flagscores[t] >= 0
    BY DEF Positive, Inv, CtfTypeOK
  <1>2. ASSUME UNCHANGED flagscores
        PROVE  Same
    BY <1>1, <1>2 DEF Positive
  <1>3. ASSUME flagscores' = [t \in CtfTeams |-> 0]
        PROVE  Same
    BY <1>1, <1>3 DEF Positive
  <1>4. ASSUME NEW c \in CtfClients, NEW j \in Flags, ScoreFlag(c, j)
        PROVE  Positive'
    <2>1. flagscores' = [flagscores EXCEPT ![fighter[c].team] = @ + 1]
      BY <1>4, Zenon DEF ScoreFlag
    <2>2. QED
      BY <1>1, <2>1 DEF Positive, Inv, CtfTypeOK
  <1>5. ASSUME NEW c \in CtfClients, TakeFlag(c)
        PROVE  Same \/ Goal
    <2> DEFINE i == sent[c].flag
    <2>1. i \in Flags
      BY <1>5 DEF TakeFlag, Inv, CtfTypeOK, Take
    <2>2. ASSUME MayTouch(c, i, sent[c].version), NEW j \in Carried(c),
                 flag' = [flag EXCEPT ![j] = Returned(flag[j], "off"), ![i] = Bumped(flag[i])],
                 ScoreFlag(c, j)
          PROVE  Goal
      <3>1. j \in Flags /\ flag[i].owner = NoClient
        BY <2>2 DEF Carried, MayTouch
      <3>2. Home(j)
        BY <2>1, <2>2, <3>1, GoalHome
      <3>3. QED
        BY <1>4, <2>2, <3>1, <3>2
    <2>3. ASSUME NoScore
          PROVE  Same
      BY <1>2, <2>3 DEF NoScore, game
    <2>4. ~TouchTheirs(c, i)
      BY DEF TouchTheirs
    <2>5. MayTouch(c, i, sent[c].version) /\ TouchOwn(c, i) => Same \/ Goal
      BY <2>2, <2>3, Zenon DEF TouchOwn
    <2> HIDE DEF Same, Goal
    <2>6. QED
      BY <1>5, <2>3, <2>4, <2>5 DEF TakeFlag, TakeIgnored, TakeRefused, TakeTheFlag
  <1>6. ASSUME NEW i \in Flags, UpdateHold(i)
        PROVE  Goal
    <2>1. flag[i].owner \in CtfClients /\ flag[i].owner # NoClient
      BY <1>6 DEF UpdateHold, HoldEnds, Inv, CtfTypeOK, Flag
    <2>2. Positive'
      BY <1>4, <1>6, <2>1 DEF UpdateHold
    <2>3. report'.timed = flag[i].timed
      BY <1>6 DEF UpdateHold, ScoreFlag
    <2>4. ASSUME NEW k \in Flags, k # i
          PROVE  flag'[k] = flag[k]
      BY <1>6, <2>4 DEF UpdateHold, Inv, CtfTypeOK
    <2>5. QED
      BY <2>1, <2>2, <2>3, <2>4 DEF Home
  <1>7. ASSUME UpdateFlags
        PROVE  Same
    <2>1. \A t \in CtfTeams : flagscores'[t] = flagscores[t]
      BY <1>7, Zenon DEF UpdateFlags
    <2>2. QED
      BY <1>1, <2>1 DEF Positive
  <1> HIDE DEF Goal
  <1>8. ASSUME NEW c \in CtfClients, NEW inbase \in BOOLEAN,
               \/ CtfLeave(c, inbase) \/ CtfSpectate(c, inbase) \/ TryDropFlag(c, inbase)
               \/ \E actor \in CtfClients \cup {NoClient} : CtfDie(c, actor, inbase)
               \/ \E t \in CtfTeams : CtfSwitchTeam(c, t, inbase) \/ BalanceBot(c, t, inbase)
               \/ \E state \in {"dead", "spectator"}, t \in CtfTeams : CtfJoin(c, state, t)
               \/ CtfUnspectate(c) \/ CtfSpawn(c) \/ Slay(c)
               \/ \E i \in Flags : SendTake(c, i)
               \/ \E d \in CtfClients : PassFlag(c, d)
        PROVE  UNCHANGED flagscores
    BY <1>8 DEF CtfLeave, CtfSpectate, TryDropFlag, CtfDie, CtfSwitchTeam, BalanceBot, CtfJoin, CtfUnspectate, CtfSpawn,
                Slay, SendTake, PassFlag, NoScore, game
  <1>9. ASSUME CtfEndOfTime \/ CtfReopen \/ ParseFlags \/ UNCHANGED ctfvars \/ \E i \in Flags : Tick(i)
        PROVE  Same
    BY <1>2, <1>9 DEF CtfEndOfTime, CtfReopen, ParseFlags, ctfvars, Tick, game
  <1>10. ASSUME NEW known \in BOOLEAN, NEW teams \in [CtfClients -> CtfTeams], CtfChangeMap(known, teams)
         PROVE  Same
    BY <1>3, <1>10 DEF CtfChangeMap
  <1>11. Same \/ Goal
    <2>1. TRUE \in BOOLEAN
      OBVIOUS
    <2> HIDE DEF Same
    <2>2. QED
      BY <1>2, <1>5, <1>6, <1>7, <1>8, <1>9, <1>10, <2>1 DEF CtfNext
  <1>12. QED
    BY <1>11 DEF Goal

-----------------------------------------------------------------------------
(* Theorems                                                                *)

\* CtfTyped: the state is made of the values the code stores, in every mode
\* of ctfservmode, with any number of clients and flags.
THEOREM CtfTyped == CtfSpec => []CtfTypeOK
  <1>1. Inv => CtfTypeOK
    BY DEF Inv
  <1>2. QED
    BY <1>1, Invariance, PTL

\* CarriersPlay: leavegame, died and dropflag are called wherever they are
\* needed: whoever carries a flag is on the server and alive, unless an
\* administrator uses player_slay.
THEOREM CarriersPlay ==
    ASSUME ~Slaying
    PROVE  CtfSpec => []CarrierPlays
  <1>1. Inv => CarrierPlays
    BY DEF Inv, Sound, Plays, CarrierPlays
  <1>2. QED
    BY <1>1, Invariance, PTL

\* CarriersInRightTeam: no order of deaths, team changes, bot balancing, passes
\* and stale N_TAKEFLAG messages gives a flag to a team that takeflag keeps it
\* from.
THEOREM CarriersInRightTeam ==
    ASSUME ~Slaying
    PROVE  CtfSpec => []RightTeam
  <1>1. Inv => RightTeam
    BY DEF Inv, Sound, Plays, RightTeam
  <1>2. QED
    BY <1>1, Invariance, PTL

\* FlagDroppersArePresent: a flag never bars a client number whose player has left,
\* or whose flag it was not: the next client with that number may take it.
THEOREM FlagDroppersArePresent == CtfSpec => []DropperPresent
  <1>1. Inv => DropperPresent
    BY DEF Inv, Sound, DropperPresent
  <1>2. QED
    BY <1>1, Invariance, PTL

\* VersionsGrow: whoever takes, drops or returns a flag gives it a new version,
\* in all of takeflag, dropflag, scoreflag, update and pass_flag.
THEOREM VersionsGrow == CtfSpec => PlaceVersioned
  <1>1. Inv /\ [CtfNext]_ctfvars =>
          [flag' # [i \in Flags |-> NewFlag] =>
             \A i \in Flags : Moved(i) => flag'[i].version > flag[i].version]_ctfvars
    <2> SUFFICES ASSUME Inv, [CtfNext]_ctfvars, flag' # [i \in Flags |-> NewFlag]
                 PROVE  \A i \in Flags : Moved(i) => flag'[i].version > flag[i].version
      OBVIOUS
    <2>1. Orderly
      BY NextOrderly DEF ParseFlags, CtfChangeMap
    <2>2. QED
      BY <2>1 DEF Orderly, Grows
  <1>2. QED
    BY <1>1, Invariance, PTL DEF CtfSpec, PlaceVersioned

\* TakesAreFresh: however long an N_TAKEFLAG is under way, takeflag acts on it
\* only while the flag is where the client saw it, on the map it was sent on:
\* the version check and the FIFO order of a client's messages suffice.
THEOREM TakesAreFresh == CtfSpec => TakeIsFresh
  <1>1. FreshInv /\ [CtfNext]_ctfvars =>
          [\A c \in CtfClients :
             sent[c] # NoTake /\ sent'[c] = NoTake /\ c \in CtfPresent /\ fighter' = fighter /\ sent[c].stale
                => \A i \in Flags : ~Moved(i) /\ flag'[i].version = flag[i].version]_ctfvars
    <2> SUFFICES ASSUME FreshInv, [CtfNext]_ctfvars, NEW c \in CtfClients,
                        sent[c] # NoTake, sent'[c] = NoTake, fighter' = fighter, sent[c].stale
                 PROVE  \A i \in Flags : ~Moved(i) /\ flag'[i].version = flag[i].version
      OBVIOUS
    <2>1. TakeFlag(c)
      BY WhoTakes DEF FreshInv, Inv
    <2>2. CASE MayTouch(c, sent[c].flag, sent[c].version)
      <3>1. Alive(c) /\ flag[sent[c].flag].version = sent[c].version
        BY <2>2 DEF MayTouch
      <3>2. sent[c].version < flag[sent[c].flag].version
        BY <3>1 DEF FreshInv, Fresh
      <3>3. sent[c].version \in Nat
        BY DEF FreshInv, Inv, CtfTypeOK, Take
      <3>4. QED
        BY <3>1, <3>2, <3>3
    <2>3. QED
      BY <2>1, <2>2, TakeOrderly DEF FreshInv
  <1>2. QED
    BY <1>1, Freshness, PTL DEF CtfSpec, TakeIsFresh

\* NobodyCarriesTwo: without the rugby module takeflag, which looks for a flag in
\* the client's hands first, is the only way to a flag, so that nobody carries
\* two and dropflag, scoreflag and takeflag mean the same one.
THEOREM NobodyCarriesTwo ==
    ASSUME ~Rugby
    PROVE  CtfSpec => []OneFlagEach
  <1>1. CtfInit => OneFlagEach
    <2> SUFFICES ASSUME CtfInit PROVE \A i \in Flags : flag[i].owner = NoClient
      BY DEF OneFlagEach
    <2>1. QED
      BY DEF CtfInit, NewFlag
  <1>2. Inv /\ OneFlagEach /\ [CtfNext]_ctfvars => OneFlagEach'
    BY NextOwners, DrainedOneEach, GainedOneEach, AfreshOneEach
  <1>3. QED
    BY <1>1, <1>2, Invariance, PTL DEF CtfSpec

\* PointsAreEarned: in ctf, whatever was dropped, returned or passed before, a
\* point goes to the team of a player who carries a flag of the others, with a
\* flag of his own at home, and the carried flag is at home then.
THEOREM PointsAreEarned ==
    ASSUME ~Slaying
    PROVE  CtfSpec => ScoreEarned
  <1> DEFINE Points == Mode = "ctf" => \A t \in CtfTeams : flagscores[t] >= 0
  <1>1. CtfInit => Points
    BY DEF CtfInit
  <1>2. Inv /\ Points /\ [CtfNext]_ctfvars => Points'
    <2> SUFFICES ASSUME Inv, Points, [CtfNext]_ctfvars, Mode = "ctf", NEW t \in CtfTeams
                 PROVE  flagscores'[t] >= 0
      OBVIOUS
    <2>1. flagscores[t] \in Int /\ flagscores[t] >= 0
      BY DEF Inv, CtfTypeOK
    <2>2. QED
      BY <2>1, NextOwners DEF Afresh, Kept
  <1>3. Inv /\ Points /\ [CtfNext]_ctfvars =>
          [\A t \in CtfTeams : Mode = "ctf" /\ flagscores'[t] > flagscores[t] => Earned(t)]_ctfvars
    <2> SUFFICES ASSUME Inv, Points, [CtfNext]_ctfvars, NEW t \in CtfTeams, Mode = "ctf",
                        flagscores'[t] > flagscores[t]
                 PROVE  Earned(t)
      OBVIOUS
    <2>1. flagscores[t] \in Int /\ flagscores[t] >= 0
      BY DEF Inv, CtfTypeOK
    <2>2. QED
      BY <2>1, NextOwners DEF Afresh, Kept
  <1> HIDE DEF Points
  <1>4. QED
    BY <1>1, <1>2, <1>3, Invariance, PTL DEF CtfSpec, ScoreEarned, Earned

\* CarriersArePresent: whatever player_slay does, the owner of a flag is on the
\* server: ownflag and anticheat, which look the owner up without a check, find
\* him.
THEOREM CarriersArePresent ==
    CtfSpec => [](\A i \in Flags : flag[i].owner # NoClient => flag[i].owner \in CtfPresent)
  <1>1. Inv => \A i \in Flags : flag[i].owner # NoClient => flag[i].owner \in CtfPresent
    BY DEF Inv, Sound, Plays
  <1>2. QED
    BY <1>1, Invariance, PTL

\* FlagrunsAreHonest: without passes the time of a flagrun that scoreflag reports
\* in ctf and hold was run by the one player who carried the flag: scoreflag
\* clearing used_rugby before it triggers the event does no harm then.
THEOREM FlagrunsAreHonest ==
    ASSUME ~Rugby, Mode # "protect"
    PROVE  CtfSpec => FlagrunHonest
  <1> DEFINE Honest == \A i \in Flags :
                          Scores(i) /\ report'.timed /\ ~report'.used_rugby
                            => flag[i].helpers = {flag[i].owner}
  <1>1. CtfInit => Runs /\ Positive
    <2> SUFFICES ASSUME CtfInit PROVE Runs /\ Positive
      OBVIOUS
    <2>1. Run(NewFlag)
      BY DEF Run, NewFlag
    <2>2. QED
      BY <2>1 DEF CtfInit, Runs, Positive
  <1>2. Inv /\ Runs /\ Positive /\ [CtfNext]_ctfvars => Runs' /\ Positive'
    BY NextRuns, NextScores
  <1>3. Inv /\ Runs /\ Positive /\ [CtfNext]_ctfvars => [Honest]_ctfvars
    <2> SUFFICES ASSUME Inv, Runs, Positive, [CtfNext]_ctfvars, NEW i \in Flags,
                        Scores(i), report'.timed
                 PROVE  flag[i].helpers = {flag[i].owner}
      OBVIOUS
    <2>1. PICK j \in Flags : Home(j)
      BY NextScores DEF Scores
    <2>2. i = j /\ flag[i].owner # NoClient /\ flag[i].timed
      BY <2>1 DEF Home, Scores
    <2>3. Run(flag[i])
      BY DEF Runs
    <2>4. QED
      BY <2>2, <2>3 DEF Run
  <1>4. QED
    BY <1>1, <1>2, <1>3, Invariance, PTL DEF CtfSpec, FlagrunHonest
=============================================================================
