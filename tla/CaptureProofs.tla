---------------------------- MODULE CaptureProofs ----------------------------
(***************************************************************************)
(* Proofs about Capture for any players, teams and bases: the counters of  *)
(* a base never exceed the players who stand in it and those who left it   *)
(* while the time was up, the ghosts.  They assume that the map has no     *)
(* gameclip material inside a base (stealbase counts who stands there,     *)
(* enter and leave do not) and that no script slays players behind the     *)
(* mode's back.  At the end, what the run game puts side by side is the    *)
(* match and the capture mode.                                             *)
(***************************************************************************)
EXTENDS MCGame, MatchProofs, FiniteSetTheorems, TLAPS

\* What the code takes for granted of names, numbers and the two limits.
Parameters ==
    /\ IsFiniteSet(Players)
    /\ NoTeam \notin Teams /\ Away \notin Bases
    /\ EnemyLimit \in Nat /\ NeutralLimit \in Nat

\* No gameclip in a base, and no player_slay without an actor.
Plain == Clip = FALSE /\ Slaying = FALSE

AnyTeam == Teams \cup {NoTeam}

\* baseinfo
Base == [owner : AnyTeam, enemy : AnyTeam, owners : Nat, enemies : Nat,
         converted : 0 .. MaxConverted]

\* Whom each base may count for each team.
Crowds == [b \in Bases |-> [t \in AnyTeam |-> Crowd(b, t)]]

Spectres == [Bases -> [AnyTeam -> Nat]]

\* The counters of r count at most those of "crowd", each team by one of them.
Fair(r, crowd) ==
    /\ r.owners <= crowd[r.owner] /\ r.enemies <= crowd[r.enemy]
    /\ r.enemy # NoTeam => r.enemy # r.owner

AllFair == \A b \in Bases : Fair(base[b], Crowds[b])

\* Until a client tells the bases there is nothing to count with.
Unknown == notgotbases => \A b \in Bases : base[b] = Neutral

Lives == [Players -> {NotAlive} \cup [team : Teams, at : Places, gameclip : {FALSE, Clip}]]

CaptureInv == CaptureTypeOK /\ Unknown /\ AllFair

-----------------------------------------------------------------------------
(* One base                                                                *)

LEMMA EnterFair ==
    ASSUME Parameters, NEW r \in Base, NEW team \in Teams,
           NEW m \in [AnyTeam -> Nat], NEW n \in [AnyTeam -> Nat], Fair(r, m),
           n[team] = m[team] + 1, \A t \in AnyTeam \ {team} : n[t] = m[t]
    PROVE  Enter(r, team) \in Base /\ Fair(Enter(r, team), n)
  <1>1. team \in AnyTeam /\ r.owner \in AnyTeam /\ r.enemy \in AnyTeam
        /\ r.owners \in Nat /\ r.enemies \in Nat /\ 0 \in 0 .. MaxConverted
    BY DEF Base, AnyTeam, Parameters, MaxConverted
  <1>2. CASE r.owner = team
    <2>1. Enter(r, team) = [r EXCEPT !.owners = @ + 1]
      BY <1>2 DEF Enter
    <2>2. QED
      BY <1>1, <1>2, <2>1 DEF Base, Fair
  <1>3. CASE r.owner # team /\ r.enemies = 0
    <2> DEFINE converted == IF r.enemy = team THEN r.converted ELSE 0
    <2>1. Enter(r, team) = [r EXCEPT !.enemy = team, !.enemies = 1, !.converted = converted]
      BY <1>3 DEF Enter
    <2>2. converted \in 0 .. MaxConverted
      BY <1>1 DEF Base
    <2> HIDE DEF converted
    <2>3. /\ Enter(r, team) \in Base
          /\ Enter(r, team).owner = r.owner /\ Enter(r, team).owners = r.owners
          /\ Enter(r, team).enemy = team /\ Enter(r, team).enemies = 1
      <3>1. /\ Enter(r, team).owner = r.owner /\ Enter(r, team).owners = r.owners
            /\ Enter(r, team).enemy = team /\ Enter(r, team).enemies = 1
        BY <2>1 DEF Base
      <3>2. Enter(r, team) = [owner |-> r.owner, enemy |-> team, owners |-> r.owners,
                              enemies |-> 1, converted |-> converted]
        BY <2>1 DEF Base
      <3>3. QED
        BY <1>1, <2>2, <3>1, <3>2 DEF Base
    <2>4. QED
      BY <1>1, <1>3, <2>3 DEF Fair
  <1>4. CASE r.owner # team /\ r.enemies # 0 /\ r.enemy = team
    <2>1. Enter(r, team) = [r EXCEPT !.enemies = @ + 1]
      BY <1>4 DEF Enter
    <2>2. QED
      BY <1>1, <1>4, <2>1 DEF Base, Fair
  <1>5. CASE r.owner # team /\ r.enemies # 0 /\ r.enemy # team
    <2>1. Enter(r, team) = r
      BY <1>5 DEF Enter
    <2>2. QED
      BY <1>1, <1>5, <2>1 DEF Fair
  <1>6. QED
    BY <1>2, <1>3, <1>4, <1>5

LEMMA LeaveFair ==
    ASSUME Parameters, NEW r \in Base, NEW team \in Teams,
           NEW m \in [AnyTeam -> Nat], NEW n \in [AnyTeam -> Nat], Fair(r, m),
           n[team] = m[team] - 1, \A t \in AnyTeam \ {team} : n[t] = m[t]
    PROVE  LeaveBase(r, team) \in Base /\ Fair(LeaveBase(r, team), n)
  <1>1. team \in AnyTeam /\ team # NoTeam /\ r.owner \in AnyTeam /\ r.enemy \in AnyTeam
        /\ r.owners \in Nat /\ r.enemies \in Nat /\ n[team] \in Nat /\ m[team] \in Nat
    BY DEF Base, AnyTeam, Parameters
  <1>2. CASE r.owner = team /\ r.owners > 0
    <2>1. LeaveBase(r, team) = [r EXCEPT !.owners = @ - 1]
      BY <1>2 DEF LeaveBase
    <2>2. QED
      BY <1>1, <1>2, <2>1 DEF Base, Fair
  <1>3. CASE ~(r.owner = team /\ r.owners > 0) /\ r.enemy = team /\ r.enemies > 0
    <2>1. LeaveBase(r, team) = [r EXCEPT !.enemies = @ - 1]
      BY <1>3 DEF LeaveBase
    <2>2. QED
      BY <1>1, <1>3, <2>1 DEF Base, Fair
  <1>4. CASE ~(r.owner = team /\ r.owners > 0) /\ ~(r.enemy = team /\ r.enemies > 0)
    <2>1. LeaveBase(r, team) = r
      BY <1>4 DEF LeaveBase
    <2>2. QED
      BY <1>1, <1>4, <2>1 DEF Fair
  <1>5. QED
    BY <1>2, <1>3, <1>4

\* Who was not counted leaves: somebody else is taken off.
LEMMA LeaveUncounted ==
    ASSUME Parameters, NEW r \in Base, NEW team \in Teams,
           NEW m \in [AnyTeam -> Nat], Fair(r, m)
    PROVE  LeaveBase(r, team) \in Base /\ Fair(LeaveBase(r, team), m)
  <1>1. r.owner \in AnyTeam /\ r.enemy \in AnyTeam /\ r.owners \in Nat /\ r.enemies \in Nat
        /\ m[r.owner] \in Nat /\ m[r.enemy] \in Nat
    BY DEF Base
  <1>2. CASE r.owner = team /\ r.owners > 0
    <2>1. LeaveBase(r, team) = [r EXCEPT !.owners = @ - 1]
      BY <1>2 DEF LeaveBase
    <2>2. QED
      BY <1>1, <1>2, <2>1 DEF Base, Fair
  <1>3. CASE ~(r.owner = team /\ r.owners > 0) /\ r.enemy = team /\ r.enemies > 0
    <2>1. LeaveBase(r, team) = [r EXCEPT !.enemies = @ - 1]
      BY <1>3 DEF LeaveBase
    <2>2. QED
      BY <1>1, <1>3, <2>1 DEF Base, Fair
  <1>4. CASE ~(r.owner = team /\ r.owners > 0) /\ ~(r.enemy = team /\ r.enemies > 0)
    BY <1>4 DEF LeaveBase
  <1>5. QED
    BY <1>2, <1>3, <1>4

LEMMA StealFair ==
    ASSUME Parameters, NEW r \in Base, NEW b, NEW team \in Teams,
           NEW m \in [AnyTeam -> Nat], Fair(r, m), Steals(r, team),
           Cardinality(InBase(b, team)) \in 0 .. m[team]
    PROVE  StealBase(r, b, team) \in Base /\ Fair(StealBase(r, b, team), m)
  <1> DEFINE n == Cardinality(InBase(b, team))
  <1>1. team \in AnyTeam /\ m[team] \in Nat /\ n \in Nat /\ n <= m[team]
        /\ 0 \in 0 .. MaxConverted
    BY DEF AnyTeam, Parameters, MaxConverted
  <1>2. CASE n = 0
    BY <1>2 DEF StealBase
  <1>3. CASE n # 0
    <2>1. StealBase(r, b, team) =
            [r EXCEPT !.enemy = team, !.enemies = n,
                      !.converted = IF r.enemy = team THEN r.converted ELSE 0]
      BY <1>3 DEF StealBase
    <2> HIDE DEF n
    <2>2. (IF r.enemy = team THEN r.converted ELSE 0) \in 0 .. MaxConverted
      BY <1>1 DEF Base
    <2>3. /\ StealBase(r, b, team) \in Base
          /\ StealBase(r, b, team).owner = r.owner /\ StealBase(r, b, team).owners = r.owners
          /\ StealBase(r, b, team).enemy = team /\ StealBase(r, b, team).enemies = n
      BY <1>1, <2>1, <2>2 DEF Base
    <2>4. QED
      BY <1>1, <2>3 DEF Fair, Steals
  <1>4. QED
    BY <1>2, <1>3

LEMMA OccupyFair ==
    ASSUME Parameters, NEW r \in Base, NEW m \in [AnyTeam -> Nat], Fair(r, m),
           r.enemy # NoTeam, ~Contested(r)
    PROVE  /\ Occupy(r) \in Base /\ Fair(Occupy(r), m)
           /\ Occupy(r).owner # r.owner =>
                /\ r.enemies > 0
                /\ IF r.owner = NoTeam THEN Occupy(r).owner = r.enemy
                   ELSE Occupy(r).owner = NoTeam
  <1> DEFINE units == IF r.enemies > 0 THEN 1 + r.enemies ELSE -(2 + r.owners)
             converted == r.converted + units
             noenemy == [r EXCEPT !.enemy = NoTeam, !.enemies = 0, !.converted = 0]
             limit == IF r.owner # NoTeam THEN EnemyLimit ELSE NeutralLimit
  <1>1. r.owner \in AnyTeam /\ r.enemy \in AnyTeam /\ NoTeam \in AnyTeam
        /\ r.owners \in Nat /\ r.enemies \in Nat /\ r.converted \in 0 .. MaxConverted
        /\ MaxConverted \in Nat /\ limit \in Nat /\ limit <= MaxConverted
        /\ m[NoTeam] \in Nat /\ 0 \in 0 .. MaxConverted
    BY DEF Base, AnyTeam, Parameters, MaxConverted
  <1>2. units \in Int /\ converted \in Int /\ (units < 0 <=> r.enemies = 0)
    BY <1>1
  <1> HIDE DEF units, limit
  <1>3. CASE units < 0 /\ converted <= 0
    <2>1. Occupy(r) = noenemy
      BY <1>3 DEF Occupy, units
    <2>2. /\ noenemy \in Base /\ noenemy.owner = r.owner /\ noenemy.owners = r.owners
          /\ noenemy.enemy = NoTeam /\ noenemy.enemies = 0
      BY <1>1 DEF Base
    <2> HIDE DEF noenemy
    <2>3. QED
      BY <1>1, <2>1, <2>2 DEF Fair
  <1>4. CASE units < 0 /\ ~(converted <= 0)
    <2>1. Occupy(r) = [r EXCEPT !.converted = converted]
      BY <1>4 DEF Occupy, units
    <2>2. converted \in 0 .. MaxConverted
      BY <1>1, <1>2, <1>4
    <2> HIDE DEF converted
    <2>3. QED
      BY <1>1, <2>1, <2>2 DEF Base, Fair
  <1>5. CASE ~(units < 0) /\ converted < limit
    <2>1. Occupy(r) = [r EXCEPT !.converted = converted]
      BY <1>5 DEF Occupy, units, limit
    <2>2. converted \in 0 .. MaxConverted
      BY <1>1, <1>2, <1>5
    <2> HIDE DEF converted
    <2>3. QED
      BY <1>1, <2>1, <2>2 DEF Base, Fair
  <1>6. CASE ~(units < 0) /\ ~(converted < limit) /\ r.owner # NoTeam
    <2>1. Occupy(r) = [r EXCEPT !.owner = NoTeam, !.converted = 0]
      BY <1>6 DEF Occupy, units, limit
    <2>2. r.enemies > 0 /\ r.owners = 0
      BY <1>1, <1>2, <1>6 DEF Contested
    <2>3. /\ Occupy(r) \in Base /\ Occupy(r).owner = NoTeam /\ Occupy(r).owners = 0
          /\ Occupy(r).enemy = r.enemy /\ Occupy(r).enemies = r.enemies
      BY <1>1, <2>1, <2>2 DEF Base
    <2>4. QED
      BY <1>1, <1>6, <2>2, <2>3 DEF Fair
  <1>7. CASE ~(units < 0) /\ ~(converted < limit) /\ r.owner = NoTeam
    <2>1. Occupy(r) = [noenemy EXCEPT !.owner = r.enemy, !.owners = r.enemies]
      BY <1>7 DEF Occupy, units, limit
    <2>2. r.enemies > 0
      BY <1>1, <1>2, <1>7
    <2>3. /\ Occupy(r) \in Base
          /\ Occupy(r).owner = r.enemy /\ Occupy(r).owners = r.enemies
          /\ Occupy(r).enemy = NoTeam /\ Occupy(r).enemies = 0
      <3>1. noenemy \in Base /\ noenemy.enemy = NoTeam /\ noenemy.enemies = 0
        BY <1>1 DEF Base
      <3> HIDE DEF noenemy
      <3>2. QED
        BY <1>1, <2>1, <3>1 DEF Base
    <2>4. QED
      BY <1>1, <1>7, <2>2, <2>3 DEF Fair
  <1>8. QED
    BY <1>3, <1>4, <1>5, <1>6, <1>7

-----------------------------------------------------------------------------
(* All bases                                                               *)

\* movebases, when "before" and "after" are the crowds around the move.
LEMMA MoveFair ==
    ASSUME Parameters, ~over, NEW bases \in [Bases -> Base], NEW team \in Teams,
           NEW from \in Places, NEW to \in Places,
           NEW before \in [Bases -> [AnyTeam -> Nat]],
           NEW after \in [Bases -> [AnyTeam -> Nat]],
           \A b \in Bases : Fair(bases[b], before[b]),
           \A b \in Bases : \A t \in AnyTeam \ {team} : after[b][t] = before[b][t],
           \A b \in Bases : after[b][team] =
               IF b = from /\ b # to THEN before[b][team] - 1
               ELSE IF b # from /\ b = to THEN before[b][team] + 1 ELSE before[b][team],
           \A b \in Bases : b = from /\ b = to =>
               Cardinality(InBase(b, team)) \in 0 .. before[b][team]
    PROVE  /\ MoveBases(bases, team, from, to) \in [Bases -> Base]
           /\ \A b \in Bases : Fair(MoveBases(bases, team, from, to)[b], after[b])
  <1> DEFINE moved(b) ==
        IF b = from /\ b # to THEN LeaveBase(bases[b], team)
        ELSE IF b # from /\ b = to THEN Enter(bases[b], team)
        ELSE IF b = from /\ Steals(bases[b], team) THEN StealBase(bases[b], b, team)
        ELSE bases[b]
  <1>1. MoveBases(bases, team, from, to) = [b \in Bases |-> moved(b)]
    BY DEF MoveBases
  <1>2. ASSUME NEW b \in Bases PROVE moved(b) \in Base /\ Fair(moved(b), after[b])
    <2>1. bases[b] \in Base /\ before[b] \in [AnyTeam -> Nat] /\ after[b] \in [AnyTeam -> Nat]
          /\ Fair(bases[b], before[b])
      OBVIOUS
    <2>2. CASE b = from /\ b # to
      BY <2>1, <2>2, LeaveFair
    <2>3. CASE b # from /\ b = to
      BY <2>1, <2>3, EnterFair
    <2>4. CASE ~(b = from /\ b # to) /\ ~(b # from /\ b = to)
      <3>1. after[b] = before[b]
        <4>1. after[b][team] = before[b][team]
          BY <2>4
        <4>2. \A t \in AnyTeam : after[b][t] = before[b][t]
          BY <4>1
        <4>3. QED
          BY <2>1, <4>2
      <3>2. CASE b = from /\ Steals(bases[b], team)
        BY <2>1, <2>4, <3>1, <3>2, StealFair
      <3>3. CASE ~(b = from /\ Steals(bases[b], team))
        BY <2>1, <2>4, <3>1, <3>3
      <3>4. QED
        BY <3>2, <3>3
    <2>5. QED
      BY <2>2, <2>3, <2>4
  <1> HIDE DEF moved
  <1>3. QED
    BY <1>1, <1>2

\* A player who was not counted leaves all the same: somebody else of the team
\* is taken off.
LEMMA MoveUncounted ==
    ASSUME Parameters, NEW bases \in [Bases -> Base], NEW team \in Teams,
           NEW from \in Places, NEW crowds \in [Bases -> [AnyTeam -> Nat]],
           \A b \in Bases : Fair(bases[b], crowds[b])
    PROVE  /\ MoveBases(bases, team, from, Away) \in [Bases -> Base]
           /\ \A b \in Bases : Fair(MoveBases(bases, team, from, Away)[b], crowds[b])
  <1> DEFINE moved(b) == IF b = from THEN LeaveBase(bases[b], team) ELSE bases[b]
  <1>1. over \/ MoveBases(bases, team, from, Away) = [b \in Bases |-> moved(b)]
    BY DEF MoveBases, Parameters
  <1>2. over => MoveBases(bases, team, from, Away) = bases
    BY DEF MoveBases
  <1>3. \A b \in Bases : moved(b) \in Base /\ Fair(moved(b), crowds[b])
    BY LeaveUncounted
  <1> HIDE DEF moved
  <1>4. QED
    BY <1>1, <1>2, <1>3

LEMMA StandingType ==
    ASSUME Parameters
    PROVE  \A b \in Bases, t \in AnyTeam :
              /\ IsFiniteSet(Standing(b, t)) /\ Cardinality(Standing(b, t)) \in Nat
              /\ t = NoTeam => Standing(b, t) = {}
  <1>1. ASSUME NEW b \in Bases, NEW t \in AnyTeam
        PROVE  IsFiniteSet(Standing(b, t)) /\ Cardinality(Standing(b, t)) \in Nat
    <2>1. Standing(b, t) \subseteq Players
      BY DEF Standing, InBase, Alive
    <2>2. QED
      BY <2>1, FS_Subset, FS_CardinalityType DEF Parameters
  <1>2. \A b \in Bases : Standing(b, NoTeam) = {}
    BY DEF Standing, InBase, Alive
  <1>3. QED
    BY <1>1, <1>2

LEMMA CrowdType ==
    ASSUME Parameters, ghosts \in Spectres
    PROVE  /\ Crowds \in [Bases -> [AnyTeam -> Nat]]
           /\ \A b \in Bases, t \in AnyTeam :
                 /\ Crowds[b][t] = Cardinality(Standing(b, t)) + ghosts[b][t]
                 /\ Cardinality(Standing(b, t)) \in 0 .. Crowds[b][t]
  <1>1. ASSUME NEW b \in Bases, NEW t \in AnyTeam
        PROVE  /\ Crowd(b, t) = Cardinality(Standing(b, t)) + ghosts[b][t]
               /\ Crowd(b, t) \in Nat /\ Cardinality(Standing(b, t)) \in 0 .. Crowd(b, t)
    <2>1. ghosts[b][t] \in Nat /\ Cardinality(Standing(b, t)) \in Nat
      BY StandingType DEF Spectres
    <2>2. QED
      BY <2>1 DEF Crowd
  <1>2. QED
    BY <1>1 DEF Crowds

LEMMA CrowdTypeNext ==
    ASSUME Parameters, ghosts' \in Spectres
    PROVE  /\ Crowds' \in [Bases -> [AnyTeam -> Nat]]
           /\ \A b \in Bases, t \in AnyTeam :
                 Crowds'[b][t] = Cardinality(Standing(b, t)') + ghosts'[b][t]
  <1>1. ASSUME NEW b \in Bases, NEW t \in AnyTeam
        PROVE  Cardinality(Standing(b, t)') \in Nat /\ ghosts'[b][t] \in Nat
    <2>1. Standing(b, t)' \subseteq Players
      BY DEF Standing, InBase, Alive
    <2>2. QED
      BY <2>1, FS_Subset, FS_CardinalityType DEF Parameters, Spectres
  <1>2. \A b \in Bases, t \in AnyTeam :
           Crowds'[b][t] = Cardinality(Standing(b, t)') + ghosts'[b][t]
    BY DEF Crowds, Crowd
  <1>3. Crowds' = [b \in Bases |-> [t \in AnyTeam |-> Crowds'[b][t]]]
    BY DEF Crowds
  <1>4. QED
    BY <1>1, <1>2, <1>3

LEMMA TypesMean ==
    ASSUME Parameters, CaptureTypeOK
    PROVE  /\ base \in [Bases -> Base] /\ ghosts \in Spectres /\ life \in Lives
           /\ over \in BOOLEAN /\ notgotbases \in BOOLEAN
  BY DEF CaptureTypeOK, Base, AnyTeam, Spectres, Lives

LEMMA TypesMeanNext ==
    ASSUME Parameters, base' \in [Bases -> Base], ghosts' \in Spectres, life' \in Lives,
           over' \in BOOLEAN, notgotbases' \in BOOLEAN
    PROVE  CaptureTypeOK'
  BY DEF CaptureTypeOK, Base, AnyTeam, Spectres, Lives

\* New bases count nobody.
LEMMA NeutralFair ==
    ASSUME Parameters
    PROVE  /\ Neutral \in Base
           /\ \A n \in [AnyTeam -> Nat] : Fair(Neutral, n)
  <1>1. NoTeam \in AnyTeam /\ MaxConverted \in Nat
    BY DEF AnyTeam, MaxConverted, Parameters
  <1>2. Neutral \in Base
    BY <1>1 DEF Neutral, Base
  <1>3. ASSUME NEW n \in [AnyTeam -> Nat] PROVE Fair(Neutral, n)
    <2>1. n[NoTeam] \in Nat
      BY <1>1
    <2>2. QED
      BY <2>1 DEF Fair, Neutral
  <1>4. QED
    BY <1>2, <1>3

\* A larger crowd explains the counters as well.
LEMMA FairWithMore ==
    ASSUME NEW r \in Base, NEW m \in [AnyTeam -> Nat], NEW n \in [AnyTeam -> Nat],
           Fair(r, m), \A t \in AnyTeam : m[t] <= n[t]
    PROVE  Fair(r, n)
  <1>1. r.owner \in AnyTeam /\ r.enemy \in AnyTeam /\ r.owners \in Nat /\ r.enemies \in Nat
    BY DEF Base
  <1>2. QED
    BY <1>1 DEF Fair

-----------------------------------------------------------------------------
(* The crowds                                                              *)

\* A player who enters adds one to its team where it stands, and who leaves
\* takes one away.
LEMMA StandingChange ==
    ASSUME Parameters, NEW p \in Players,
           \A q \in Players \ {p} : life'[q] = life[q],
           NEW b \in Bases, NEW t \in AnyTeam
    PROVE  LET was == p \in Standing(b, t)
               is  == p \in Standing(b, t)'
               n   == Cardinality(Standing(b, t))
           IN  Cardinality(Standing(b, t)') = IF was /\ ~is THEN n - 1
                                              ELSE IF is /\ ~was THEN n + 1 ELSE n
  <1>1. Standing(b, t)' \ {p} = Standing(b, t) \ {p}
    BY DEF Standing, InBase, Alive
  <1>2. IsFiniteSet(Standing(b, t)) /\ Cardinality(Standing(b, t)) \in Nat
    BY StandingType
  <1>3. CASE p \in Standing(b, t) /\ p \notin Standing(b, t)'
    <2>1. Standing(b, t)' = Standing(b, t) \ {p}
      BY <1>1, <1>3
    <2>2. QED
      BY <1>2, <1>3, <2>1, FS_RemoveElement
  <1>4. CASE p \notin Standing(b, t) /\ p \in Standing(b, t)'
    <2>1. Standing(b, t)' = Standing(b, t) \cup {p}
      BY <1>1, <1>4
    <2>2. QED
      BY <1>2, <1>4, <2>1, FS_AddElement
  <1>5. CASE p \in Standing(b, t) <=> p \in Standing(b, t)'
    <2>1. Standing(b, t)' = Standing(b, t)
      BY <1>1, <1>5
    <2>2. QED
      BY <1>2, <1>5, <2>1
  <1>6. QED
    BY <1>3, <1>4, <1>5

LEMMA CrowdChange ==
    ASSUME Parameters, ghosts \in Spectres, ghosts' = ghosts, NEW p \in Players,
           \A q \in Players \ {p} : life'[q] = life[q],
           NEW b \in Bases, NEW t \in AnyTeam
    PROVE  LET was == p \in Standing(b, t)
               is  == p \in Standing(b, t)'
           IN  Crowds'[b][t] = IF was /\ ~is THEN Crowds[b][t] - 1
                               ELSE IF is /\ ~was THEN Crowds[b][t] + 1 ELSE Crowds[b][t]
  <1>1. /\ Crowds[b][t] = Cardinality(Standing(b, t)) + ghosts[b][t]
        /\ Crowds'[b][t] = Cardinality(Standing(b, t)') + ghosts[b][t]
    BY CrowdType, CrowdTypeNext
  <1>2. Cardinality(Standing(b, t)) \in Nat /\ ghosts[b][t] \in Nat
    BY StandingType DEF Spectres
  <1>3. QED
    BY <1>1, <1>2, StandingChange

\* While the time is up no crowd gets smaller: who leaves becomes a ghost, and
\* who comes takes the place of one at most.
LEMMA HauntedGrows ==
    ASSUME Parameters, ghosts \in Spectres, over, ~notgotbases, NEW p \in Players,
           \A q \in Players \ {p} : life'[q] = life[q],
           NEW team \in Teams, NEW from \in Places, NEW to \in Places,
           ghosts' = Haunted(team, from, to),
           \A b \in Bases, t \in AnyTeam : p \in Standing(b, t) <=> t = team /\ b = from,
           \A b \in Bases, t \in AnyTeam : p \in Standing(b, t)' <=> t = team /\ b = to
    PROVE  /\ ghosts' \in Spectres
           /\ \A b \in Bases, t \in AnyTeam : Crowds[b][t] <= Crowds'[b][t]
  <1>1. ASSUME NEW b \in Bases, NEW t \in AnyTeam
        PROVE  /\ ghosts'[b][t] \in Nat
               /\ ghosts'[b][t] =
                    IF t = team /\ b = from /\ b # to THEN ghosts[b][t] + 1
                    ELSE IF t = team /\ b # from /\ b = to /\ ghosts[b][t] > 0
                    THEN ghosts[b][t] - 1 ELSE ghosts[b][t]
    BY DEF Haunted, Spectres
  <1>2. ghosts' \in Spectres
    <2>1. \A b \in Bases : ghosts'[b] = [t \in AnyTeam |-> ghosts'[b][t]]
      BY DEF Haunted, Spectres
    <2>2. ghosts' = [b \in Bases |-> ghosts'[b]]
      BY DEF Haunted, Spectres
    <2>3. QED
      BY <1>1, <2>1, <2>2 DEF Spectres
  <1>3. ASSUME NEW b \in Bases, NEW t \in AnyTeam PROVE Crowds[b][t] <= Crowds'[b][t]
    <2>1. /\ Crowds[b][t] = Cardinality(Standing(b, t)) + ghosts[b][t]
          /\ Crowds'[b][t] = Cardinality(Standing(b, t)') + ghosts'[b][t]
      BY <1>2, CrowdType, CrowdTypeNext
    <2>2. Cardinality(Standing(b, t)) \in Nat /\ ghosts[b][t] \in Nat
      BY StandingType DEF Spectres
    <2>3. Cardinality(Standing(b, t)') =
            IF t = team /\ b = from /\ b # to THEN Cardinality(Standing(b, t)) - 1
            ELSE IF t = team /\ b # from /\ b = to THEN Cardinality(Standing(b, t)) + 1
            ELSE Cardinality(Standing(b, t))
      BY StandingChange
    <2>4. QED
      BY <1>1, <2>1, <2>2, <2>3
  <1>4. QED
    BY <1>2, <1>3

\* Without gameclip a player stands in the base where it is.
LEMMA LifeFacts ==
    ASSUME Parameters, Plain, life \in Lives
    PROVE  /\ \A p \in Alive : /\ p \in Players /\ life[p].team \in Teams
                                /\ life[p].at \in Places /\ life[p].gameclip = FALSE
           /\ \A b \in Bases, t \in Teams : InBase(b, t) = Standing(b, t)
           /\ \A b \in Bases, t \in AnyTeam, p \in Players :
                 p \in Standing(b, t) <=> p \in Alive /\ life[p].team = t /\ life[p].at = b
  <1>1. ASSUME NEW p \in Alive
        PROVE  /\ p \in Players /\ life[p].team \in Teams
               /\ life[p].at \in Places /\ life[p].gameclip = FALSE
    <2>1. p \in Players /\ life[p].team # NoTeam
      BY DEF Alive
    <2>2. life[p] # NotAlive
      BY <2>1 DEF NotAlive
    <2>3. life[p] \in [team : Teams, at : Places, gameclip : {FALSE, Clip}]
      BY <2>1, <2>2 DEF Lives
    <2>4. life[p].team \in Teams /\ life[p].at \in Places /\ life[p].gameclip \in {FALSE, Clip}
      BY <2>3
    <2>5. QED
      BY <2>1, <2>4, Zenon DEF Plain
  <1>2. QED
    BY <1>1 DEF InBase, Standing

LEMMA LifeFactsNext ==
    ASSUME Parameters, Plain, life' \in Lives
    PROVE  \A b \in Bases, t \in AnyTeam, p \in Players :
              p \in Standing(b, t)' <=> life'[p].team = t /\ life'[p].at = b
                                        /\ life'[p].team # NoTeam
  <1>1. ASSUME NEW p \in Players PROVE life'[p].team # NoTeam => ~life'[p].gameclip
    <2>1. SUFFICES ASSUME life'[p].team # NoTeam PROVE ~life'[p].gameclip
      OBVIOUS
    <2>2. life'[p] # NotAlive
      BY <2>1 DEF NotAlive
    <2>3. life'[p] \in [team : Teams, at : Places, gameclip : {FALSE, Clip}]
      BY <2>2 DEF Lives
    <2>4. life'[p].gameclip \in {FALSE, Clip}
      BY <2>3
    <2>5. QED
      BY <2>4, Zenon DEF Plain
  <1>2. QED
    BY <1>1 DEF Standing, InBase, Alive

\* A step of the players: the bases follow while the game runs and are known;
\* while the time is up the counters stand still and no crowd gets smaller.
LEMMA PlayerStep ==
    ASSUME Parameters, CaptureInv, life' \in Lives, UNCHANGED <<over, notgotbases>>,
           ghosts' \in Spectres,
           over \/ notgotbases => base' = base,
           over /\ ~notgotbases =>
              \A b \in Bases, t \in AnyTeam : Crowds[b][t] <= Crowds'[b][t],
           ~over /\ ~notgotbases => /\ base' \in [Bases -> Base]
                                   /\ \A b \in Bases : Fair(base'[b], Crowds'[b])
    PROVE  CaptureInv'
  <1>1. /\ base \in [Bases -> Base] /\ over \in BOOLEAN /\ notgotbases \in BOOLEAN
        /\ Crowds \in [Bases -> [AnyTeam -> Nat]] /\ Crowds' \in [Bases -> [AnyTeam -> Nat]]
    BY TypesMean, CrowdType, CrowdTypeNext DEF CaptureInv
  <1>2. base' \in [Bases -> Base] /\ \A b \in Bases : Fair(base'[b], Crowds'[b])
    <2>1. CASE notgotbases
      BY <1>1, <2>1, NeutralFair DEF CaptureInv, Unknown
    <2>2. CASE over /\ ~notgotbases
      BY <1>1, <2>2, FairWithMore DEF CaptureInv, AllFair
    <2>3. CASE ~over /\ ~notgotbases
      BY <2>3
    <2>4. QED
      BY <2>1, <2>2, <2>3
  <1>3. CaptureTypeOK'
    BY <1>1, <1>2, TypesMeanNext
  <1>4. Unknown'
    BY DEF CaptureInv, Unknown
  <1>5. QED
    BY <1>2, <1>3, <1>4 DEF CaptureInv, AllFair

\* One player of a team goes from one place to another, or comes or goes.
LEMMA OneGoes ==
    ASSUME Parameters, Plain, CaptureInv, NEW p \in Players,
           \A q \in Players \ {p} : life'[q] = life[q],
           NEW team \in Teams, NEW from \in Places, NEW to \in Places,
           ghosts' = Haunted(team, from, to),
           \A b \in Bases, t \in AnyTeam : p \in Standing(b, t) <=> t = team /\ b = from,
           \A b \in Bases, t \in AnyTeam : p \in Standing(b, t)' <=> t = team /\ b = to
    PROVE  /\ ghosts' \in Spectres
           /\ over /\ ~notgotbases =>
                 \A b \in Bases, t \in AnyTeam : Crowds[b][t] <= Crowds'[b][t]
           /\ ~over /\ ~notgotbases =>
                 /\ MoveBases(base, team, from, to) \in [Bases -> Base]
                 /\ \A b \in Bases : Fair(MoveBases(base, team, from, to)[b], Crowds'[b])
  <1>1. base \in [Bases -> Base] /\ ghosts \in Spectres /\ life \in Lives /\ team \in AnyTeam
    BY TypesMean DEF CaptureInv, AnyTeam
  <1>2. CASE over /\ ~notgotbases
    BY <1>1, <1>2, HauntedGrows
  <1>3. CASE notgotbases
    BY <1>1, <1>3 DEF Haunted
  <1>4. CASE ~over /\ ~notgotbases
    <2>1. ghosts' = ghosts
      BY <1>4 DEF Haunted
    <2>2. Crowds \in [Bases -> [AnyTeam -> Nat]] /\ Crowds' \in [Bases -> [AnyTeam -> Nat]]
      BY <1>1, <2>1, CrowdType, CrowdTypeNext
    <2>3. ASSUME NEW b \in Bases, NEW t \in AnyTeam
          PROVE  Crowds'[b][t] = IF t = team /\ b = from /\ b # to THEN Crowds[b][t] - 1
                                 ELSE IF t = team /\ b # from /\ b = to THEN Crowds[b][t] + 1
                                 ELSE Crowds[b][t]
      BY <1>1, <2>1, CrowdChange
    <2>4. \A b \in Bases : \A t \in AnyTeam \ {team} : Crowds'[b][t] = Crowds[b][t]
      BY <2>3
    <2>5. \A b \in Bases : Crowds'[b][team] =
             IF b = from /\ b # to THEN Crowds[b][team] - 1
             ELSE IF b # from /\ b = to THEN Crowds[b][team] + 1 ELSE Crowds[b][team]
      BY <1>1, <2>3
    <2>6. \A b \in Bases : Cardinality(InBase(b, team)) \in 0 .. Crowds[b][team]
      BY <1>1, LifeFacts, CrowdType
    <2>7. \A b \in Bases : Fair(base[b], Crowds[b])
      BY DEF CaptureInv, AllFair
    <2>8. QED
      BY <1>1, <1>4, <2>1, <2>2, <2>4, <2>5, <2>6, <2>7, MoveFair
  <1>5. QED
    BY <1>2, <1>3, <1>4

LEMMA SpawnKeeps ==
    ASSUME Parameters, Plain, CaptureInv, NEW p \in Players, NEW team \in Teams,
           NEW at \in Places, NEW clip \in {FALSE, Clip}, Spawn(p, team, at, clip)
    PROVE  CaptureInv'
  <1>1. life \in Lives /\ p \notin Alive /\ clip = FALSE
    BY DEF CaptureInv, CaptureTypeOK, Lives, Spawn, Plain
  <1>2. /\ life' \in Lives /\ UNCHANGED <<over, notgotbases>>
        /\ life'[p].team = team /\ life'[p].at = at
        /\ \A q \in Players \ {p} : life'[q] = life[q]
    BY <1>1 DEF Spawn, Lives
  <1>3. /\ base' = IF notgotbases THEN base ELSE MoveBases(base, team, Away, at)
        /\ ghosts' = Haunted(team, Away, at)
    BY <1>1 DEF Spawn
  <1>4. Away \in Places /\ \A b \in Bases : b # Away
    BY DEF Places, Parameters
  <1>5. \A b \in Bases, t \in AnyTeam : /\ p \in Standing(b, t) <=> t = team /\ b = Away
                                        /\ p \in Standing(b, t)' <=> t = team /\ b = at
    BY <1>1, <1>2, <1>4, LifeFacts, LifeFactsNext DEF Parameters
  <1>6. over => MoveBases(base, team, Away, at) = base
    BY DEF MoveBases
  <1>7. QED
    BY <1>2, <1>3, <1>4, <1>5, <1>6, OneGoes, PlayerStep

LEMMA MoveKeeps ==
    ASSUME Parameters, Plain, CaptureInv, NEW p \in Players, NEW to \in Places,
           NEW clip \in {FALSE, Clip}, Move(p, to, clip)
    PROVE  CaptureInv'
  <1> DEFINE team == life[p].team
             from == life[p].at
  <1>1. /\ life \in Lives /\ p \in Alive /\ team \in Teams /\ from \in Places /\ clip = FALSE
        /\ life[p].gameclip = FALSE
    <2>1. life \in Lives /\ p \in Alive /\ clip = FALSE
      BY DEF CaptureInv, CaptureTypeOK, Lives, Move, Plain
    <2>2. QED
      BY <2>1, LifeFacts
  <1>2. /\ life' \in Lives /\ UNCHANGED <<over, notgotbases>>
        /\ life'[p].team = team /\ life'[p].at = to
        /\ \A q \in Players \ {p} : life'[q] = life[q]
    <2>1. life' = [life EXCEPT ![p] = [life[p] EXCEPT !.at = to, !.gameclip = clip]]
      BY <1>1 DEF Move, Lives
    <2>2. life[p] \in [team : Teams, at : Places, gameclip : {FALSE, Clip}]
      <3>1. life[p].team # NoTeam
        BY <1>1 DEF Parameters
      <3>2. life[p] # NotAlive
        BY <3>1 DEF NotAlive
      <3>3. QED
        BY <1>1, <3>2 DEF Lives
    <2>3. /\ [life[p] EXCEPT !.at = to, !.gameclip = clip]
                 \in [team : Teams, at : Places, gameclip : {FALSE, Clip}]
          /\ [life[p] EXCEPT !.at = to, !.gameclip = clip].team = team
          /\ [life[p] EXCEPT !.at = to, !.gameclip = clip].at = to
      BY <2>2
    <2>4. QED
      BY <1>1, <2>1, <2>3 DEF Lives, Move
  <1>3. /\ base' = IF notgotbases THEN base ELSE MoveBases(base, team, from, to)
        /\ ghosts' = Haunted(team, from, to)
    BY <1>1 DEF Move, Counted
  <1> HIDE DEF team, from
  <1>4. \A b \in Bases, t \in AnyTeam : /\ p \in Standing(b, t) <=> t = team /\ b = from
                                        /\ p \in Standing(b, t)' <=> t = team /\ b = to
    BY <1>1, <1>2, LifeFacts, LifeFactsNext DEF team, from, Parameters
  <1>5. over => MoveBases(base, team, from, to) = base
    BY DEF MoveBases
  <1>6. QED
    BY <1>1, <1>2, <1>3, <1>4, <1>5, OneGoes, PlayerStep

\* Who dies or leaves is nowhere afterwards.
LEMMA LeaverFacts ==
    ASSUME Parameters, Plain, CaptureInv, NEW p \in Alive,
           life' = [life EXCEPT ![p] = NotAlive]
    PROVE  /\ p \in Players /\ life' \in Lives /\ Away \in Places
           /\ life[p].team \in Teams /\ life[p].at \in Places /\ life[p].gameclip = FALSE
           /\ \A q \in Players \ {p} : life'[q] = life[q]
           /\ \A b \in Bases, t \in AnyTeam :
                 /\ p \in Standing(b, t) <=> t = life[p].team /\ b = life[p].at
                 /\ p \in Standing(b, t)' <=> t = life[p].team /\ b = Away
  <1>1. life \in Lives
    BY DEF CaptureInv, CaptureTypeOK, Lives
  <1>2. /\ p \in Players /\ life[p].team \in Teams /\ life[p].at \in Places
        /\ life[p].gameclip = FALSE
    BY <1>1, LifeFacts
  <1>3. /\ life' \in Lives /\ life'[p].team = NoTeam
        /\ \A q \in Players \ {p} : life'[q] = life[q]
    BY <1>1, <1>2 DEF Lives, NotAlive
  <1>4. Away \in Places /\ \A b \in Bases : b # Away
    BY DEF Places, Parameters
  <1>5. QED
    BY <1>1, <1>2, <1>3, <1>4, LifeFacts, LifeFactsNext DEF Parameters

LEMMA LeaveKeeps ==
    ASSUME Parameters, Plain, CaptureInv, NEW p \in Players, LeaveGame(p)
    PROVE  CaptureInv'
  <1> DEFINE team == life[p].team
             from == life[p].at
  <1>1. /\ life' = [life EXCEPT ![p] = NotAlive] /\ p \in Alive
        /\ UNCHANGED <<over, notgotbases>>
    BY DEF LeaveGame
  <1>2. /\ life' \in Lives /\ team \in Teams /\ from \in Places /\ Away \in Places
        /\ life[p].gameclip = FALSE
        /\ \A q \in Players \ {p} : life'[q] = life[q]
        /\ \A b \in Bases, t \in AnyTeam : /\ p \in Standing(b, t) <=> t = team /\ b = from
                                           /\ p \in Standing(b, t)' <=> t = team /\ b = Away
    BY <1>1, LeaverFacts
  <1>3. /\ base' = IF notgotbases THEN base ELSE MoveBases(base, team, from, Away)
        /\ ghosts' = Haunted(team, from, Away)
    BY <1>2 DEF LeaveGame, Counted
  <1> HIDE DEF team, from
  <1>4. over => MoveBases(base, team, from, Away) = base
    BY DEF MoveBases
  <1>5. QED
    BY <1>1, <1>2, <1>3, <1>4, OneGoes, PlayerStep

LEMMA DieTwiceKeeps ==
    ASSUME Parameters, Plain, CaptureInv, NEW p \in Players, NEW other \in Teams,
           DieTwice(p, other)
    PROVE  CaptureInv'
  <1> DEFINE team == life[p].team
             from == life[p].at
             left == MoveBases(base, team, from, Away)
  <1>1. /\ life' = [life EXCEPT ![p] = NotAlive] /\ p \in Alive
        /\ UNCHANGED <<over, notgotbases>>
    BY DEF DieTwice
  <1>2. /\ life' \in Lives /\ team \in Teams /\ from \in Places /\ Away \in Places
        /\ life[p].gameclip = FALSE
        /\ \A q \in Players \ {p} : life'[q] = life[q]
        /\ \A b \in Bases, t \in AnyTeam : /\ p \in Standing(b, t) <=> t = team /\ b = from
                                           /\ p \in Standing(b, t)' <=> t = team /\ b = Away
    BY <1>1, LeaverFacts
  <1>3. /\ base' = IF notgotbases THEN base ELSE MoveBases(left, other, from, Away)
        /\ ghosts' = Haunted(team, from, Away)
    BY <1>2 DEF DieTwice, Counted
  <1> HIDE DEF team, from
  <1>4. over => MoveBases(left, other, from, Away) = base
    BY DEF MoveBases
  <1>5. /\ ghosts' \in Spectres
        /\ over /\ ~notgotbases =>
              \A b \in Bases, t \in AnyTeam : Crowds[b][t] <= Crowds'[b][t]
        /\ ~over /\ ~notgotbases =>
              left \in [Bases -> Base] /\ \A b \in Bases : Fair(left[b], Crowds'[b])
    BY <1>2, <1>3, OneGoes
  <1> HIDE DEF left
  <1>6. ASSUME ~over, ~notgotbases
        PROVE  base' \in [Bases -> Base] /\ \A b \in Bases : Fair(base'[b], Crowds'[b])
    <2>1. Crowds' \in [Bases -> [AnyTeam -> Nat]]
      BY <1>5, CrowdTypeNext
    <2> DEFINE crowds == Crowds'
               twice == MoveBases(left, other, from, Away)
    <2>2. crowds \in [Bases -> [AnyTeam -> Nat]] /\ \A b \in Bases : Fair(left[b], crowds[b])
      BY <1>5, <1>6, <2>1
    <2> HIDE DEF crowds
    <2>3. twice \in [Bases -> Base] /\ \A b \in Bases : Fair(twice[b], crowds[b])
      BY <1>2, <1>5, <1>6, <2>2, MoveUncounted
    <2>4. base' = twice
      BY <1>3, <1>6
    <2> HIDE DEF twice
    <2>5. QED
      BY <2>3, <2>4 DEF crowds
  <1>7. QED
    BY <1>1, <1>2, <1>3, <1>4, <1>5, <1>6, PlayerStep

LEMMA ChangeTeamKeeps ==
    ASSUME Parameters, Plain, CaptureInv, NEW p \in Players, NEW team \in Teams,
           ChangeTeam(p, team)
    PROVE  CaptureInv'
  <1> DEFINE old == life[p].team
             at == life[p].at
             mid == [b \in Bases |-> [t \in AnyTeam |-> IF t = team THEN Crowds[b][t]
                                                        ELSE Crowds'[b][t]]]
  <1>1. /\ life \in Lives /\ p \in Alive /\ old \in Teams /\ old # team /\ at \in Places
        /\ life[p].gameclip = FALSE
    <2>1. life \in Lives /\ p \in Alive /\ old # team
      BY DEF CaptureInv, CaptureTypeOK, Lives, ChangeTeam
    <2>2. QED
      BY <2>1, LifeFacts
  <1>2. /\ life' \in Lives /\ UNCHANGED <<over, notgotbases>>
        /\ life'[p].team = team /\ life'[p].at = at
        /\ \A q \in Players \ {p} : life'[q] = life[q]
    <2>1. life' = [life EXCEPT ![p] = [life[p] EXCEPT !.team = team]]
      BY <1>1 DEF ChangeTeam, Lives
    <2>2. life[p] \in [team : Teams, at : Places, gameclip : {FALSE, Clip}]
      <3>1. life[p].team # NoTeam
        BY <1>1 DEF Parameters
      <3>2. life[p] # NotAlive
        BY <3>1 DEF NotAlive
      <3>3. QED
        BY <1>1, <3>2 DEF Lives
    <2>3. /\ [life[p] EXCEPT !.team = team] \in [team : Teams, at : Places, gameclip : {FALSE, Clip}]
          /\ [life[p] EXCEPT !.team = team].team = team
          /\ [life[p] EXCEPT !.team = team].at = at
      BY <2>2
    <2>4. QED
      BY <1>1, <2>1, <2>3 DEF Lives, ChangeTeam
  <1>3. /\ base' = IF notgotbases THEN base
                   ELSE MoveBases(MoveBases(base, old, at, Away), team, Away, at)
        /\ ghosts' = IF over /\ ~notgotbases /\ at # Away
                     THEN [ghosts EXCEPT ![at][old] = @ + 1,
                                         ![at][team] = IF @ > 0 THEN @ - 1 ELSE @]
                     ELSE ghosts
    BY <1>1 DEF ChangeTeam, Counted
  <1>4. /\ \A b \in Bases, t \in AnyTeam : /\ p \in Standing(b, t) <=> t = old /\ b = at
                                           /\ p \in Standing(b, t)' <=> t = team /\ b = at
        /\ base \in [Bases -> Base] /\ ghosts \in Spectres
    BY <1>1, <1>2, LifeFacts, LifeFactsNext, TypesMean DEF CaptureInv, old, at, Parameters
  <1> HIDE DEF old, at
  <1>5. old \in AnyTeam /\ team \in AnyTeam /\ Away \in Places /\ \A b \in Bases : b # Away
    BY <1>1 DEF AnyTeam, Places, Parameters
  <1>6. ASSUME ~notgotbases, ~over
        PROVE  base' \in [Bases -> Base] /\ \A b \in Bases : Fair(base'[b], Crowds'[b])
    <2>1. \A b \in Bases, t \in AnyTeam :
             Crowds'[b][t] = IF t = old /\ b = at THEN Crowds[b][t] - 1
                            ELSE IF t = team /\ b = at THEN Crowds[b][t] + 1 ELSE Crowds[b][t]
      BY <1>1, <1>2, <1>3, <1>4, <1>6, CrowdChange
    <2>2. \A b \in Bases : Fair(base[b], Crowds[b])
      BY DEF CaptureInv, AllFair
    <2>3. Crowds \in [Bases -> [AnyTeam -> Nat]] /\ Crowds' \in [Bases -> [AnyTeam -> Nat]]
      BY <1>3, <1>4, <1>6, CrowdType, CrowdTypeNext
    <2>4. /\ mid \in [Bases -> [AnyTeam -> Nat]]
          /\ \A b \in Bases, t \in AnyTeam : mid[b][t] = IF t = team THEN Crowds[b][t] ELSE Crowds'[b][t]
      BY <2>3
    <2> HIDE DEF mid
    <2>5. /\ MoveBases(base, old, at, Away) \in [Bases -> Base]
          /\ \A b \in Bases : Fair(MoveBases(base, old, at, Away)[b], mid[b])
      <3>1. \A b \in Bases : \A t \in AnyTeam \ {old} : mid[b][t] = Crowds[b][t]
        BY <2>1, <2>4
      <3>2. \A b \in Bases : mid[b][old] =
               IF b = at /\ b # Away THEN Crowds[b][old] - 1
               ELSE IF b # at /\ b = Away THEN Crowds[b][old] + 1 ELSE Crowds[b][old]
        BY <1>1, <1>5, <2>1, <2>4
      <3>3. \A b \in Bases : b = at /\ b = Away =>
               Cardinality(InBase(b, old)) \in 0 .. Crowds[b][old]
        BY <1>5
      <3>4. QED
        BY <1>1, <1>4, <1>5, <1>6, <2>2, <2>3, <2>4, <3>1, <3>2, <3>3, MoveFair
    <2>6. /\ MoveBases(MoveBases(base, old, at, Away), team, Away, at) \in [Bases -> Base]
          /\ \A b \in Bases :
                Fair(MoveBases(MoveBases(base, old, at, Away), team, Away, at)[b], Crowds'[b])
      <3> DEFINE bases == MoveBases(base, old, at, Away)
                 crowds == Crowds'
      <3>1. \A b \in Bases : \A t \in AnyTeam \ {team} : crowds[b][t] = mid[b][t]
        BY <2>4
      <3>2. \A b \in Bases : crowds[b][team] =
               IF b = Away /\ b # at THEN mid[b][team] - 1
               ELSE IF b # Away /\ b = at THEN mid[b][team] + 1 ELSE mid[b][team]
        BY <1>1, <1>5, <2>1, <2>4
      <3>3. \A b \in Bases : b = Away /\ b = at =>
               Cardinality(InBase(b, team)) \in 0 .. mid[b][team]
        BY <1>5
      <3>4. /\ crowds \in [Bases -> [AnyTeam -> Nat]] /\ bases \in [Bases -> Base]
            /\ \A b \in Bases : Fair(bases[b], mid[b])
        BY <2>3, <2>5
      <3> HIDE DEF bases, crowds
      <3>5. /\ MoveBases(bases, team, Away, at) \in [Bases -> Base]
            /\ \A b \in Bases : Fair(MoveBases(bases, team, Away, at)[b], crowds[b])
        BY <1>1, <1>5, <1>6, <2>4, <3>1, <3>2, <3>3, <3>4, MoveFair
      <3>6. QED
        BY <3>5 DEF bases, crowds
    <2>7. QED
      BY <1>3, <1>6, <2>6
  <1>7. /\ ghosts' \in Spectres
        /\ over /\ ~notgotbases =>
              \A b \in Bases, t \in AnyTeam : Crowds[b][t] <= Crowds'[b][t]
    <2>1. CASE ~(over /\ ~notgotbases)
      BY <1>3, <1>4, <2>1
    <2>2. CASE over /\ ~notgotbases
      <3>1. ASSUME NEW b \in Bases, NEW t \in AnyTeam
            PROVE  /\ ghosts'[b][t] \in Nat
                   /\ ghosts'[b][t] = IF b = at /\ t = old THEN ghosts[b][t] + 1
                                      ELSE IF b = at /\ t = team /\ ghosts[b][t] > 0
                                      THEN ghosts[b][t] - 1 ELSE ghosts[b][t]
        BY <1>1, <1>3, <1>4, <1>5, <2>2 DEF Spectres
      <3>2. ghosts' \in Spectres
        <4>1. /\ \A b \in Bases : ghosts'[b] = [t \in AnyTeam |-> ghosts'[b][t]]
              /\ ghosts' = [b \in Bases |-> ghosts'[b]]
          BY <1>3, <1>4 DEF Spectres
        <4>2. QED
          BY <3>1, <4>1 DEF Spectres
      <3>3. ASSUME NEW b \in Bases, NEW t \in AnyTeam PROVE Crowds[b][t] <= Crowds'[b][t]
        <4>1. /\ Crowds[b][t] = Cardinality(Standing(b, t)) + ghosts[b][t]
              /\ Crowds'[b][t] = Cardinality(Standing(b, t)') + ghosts'[b][t]
          BY <1>4, <3>2, CrowdType, CrowdTypeNext
        <4>2. Cardinality(Standing(b, t)) \in Nat /\ ghosts[b][t] \in Nat
          BY <1>4, StandingType DEF Spectres
        <4>3. Cardinality(Standing(b, t)') =
                IF t = old /\ b = at THEN Cardinality(Standing(b, t)) - 1
                ELSE IF t = team /\ b = at THEN Cardinality(Standing(b, t)) + 1
                ELSE Cardinality(Standing(b, t))
          BY <1>1, <1>2, <1>4, StandingChange
        <4>4. QED
          BY <1>1, <3>1, <4>1, <4>2, <4>3
      <3>4. QED
        BY <3>2, <3>3
    <2>3. QED
      BY <2>1, <2>2
  <1>8. over \/ notgotbases => base' = base
    BY <1>3 DEF MoveBases
  <1>9. QED
    BY <1>2, <1>6, <1>7, <1>8, PlayerStep

-----------------------------------------------------------------------------
(* Time                                                                    *)

LEMMA CrowdStays ==
    ASSUME Parameters, UNCHANGED <<life, ghosts>>
    PROVE  Crowds' = Crowds /\ \A b, t : Standing(b, t)' = Standing(b, t)
  BY DEF Crowds, Crowd, Standing, InBase, Alive

\* What one update does to a base.
LEMMA UpdateBase ==
    ASSUME Parameters, CaptureInv, Update, ~notgotbases, NEW b \in Bases
    PROVE  /\ base'[b] \in Base /\ Fair(base'[b], Crowds[b])
           /\ base'[b].owner # base[b].owner =>
                /\ base[b].enemies > 0 /\ base[b].enemy # NoTeam
                /\ IF base[b].owner = NoTeam THEN base'[b].owner = base[b].enemy
                   ELSE base'[b].owner = NoTeam
  <1>1. /\ base[b] \in Base /\ Fair(base[b], Crowds[b]) /\ Crowds[b] \in [AnyTeam -> Nat]
    BY TypesMean, CrowdType DEF CaptureInv, AllFair
  <1>2. base'[b] = IF base[b].enemy # NoTeam /\ ~Contested(base[b]) THEN Occupy(base[b]) ELSE base[b]
    BY DEF Update
  <1>3. QED
    BY <1>1, <1>2, OccupyFair

LEMMA UpdateKeeps ==
    ASSUME Parameters, CaptureInv, Update
    PROVE  CaptureInv'
  <1>1. UNCHANGED <<life, notgotbases, ghosts>> /\ over' \in BOOLEAN
    BY DEF Update, Dominated
  <1>2. /\ life' \in Lives /\ notgotbases' \in BOOLEAN /\ ghosts' \in Spectres
        /\ base \in [Bases -> Base] /\ Crowds' = Crowds
    BY <1>1, CrowdStays, TypesMean DEF CaptureInv
  <1>3. base' \in [Bases -> Base] /\ \A b \in Bases : Fair(base'[b], Crowds[b])
    <2>1. CASE notgotbases
      BY <1>2, <2>1 DEF Update, CaptureInv, AllFair
    <2>2. CASE ~notgotbases
      <3>1. base' = [b \in Bases |-> base'[b]]
        BY <2>2 DEF Update
      <3>2. QED
        BY <2>2, <3>1, UpdateBase
    <2>3. QED
      BY <2>1, <2>2
  <1>4. CaptureTypeOK'
    BY <1>1, <1>2, <1>3, TypesMeanNext
  <1>5. Unknown'
    BY DEF Unknown, CaptureInv, Update
  <1>6. QED
    BY <1>2, <1>3, <1>4, <1>5 DEF CaptureInv, AllFair

\* The end of the time and changetime touch no counter and no player.
LEMMA EndKeeps ==
    ASSUME Parameters, CaptureInv, EndOfTime \/ Reopen
    PROVE  CaptureInv'
  <1>1. UNCHANGED <<life, base, notgotbases, ghosts>> /\ over' \in BOOLEAN
    BY DEF EndOfTime, Reopen
  <1>2. Crowds' = Crowds
    BY <1>1, CrowdStays
  <1>3. QED
    BY <1>1, <1>2 DEF CaptureInv, CaptureTypeOK, Unknown, AllFair

LEMMA NobodyAlive ==
    ASSUME Parameters
    PROVE  [p \in Players |-> NotAlive] \in Lives
  BY DEF Lives

\* A new map: new bases, which count nobody, and no ghosts.
LEMMA BlankMap ==
    ASSUME Parameters
    PROVE  /\ [b \in Bases |-> Neutral] \in [Bases -> Base] /\ NoGhost \in Spectres
           /\ [p \in Players |-> NotAlive] \in Lives
  BY NeutralFair, NobodyAlive DEF NoGhost, Spectres, AnyTeam

LEMMA InitInv == Parameters /\ CaptureInit => CaptureInv
  <1> SUFFICES ASSUME Parameters, CaptureInit PROVE CaptureInv
    OBVIOUS
  <1>1. /\ life \in Lives /\ ghosts \in Spectres /\ base \in [Bases -> Base]
        /\ notgotbases \in BOOLEAN /\ over \in BOOLEAN
        /\ \A b \in Bases : base[b] = Neutral
    BY BlankMap DEF CaptureInit
  <1>2. \A b \in Bases : Fair(base[b], Crowds[b])
    BY <1>1, NeutralFair, CrowdType
  <1>3. CaptureTypeOK
    BY <1>1 DEF CaptureTypeOK, Lives, Base, AnyTeam, Spectres
  <1>4. QED
    BY <1>1, <1>2, <1>3 DEF CaptureInv, Unknown, AllFair

LEMMA SetupKeeps ==
    ASSUME Parameters, CaptureInv, Setup
    PROVE  CaptureInv'
  <1>1. /\ life' \in Lives /\ ghosts' \in Spectres /\ base' \in [Bases -> Base]
        /\ notgotbases' \in BOOLEAN /\ over' \in BOOLEAN
        /\ \A b \in Bases : base'[b] = Neutral
    BY BlankMap DEF Setup
  <1>2. \A b \in Bases : Fair(base'[b], Crowds'[b])
    BY <1>1, NeutralFair, CrowdTypeNext
  <1>3. CaptureTypeOK'
    BY <1>1, TypesMeanNext
  <1>4. QED
    BY <1>1, <1>2, <1>3 DEF CaptureInv, Unknown, AllFair

LEMMA ParseBasesKeeps ==
    ASSUME Parameters, CaptureInv, ParseBases
    PROVE  CaptureInv'
  <1>1. PICK first \in [Bases -> Teams \cup {NoTeam}] :
          base' = IF over THEN base
                  ELSE [b \in Bases |->
                          [Neutral EXCEPT !.enemy = first[b],
                                          !.enemies = Cardinality(Standing(b, first[b]))]]
    BY DEF ParseBases
  <1>2. /\ life' \in Lives /\ ghosts \in Spectres /\ base \in [Bases -> Base]
        /\ UNCHANGED <<life, over, ghosts>> /\ notgotbases' = FALSE
        /\ over' \in BOOLEAN /\ Crowds' = Crowds
    BY TypesMean, CrowdStays DEF ParseBases, CaptureInv
  <1>3. base' \in [Bases -> Base] /\ \A b \in Bases : Fair(base'[b], Crowds[b])
    <2>1. CASE over
      BY <1>1, <1>2, <2>1 DEF CaptureInv, AllFair
    <2>2. CASE ~over
      <3>1. ASSUME NEW b \in Bases PROVE base'[b] \in Base /\ Fair(base'[b], Crowds[b])
        <4> DEFINE n == Cardinality(Standing(b, first[b]))
        <4>1. first[b] \in AnyTeam /\ NoTeam \in AnyTeam /\ MaxConverted \in Nat
          BY DEF AnyTeam, Parameters, MaxConverted
        <4>2. /\ n \in Nat /\ Crowds[b][first[b]] \in Nat /\ n <= Crowds[b][first[b]]
              /\ Crowds[b][NoTeam] \in Nat
          BY <1>2, <4>1, CrowdType, StandingType
        <4>3. base'[b] = [Neutral EXCEPT !.enemy = first[b], !.enemies = n]
          BY <1>1, <2>2
        <4> HIDE DEF n
        <4>4. /\ base'[b] \in Base /\ base'[b].owner = NoTeam /\ base'[b].owners = 0
              /\ base'[b].enemy = first[b] /\ base'[b].enemies = n
          <5>1. base'[b] = [owner |-> NoTeam, enemy |-> first[b], owners |-> 0,
                            enemies |-> n, converted |-> 0]
            BY <4>3 DEF Neutral
          <5>2. QED
            BY <4>1, <4>2, <5>1 DEF Base
        <4>5. QED
          BY <4>1, <4>2, <4>4 DEF Fair
      <3>2. base' = [b \in Bases |-> base'[b]]
        BY <1>1, <2>2
      <3>3. QED
        BY <3>1, <3>2
    <2>3. QED
      BY <2>1, <2>2
  <1>4. CaptureTypeOK'
    BY <1>2, <1>3, TypesMeanNext
  <1>5. QED
    BY <1>2, <1>3, <1>4 DEF CaptureInv, Unknown, AllFair

LEMMA Inductive == Parameters /\ Plain /\ CaptureInv /\ [CaptureNext]_cvars => CaptureInv'
  <1> SUFFICES ASSUME Parameters, Plain, CaptureInv, [CaptureNext]_cvars PROVE CaptureInv'
    OBVIOUS
  <1>1. CASE UNCHANGED cvars
    <2>1. UNCHANGED <<life, base, notgotbases, over, ghosts>>
      BY <1>1 DEF cvars
    <2>2. QED
      BY <2>1, CrowdStays DEF CaptureInv, CaptureTypeOK, Unknown, AllFair
  <1>2. CASE CaptureNext
    <2>1. \A p \in Players : ~Slay(p)
      BY DEF Slay, Plain
    <2>2. QED
      BY <1>2, <2>1, SpawnKeeps, MoveKeeps, LeaveKeeps, ChangeTeamKeeps, DieTwiceKeeps,
         UpdateKeeps, EndKeeps, SetupKeeps, ParseBasesKeeps DEF CaptureNext
  <1>3. QED
    BY <1>1, <1>2

LEMMA MoveBasesOwner ==
    ASSUME NEW bases, NEW team, NEW from, NEW to, NEW b \in Bases,
           bases[b] \in Base
    PROVE  MoveBases(bases, team, from, to)[b].owner = bases[b].owner
  <1>1. Enter(bases[b], team).owner = bases[b].owner
    BY DEF Enter, Base
  <1>2. LeaveBase(bases[b], team).owner = bases[b].owner
    BY DEF LeaveBase, Base
  <1>3. StealBase(bases[b], b, team).owner = bases[b].owner
    BY DEF StealBase, Base
  <1>4. CASE over
    BY <1>4 DEF MoveBases
  <1>5. CASE ~over
    BY <1>1, <1>2, <1>3, <1>5 DEF MoveBases
  <1>6. QED
    BY <1>4, <1>5

\* The same when one has moved before the other.
LEMMA MovesOwner ==
    ASSUME Parameters, base \in [Bases -> Base], NEW team, NEW from, NEW other, NEW at, NEW to,
           NEW b \in Bases
    PROVE  MoveBases(MoveBases(base, team, from, Away), other, at, to)[b].owner = base[b].owner
  <1> DEFINE left == MoveBases(base, team, from, Away)
  <1>1. left[b] \in Base
    <2>1. LeaveBase(base[b], team) \in Base
      BY DEF LeaveBase, Base
    <2>2. left[b] = IF ~over /\ b = from THEN LeaveBase(base[b], team) ELSE base[b]
      BY DEF MoveBases, Parameters
    <2>3. QED
      BY <2>1, <2>2
  <1>2. left[b].owner = base[b].owner
    BY MoveBasesOwner
  <1> HIDE DEF left
  <1>3. MoveBases(left, other, at, to)[b].owner = left[b].owner
    BY <1>1, MoveBasesOwner
  <1>4. QED
    BY <1>2, <1>3 DEF left

\* Only update and changemap give a base to somebody else.
LEMMA OwnersStay ==
    ASSUME Parameters, CaptureInv, CaptureNext, ~Setup, NEW b \in Bases,
           base'[b].owner # base[b].owner
    PROVE  Update /\ ~notgotbases
  <1>1. base \in [Bases -> Base]
    BY TypesMean DEF CaptureInv
  <1>2. \A team, from, to : MoveBases(base, team, from, to)[b].owner = base[b].owner
    BY <1>1, MoveBasesOwner
  <1>3. base' # base
    OBVIOUS
  <1>4. \A p \in Players, t \in Teams, at \in Places, clip \in {FALSE, Clip} : ~Spawn(p, t, at, clip)
    BY <1>2, <1>3 DEF Spawn
  <1>5. \A p \in Players, to \in Places, clip \in {FALSE, Clip} : ~Move(p, to, clip)
    BY <1>2, <1>3 DEF Move
  <1>6. \A p \in Players : ~LeaveGame(p) /\ ~Slay(p)
    BY <1>2, <1>3 DEF LeaveGame, Slay
  <1>7. \A p \in Players, team \in Teams : ~ChangeTeam(p, team)
    BY <1>1, <1>3, MovesOwner DEF ChangeTeam
  <1>8. \A p \in Players, team \in Teams : ~DieTwice(p, team)
    BY <1>1, <1>3, MovesOwner DEF DieTwice
  <1>9. ~EndOfTime /\ ~Reopen
    BY <1>3 DEF EndOfTime, Reopen
  <1>10. ~ParseBases
    <2>1. SUFFICES ASSUME ParseBases PROVE FALSE
      OBVIOUS
    <2>2. base[b] = Neutral
      BY <2>1 DEF ParseBases, CaptureInv, Unknown
    <2>3. base'[b].owner = NoTeam
      BY <1>3, <2>1 DEF ParseBases, Neutral
    <2>4. QED
      BY <2>2, <2>3 DEF Neutral
  <1>11. Update
    BY <1>4, <1>5, <1>6, <1>7, <1>8, <1>9, <1>10 DEF CaptureNext
  <1>12. QED
    BY <1>3, <1>11 DEF Update

-----------------------------------------------------------------------------
(* Theorems                                                                *)

\* The bases, their counters and the players have the values that capture.h
\* stores: no counter is ever below zero, whoever leaves uncounted and however
\* often changetime takes a game up again.
THEOREM CaptureTyped ==
    ASSUME Parameters, Plain
    PROVE  CaptureSpec => []CaptureTypeOK
  <1>1. CaptureInit => CaptureInv
    BY InitInv
  <1>2. CaptureInv /\ [CaptureNext]_cvars => CaptureInv'
    BY Inductive
  <1>3. CaptureInv => CaptureTypeOK
    BY DEF CaptureInv
  <1>4. QED
    BY <1>1, <1>2, <1>3, PTL DEF CaptureSpec

\* However players spawn, move, die, leave and are balanced, and however often
\* the time is up and changetime takes the game up again, enter, leave, steal
\* and occupy leave no base with a count that who stands there and who left it
\* while nobody was counted do not explain.
THEOREM NoBaseHasGhosts ==
    ASSUME Parameters, Plain
    PROVE  CaptureSpec => []NoGhosts
  <1>1. CaptureInit => CaptureInv
    BY InitInv
  <1>2. CaptureInv /\ [CaptureNext]_cvars => CaptureInv'
    BY Inductive
  <1>3. CaptureInv => NoGhosts
    <2>1. SUFFICES ASSUME CaptureInv, NEW b \in Bases
                   PROVE  /\ base[b].owners <= Crowd(b, base[b].owner)
                          /\ base[b].enemies <= Crowd(b, base[b].enemy)
      BY DEF NoGhosts
    <2>2. Fair(base[b], Crowds[b]) /\ base[b].owner \in AnyTeam /\ base[b].enemy \in AnyTeam
      BY <2>1, TypesMean DEF CaptureInv, AllFair, Base
    <2>3. QED
      BY <2>2 DEF Fair, Crowds
  <1>4. QED
    BY <1>1, <1>2, <1>3, PTL DEF CaptureSpec

\* occupy, which looks at the counters alone, gives a base only to a team that
\* stands in it or left it while the time was up, and takes it only from a team
\* whose enemies do or did.
THEOREM BasesAreTakenByPresence ==
    ASSUME Parameters, Plain
    PROVE  CaptureSpec => TakenByPresence
  <1>1. CaptureInit => CaptureInv
    BY InitInv
  <1>2. CaptureInv /\ [CaptureNext]_cvars => CaptureInv'
    BY Inductive
  <1>3. ASSUME CaptureInv, [CaptureNext]_cvars
        PROVE  [Setup \/ \A b \in Bases : base'[b].owner # base[b].owner =>
                  IF base[b].owner = NoTeam THEN Crowd(b, base'[b].owner) > 0
                  ELSE /\ base'[b].owner = NoTeam
                       /\ \E team \in Teams \ {base[b].owner} : Crowd(b, team) > 0]_cvars
    <2>1. SUFFICES ASSUME CaptureNext, ~Setup, NEW b \in Bases,
                          base'[b].owner # base[b].owner
                   PROVE  IF base[b].owner = NoTeam THEN Crowd(b, base'[b].owner) > 0
                          ELSE /\ base'[b].owner = NoTeam
                               /\ \E team \in Teams \ {base[b].owner} : Crowd(b, team) > 0
      BY <1>3
    <2>2. Update /\ ~notgotbases
      BY <1>3, <2>1, OwnersStay
    <2>3. /\ base[b].enemies > 0 /\ base[b].enemy # NoTeam
          /\ IF base[b].owner = NoTeam THEN base'[b].owner = base[b].enemy
             ELSE base'[b].owner = NoTeam
      BY <1>3, <2>1, <2>2, UpdateBase
    <2>4. /\ base[b].enemy \in Teams /\ base[b].enemy # base[b].owner
          /\ Crowd(b, base[b].enemy) > 0
      <3>1. base[b] \in Base /\ Fair(base[b], Crowds[b]) /\ Crowds[b] \in [AnyTeam -> Nat]
        BY <1>3, TypesMean, CrowdType DEF CaptureInv, AllFair
      <3>2. base[b].enemy \in Teams /\ base[b].enemy \in AnyTeam /\ base[b].enemies \in Nat
        BY <2>3, <3>1 DEF Base, AnyTeam
      <3>3. Crowds[b][base[b].enemy] > 0 /\ Crowds[b][base[b].enemy] = Crowd(b, base[b].enemy)
        <4>1. Crowds[b][base[b].enemy] = Crowd(b, base[b].enemy)
          BY <3>2 DEF Crowds
        <4>2. QED
          BY <2>3, <3>1, <3>2, <4>1 DEF Fair
      <3>4. QED
        BY <2>3, <3>1, <3>2, <3>3 DEF Fair
    <2>5. QED
      BY <2>3, <2>4
  <1>4. QED
    BY <1>1, <1>2, <1>3, PTL DEF CaptureSpec, TakenByPresence

-----------------------------------------------------------------------------
(* The game: a match and the capture mode side by side                     *)

\* A step of the game is a step of the one or of the other.
LEMMA GameSteps ==
    [GameNext]_gamevars => [MatchNext]_mvars /\ [CaptureNext]_cvars
  <1> SUFFICES ASSUME [GameNext]_gamevars PROVE [MatchNext]_mvars /\ [CaptureNext]_cvars
    OBVIOUS
  <1>1. CASE UNCHANGED gamevars
    BY <1>1 DEF gamevars
  <1>2. CASE GameNext
    BY <1>2, Zenon DEF GameNext
  <1>3. QED
    BY <1>1, <1>2

\* GameIsMatchAndCapture: the game that the run explores implements the whole
\* match and the whole capture mode: what is proved of each holds there.
THEOREM GameIsMatchAndCapture == GameSpec => MatchSpec /\ CaptureSpec
  <1>1. GameInit => MatchInit /\ CaptureInit
    BY DEF GameInit
  <1>2. QED
    BY <1>1, GameSteps, PTL DEF GameSpec, MatchSpec, CaptureSpec

\* GameIsTyped: the match and the capture mode keep their types together, the
\* counters of the bases included, in a map without gameclip inside a base and
\* while no script slays players.
THEOREM GameIsTyped ==
    ASSUME Parameters, Plain
    PROVE  GameSpec => []GameTypeOK
  <1>1. MatchTypeOK /\ CaptureTypeOK => GameTypeOK
    BY DEF GameTypeOK
  <1>2. QED
    BY <1>1, GameIsMatchAndCapture, MatchTyped, CaptureTyped, PTL
\* GameIsSafe: what the run game checks and is not liveness, for any clients,
\* times, bases and limits: games and intermissions take turns, demos start at
\* 0, and who stands in a base, or left it while the time was up, explains its
\* counters and every change of its owner.
THEOREM GameIsSafe ==
    ASSUME Parameters, Plain
    PROVE  GameSpec => /\ []DemoStampsForward /\ ImplementsGameCycle
                       /\ []NoGhosts /\ TakenByPresence
  BY GameIsMatchAndCapture, DemosLookForward, CycleImplemented, NoBaseHasGhosts,
     BasesAreTakenByPresence, PTL
=============================================================================
