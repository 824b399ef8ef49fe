---------------------------- MODULE ServerProofs ----------------------------
(***************************************************************************)
(* Proofs about WorldState and Combat, for any clients, numbers and        *)
(* bounds: everybody is shown all of the others, the buffers of world      *)
(* states are counted right, hits belong to the life that the shooter saw, *)
(* and a life ends once.                                                   *)
(*                                                                         *)
(* Events are processed one after the other by functions that are          *)
(* recursive on how many; what such a function keeps is shown by induction *)
(* over the sets of numbers for which it holds.                            *)
(***************************************************************************)
EXTENDS MCSlots, FiniteSetTheorems, SequenceTheorems, WellFoundedInduction, TLAPS

-----------------------------------------------------------------------------
(* Recursion on the natural numbers                                        *)

LEMMA NaturalInduction ==
    ASSUME NEW S, 0 \in S, \A n \in Nat : n \in S => n + 1 \in S
    PROVE  Nat \subseteq S
  <1> DEFINE T == Nat \ S
             R == OpToRel(<, Nat)
  <1> SUFFICES ASSUME T # {} PROVE FALSE
    OBVIOUS
  <1>1. IsWellFoundedOn(R, Nat) /\ T \subseteq Nat
    BY NatLessThanWellFounded
  <1>2. ASSUME NEW x \in Nat, NEW y \in Nat, x < y PROVE <<x, y>> \in R
    BY <1>2 DEF OpToRel
  <1> HIDE DEF R, T
  <1>3. PICK x \in T : \A y \in T : ~(<<y, x>> \in R)
    BY <1>1, WFMin
  <1>4. x \in Nat /\ x # 0 /\ x - 1 \in Nat /\ x - 1 < x
    BY DEF T
  <1>5. <<x - 1, x>> \in R
    BY <1>2, <1>4
  <1>6. x - 1 \in S
    BY <1>3, <1>4, <1>5 DEF T
  <1>7. x \in S
    BY <1>4, <1>6
  <1>8. QED
    BY <1>7 DEF T

\* What holds of the first value and from each value to the next, holds of all.
LEMMA RunStays ==
    ASSUME NEW n \in Nat, NEW D, NEW f,
           f[0] \in D[0], \A k \in 1 .. n : f[k - 1] \in D[k - 1] => f[k] \in D[k]
    PROVE  \A k \in 0 .. n : f[k] \in D[k]
  <1> DEFINE S == {m \in Nat : m <= n => f[m] \in D[m]}
  <1>1. 0 \in S
    OBVIOUS
  <1>2. ASSUME NEW m \in Nat, m \in S PROVE m + 1 \in S
    <2>1. SUFFICES ASSUME m + 1 <= n PROVE f[m + 1] \in D[m + 1]
      OBVIOUS
    <2>2. m + 1 \in 1 .. n /\ (m + 1) - 1 = m
      BY <2>1
    <2>3. f[(m + 1) - 1] \in D[(m + 1) - 1]
      BY <1>2, <2>1, <2>2
    <2>4. QED
      BY <2>2, <2>3
  <1> HIDE DEF S
  <1>3. Nat \subseteq S
    BY <1>1, <1>2, NaturalInduction
  <1>4. QED
    BY <1>3 DEF S

\* f starts at base, and step[k] leads from its value at k-1 to that at k.
Runs(f, n, base, step) ==
    /\ f = [k \in 0 .. n |-> f[k]]
    /\ f[0] = base
    /\ \A k \in 1 .. n : f[k] = step[k][f[k - 1]]

LEMMA RunExists ==
    ASSUME NEW n \in Nat, NEW step, NEW base
    PROVE  \E f : Runs(f, n, base, step)
  <1> DEFINE S == {m \in Nat : \E f : Runs(f, m, base, step)}
  <1>1. 0 \in S
    <2> DEFINE f == [k \in 0 .. 0 |-> base]
    <2>1. Runs(f, 0, base, step)
      BY DEF Runs
    <2>2. QED
      BY <2>1
  <1>2. ASSUME NEW m \in Nat, m \in S PROVE m + 1 \in S
    <2>1. PICK g : Runs(g, m, base, step)
      BY <1>2
    <2> DEFINE f == [k \in 0 .. m + 1 |-> IF k <= m THEN g[k] ELSE step[m + 1][g[m]]]
    <2>2. f[0] = base /\ f[m + 1] = step[m + 1][f[m]]
      BY <2>1 DEF Runs
    <2>3. ASSUME NEW k \in 1 .. m PROVE f[k] = step[k][f[k - 1]]
      <3>1. k \in 0 .. m + 1 /\ k - 1 \in 0 .. m + 1 /\ k <= m /\ k - 1 <= m
        OBVIOUS
      <3>2. f[k] = g[k] /\ f[k - 1] = g[k - 1]
        BY <3>1
      <3> HIDE DEF f
      <3>3. QED
        BY <2>1, <3>2 DEF Runs
    <2>4. \A k \in 1 .. m + 1 : f[k] = step[k][f[k - 1]]
      <3>1. \A k \in 1 .. m + 1 : k \in 1 .. m \/ (k = m + 1 /\ k - 1 = m)
        OBVIOUS
      <3> HIDE DEF f
      <3>2. QED
        BY <2>2, <2>3, <3>1
    <2>5. f = [k \in 0 .. m + 1 |-> f[k]]
      OBVIOUS
    <2> HIDE DEF f
    <2>6. Runs(f, m + 1, base, step)
      BY <2>2, <2>4, <2>5 DEF Runs
    <2>7. QED
      BY <2>6
  <1> HIDE DEF S
  <1>3. Nat \subseteq S
    BY <1>1, <1>2, NaturalInduction
  <1>4. QED
    BY <1>3 DEF S

-----------------------------------------------------------------------------
(* Combat: the state of one player                                         *)

\* The numbers of the code, and no bot that is alive gets another owner.
FightParameters ==
    /\ IsFiniteSet(Players)
    /\ LifeSequences \in Nat \ {0, 1}
    /\ MaxHealth \in Nat \ {0} /\ MaxProjectiles \in Nat \ {0}
    /\ MaxEvents \in Nat
    /\ ~ShiftAlive

\* Who is alive has answered its offer and has not died since, nor has who may come
\* alive; a life that a listener ends counts two deaths; who has no health is about
\* to be respawned before the next offer; who is gone is forgotten.
Sane(s) ==
    /\ s.state = "alive" => s.health > 0 /\ s.deaths = 0 /\ ~s.lastspawn
    /\ s.deaths <= IF s.hunted THEN 2 ELSE 1
    /\ s.health > 0 \/ s.deadflush
    /\ s.lastspawn => s.health > 0 /\ s.deaths = 0
    /\ s.state = "gone" => s = Absent

Fighters == {s \in PlayerState : Sane(s)}

\* What processing an event may make of a player: it dies at most, and once it is
\* dead nothing but its projectiles changes.
Turned(s, r) ==
    /\ r \in Fighters
    /\ r.lifesequence = s.lifesequence
    /\ r.state = s.state \/ (s.state = "alive" /\ r.state = "dead")
    /\ r.lastspawn => s.lastspawn
    /\ s.state # "alive" => /\ r.health = s.health /\ r.deadflush = s.deadflush
                            /\ r.deaths = s.deaths

LEMMA AbsentIsSane ==
    ASSUME FightParameters
    PROVE  /\ Absent \in Fighters
           /\ \A how \in {"dead", "spectator"} : [Absent EXCEPT !.state = how] \in Fighters
  <1>1. /\ Absent \in PlayerState /\ Absent.health = MaxHealth /\ Absent.deaths = 0
        /\ Absent.state = "gone" /\ ~Absent.lastspawn
    BY DEF FightParameters, PlayerState, Absent
  <1>2. Absent \in Fighters
    BY <1>1 DEF FightParameters, Fighters, Sane
  <1>3. ASSUME NEW how \in {"dead", "spectator"} PROVE [Absent EXCEPT !.state = how] \in Fighters
    BY <1>1, <1>3 DEF FightParameters, Fighters, PlayerState, Sane
  <1>4. QED
    BY <1>2, <1>3

LEMMA OneField ==
    ASSUME NEW q \in PlayerState
    PROVE  /\ \A v \in {"gone", "spectator", "dead", "alive"} : [q EXCEPT !.state = v] \in PlayerState
           /\ \A v \in 0 .. MaxHealth : [q EXCEPT !.health = v] \in PlayerState
           /\ \A v \in 0 .. LifeSequences - 1 : [q EXCEPT !.lifesequence = v] \in PlayerState
           /\ \A v \in BOOLEAN : [q EXCEPT !.lastspawn = v] \in PlayerState
           /\ \A v \in BOOLEAN : [q EXCEPT !.deadflush = v] \in PlayerState
           /\ \A v \in 0 .. MaxProjectiles : [q EXCEPT !.projectiles = v] \in PlayerState
           /\ \A v \in 0 .. 2 : [q EXCEPT !.deaths = v] \in PlayerState
           /\ \A v \in BOOLEAN : [q EXCEPT !.hunted = v] \in PlayerState
  BY DEF PlayerState

LEMMA SameFields ==
    ASSUME NEW q \in PlayerState, NEW r \in PlayerState,
           q.state = r.state, q.health = r.health, q.lifesequence = r.lifesequence,
           q.lastspawn = r.lastspawn, q.deadflush = r.deadflush,
           q.projectiles = r.projectiles, q.deaths = r.deaths, q.hunted = r.hunted
    PROVE  q = r
  BY DEF PlayerState

LEMMA Hurt ==
    ASSUME FightParameters, NEW s \in Fighters, s.state = "alive", s.health > 1
    PROVE  Turned(s, [s EXCEPT !.health = @ - 1])
  BY DEF FightParameters, Fighters, PlayerState, Sane, Absent, Turned

LEMMA FallenIs ==
    ASSUME NEW s \in PlayerState, s.deaths <= 1
    PROVE  /\ Fallen(s) \in PlayerState
           /\ Fallen(s).state = "dead" /\ Fallen(s).deaths = s.deaths + 1
           /\ Fallen(s).health = s.health /\ Fallen(s).lifesequence = s.lifesequence
           /\ Fallen(s).lastspawn = s.lastspawn /\ Fallen(s).deadflush = s.deadflush
           /\ Fallen(s).hunted = s.hunted
  <1>1. Fallen(s) \in PlayerState
    <2>1. s.deaths + 1 \in 0 .. 2
      BY DEF PlayerState
    <2>2. QED
      BY <2>1, OneField, Zenon DEF Fallen
  <1>2. QED
    BY <1>1 DEF PlayerState, Fallen

LEMMA RespawnedIs ==
    ASSUME FightParameters, NEW s \in PlayerState
    PROVE  /\ Respawned(s) \in PlayerState
           /\ Respawned(s).health = MaxHealth /\ Respawned(s).lastspawn = FALSE
           /\ Respawned(s).deadflush = FALSE
           /\ Respawned(s).deaths = s.deaths /\ Respawned(s).state = s.state
           /\ Respawned(s).lifesequence = s.lifesequence
           /\ Respawned(s).projectiles = s.projectiles /\ Respawned(s).hunted = s.hunted
  <1>1. Respawned(s) \in PlayerState
    <2>1. MaxHealth \in 0 .. MaxHealth
      BY DEF FightParameters
    <2>2. QED
      BY <2>1, OneField, Zenon DEF Respawned
  <1>2. QED
    BY <1>1 DEF PlayerState, Respawned

\* dodamage: a life ends, twice over when a listener changes the team of the victim.
LEMMA Killed ==
    ASSUME FightParameters, NEW s \in Fighters, s.state = "alive"
    PROVE  Turned(s, Felled(s))
  <1>1. s \in PlayerState /\ s.deaths = 0 /\ s.lastspawn = FALSE
    BY DEF Fighters, Sane, PlayerState
  <1>2. CASE ~s.hunted
    <2> DEFINE q == Fallen(s)
               r == [q EXCEPT !.health = 0, !.deadflush = TRUE]
    <2>1. q \in PlayerState /\ q.state = "dead" /\ q.deaths = 1 /\ q.lastspawn = FALSE
          /\ q.lifesequence = s.lifesequence
      BY <1>1, FallenIs
    <2>2. Felled(s) = r
      BY <1>2 DEF Felled
    <2> HIDE DEF q
    <2>3. r \in PlayerState
      <3>1. 0 \in 0 .. MaxHealth
        BY DEF FightParameters
      <3>2. QED
        BY <2>1, <3>1, OneField, Zenon
    <2>4. r.state = "dead" /\ r.deadflush = TRUE /\ r.deaths = 1
          /\ r.lifesequence = s.lifesequence /\ r.lastspawn = FALSE
      BY <2>1 DEF PlayerState
    <2> HIDE DEF r
    <2>5. Turned(s, r)
      BY <1>1, <2>3, <2>4 DEF Fighters, Sane, Turned
    <2>6. QED
      BY <2>2, <2>5
  <1>3. CASE s.hunted
    <2> DEFINE o == [s EXCEPT !.deaths = @ + 1]
               p == Respawned(o)
               q == Fallen(p)
               r == [q EXCEPT !.deadflush = TRUE]
    <2>1. o \in PlayerState /\ o.deaths = 1 /\ o.lifesequence = s.lifesequence
          /\ o.hunted = s.hunted
      BY <1>1 DEF PlayerState
    <2>2. Felled(s) = r
      BY <1>3 DEF Felled
    <2> HIDE DEF o
    <2>3. p \in PlayerState /\ p.health = MaxHealth /\ p.deaths = 1 /\ p.lastspawn = FALSE
          /\ p.lifesequence = s.lifesequence /\ p.hunted = s.hunted
      BY <2>1, RespawnedIs
    <2> HIDE DEF p
    <2>4. q \in PlayerState /\ q.state = "dead" /\ q.health = MaxHealth /\ q.deaths = 2
          /\ q.lastspawn = FALSE /\ q.lifesequence = s.lifesequence /\ q.hunted = s.hunted
      BY <2>3, FallenIs
    <2> HIDE DEF q
    <2>5. r \in PlayerState /\ r.state = "dead" /\ r.deadflush = TRUE /\ r.deaths = 2
          /\ r.lastspawn = FALSE /\ r.lifesequence = s.lifesequence /\ r.hunted = TRUE
      BY <1>1, <1>3, <2>4 DEF PlayerState
    <2> HIDE DEF r
    <2>6. Turned(s, r)
      BY <1>1, <2>5 DEF Fighters, Sane, Turned
    <2>7. QED
      BY <2>2, <2>6
  <1>4. QED
    BY <1>2, <1>3

LEMMA SuicidedIsSane ==
    ASSUME FightParameters, NEW s \in Fighters, s.state = "alive"
    PROVE  /\ Turned(s, Fallen(Respawned(s))) /\ Fallen(Respawned(s)).health = MaxHealth
           /\ ~Suffers(s, Fallen(Respawned(s)))
  <1>1. s \in PlayerState /\ s.deaths = 0
    BY DEF Fighters, Sane
  <1> DEFINE q == Respawned(s)
             r == Fallen(q)
  <1>2. q \in PlayerState /\ q.health = MaxHealth /\ q.lastspawn = FALSE /\ q.deaths = 0
        /\ q.lifesequence = s.lifesequence
    BY <1>1, RespawnedIs
  <1> HIDE DEF q
  <1>3. r \in PlayerState /\ r.health = MaxHealth /\ r.lastspawn = FALSE /\ r.deaths = 1
        /\ r.lifesequence = s.lifesequence /\ r.state = "dead"
    BY <1>2, FallenIs
  <1> HIDE DEF r
  <1>4. Turned(s, r)
    BY <1>1, <1>3 DEF FightParameters, Fighters, Sane, Turned
  <1>5. ~Suffers(s, r)
    BY <1>1, <1>3 DEF Suffers, PlayerState, FightParameters
  <1>6. QED
    BY <1>3, <1>4, <1>5 DEF q, r

LEMMA ArmedIsSane ==
    ASSUME FightParameters, NEW s \in Fighters, NEW m \in 0 .. MaxProjectiles, s.state # "gone"
    PROVE  Turned(s, [s EXCEPT !.projectiles = m]) /\ ~Suffers(s, [s EXCEPT !.projectiles = m])
  BY DEF FightParameters, Fighters, PlayerState, Sane, Turned, Suffers

-----------------------------------------------------------------------------
(* Combat: processing events                                               *)

\* A hit on t that waits names the life that t is in.
Aimed(t) ==
    \E c \in Players : \E i \in DOMAIN events[c] :
        Names(events[c][i], t) /\ events[c][i].hit.lifesequence = player[t].lifesequence

\* What the players may become while the events that wait are processed.
Follows(w) ==
    /\ w \in [Players -> Fighters]
    /\ \A t \in Players :
          /\ Turned(player[t], w[t])
          /\ Suffers(player[t], w[t]) => player[t].state = "alive" /\ Aimed(t)

Queues == \A c \in Players : events[c] \in Seq(Event)

LEMMA NobodyTurned ==
    ASSUME player \in [Players -> Fighters]
    PROVE  Follows(player)
  <1>1. ASSUME NEW t \in Players PROVE Turned(player[t], player[t])
    BY DEF Turned
  <1>2. ASSUME NEW t \in Players PROVE ~Suffers(player[t], player[t])
    BY DEF Fighters, PlayerState, Suffers
  <1>3. QED
    BY <1>1, <1>2 DEF Follows

LEMMA OneTurned ==
    ASSUME player \in [Players -> Fighters], NEW w, Follows(w), NEW t \in Players, NEW r,
           Turned(w[t], r),
           Suffers(w[t], r) => w[t].state = "alive" /\ Aimed(t)
    PROVE  Follows([w EXCEPT ![t] = r])
  <1> DEFINE v == [w EXCEPT ![t] = r]
  <1>1. v \in [Players -> Fighters]
    BY DEF Follows, Turned
  <1>2. \A u \in Players : v[u] = IF u = t THEN r ELSE w[u]
    BY DEF Follows
  <1>3. Turned(player[t], r)
    BY DEF Follows, Turned
  <1>4. Suffers(player[t], r) => player[t].state = "alive" /\ Aimed(t)
    <2>1. /\ player[t] \in Fighters /\ w[t] \in Fighters /\ r \in Fighters
          /\ Turned(player[t], w[t])
      BY DEF Follows, Turned
    <2>2. CASE w[t].state # "alive"
      <3>1. Suffers(player[t], r) => Suffers(player[t], w[t])
        BY <2>2 DEF Turned, Suffers
      <3>2. QED
        BY <3>1 DEF Follows
    <2>3. CASE w[t].state = "alive"
      <3>1. player[t].state = "alive" /\ player[t].deaths = w[t].deaths
        BY <2>1, <2>3 DEF Turned, Fighters, Sane
      <3>2. player[t].health \in Int /\ w[t].health \in Int /\ r.health \in Int
        BY <2>1 DEF Fighters, PlayerState
      <3>3. Suffers(player[t], r) => Suffers(w[t], r) \/ Suffers(player[t], w[t])
        BY <3>1, <3>2 DEF Suffers
      <3>4. QED
        BY <3>1, <3>3 DEF Follows
    <2>4. QED
      BY <2>2, <2>3
  <1> HIDE DEF v
  <1>5. QED
    <2>1. Follows(v)
      BY <1>1, <1>2, <1>3, <1>4 DEF Follows
    <2>2. QED
      BY <2>1 DEF v

\* A hit that counts is one of the life that its target is in.
LEMMA StruckFollows ==
    ASSUME FightParameters, player \in [Players -> Fighters], Queues, NEW w, Follows(w),
           NEW c \in Players, NEW i \in DOMAIN events[c],
           events[c][i].kind \in {"shot", "explode"}
    PROVE  Follows(Struck(w, events[c][i].hit))
  <1> DEFINE h == events[c][i].hit
             t == h.target
  <1>1. events[c][i] \in Event /\ h \in Hit /\ t \in Players
    BY DEF Queues, Event, Hit
  <1>2. Names(events[c][i], t)
    BY DEF Names
  <1> HIDE DEF h
  <1>3. CASE ~Counts(w, h)
    BY <1>3 DEF Struck, h
  <1>4. CASE Counts(w, h)
    <2>1. w[t] \in Fighters /\ w[t].state = "alive" /\ Turned(player[t], w[t])
      BY <1>1, <1>4 DEF Counts, Follows
    <2>2. Aimed(t)
      BY <1>1, <1>2, <1>4, <2>1 DEF Aimed, Counts, Turned, h
    <2>3. CASE w[t].health > 1
      <3>1. Turned(w[t], [w[t] EXCEPT !.health = @ - 1])
        BY <2>1, <2>3, Hurt
      <3>2. Follows([w EXCEPT ![t] = [w[t] EXCEPT !.health = @ - 1]])
        BY <1>1, <2>1, <2>2, <3>1, OneTurned
      <3>3. [w EXCEPT ![t].health = @ - 1] = [w EXCEPT ![t] = [w[t] EXCEPT !.health = @ - 1]]
        BY DEF Follows
      <3>4. QED
        BY <1>4, <2>3, <3>2, <3>3 DEF Struck, Damaged, h
    <2>4. CASE ~(w[t].health > 1)
      <3> DEFINE r == Felled(w[t])
      <3>1. Turned(w[t], r)
        BY <2>1, Killed
      <3>2. Struck(w, h) = [w EXCEPT ![t] = r]
        <4>1. Struck(w, h) = Damaged(w, t)
          BY <1>4 DEF Struck
        <4>2. Damaged(w, t) = [w EXCEPT ![t] = r]
          BY <2>4, Zenon DEF Damaged
        <4>3. QED
          BY <4>1, <4>2
      <3> HIDE DEF r
      <3>3. QED
        BY <1>1, <2>1, <2>2, <3>1, <3>2, OneTurned DEF h
    <2>5. QED
      BY <2>3, <2>4
  <1>5. QED
    BY <1>3, <1>4

\* One event, whose owner need not be there any more.
LEMMA ProcessFollows ==
    ASSUME FightParameters, player \in [Players -> Fighters], Queues, NEW w, Follows(w),
           NEW c \in Players, NEW i \in DOMAIN events[c]
    PROVE  Follows(Process(w, c, events[c][i]))
  <1> DEFINE e == events[c][i]
  <1>1. e \in Event /\ w[c] \in Fighters
    BY DEF Queues, Follows
  <1>2. ASSUME NEW m \in 0 .. MaxProjectiles, w[c].state # "gone"
        PROVE  Follows([w EXCEPT ![c].projectiles = m])
    <2> DEFINE r == [w[c] EXCEPT !.projectiles = m]
    <2>1. Turned(w[c], r)
      BY <1>1, <1>2, ArmedIsSane
    <2>2. ~Suffers(w[c], r)
      BY <1>1, <1>2, ArmedIsSane
    <2>3. [w EXCEPT ![c].projectiles = m] = [w EXCEPT ![c] = r]
      BY Zenon
    <2> HIDE DEF r
    <2>4. QED
      BY <2>1, <2>2, <2>3, OneTurned
  <1>3. CASE e.kind = "shot"
    <2>1. Process(w, c, e) = Shot(w, c, e)
      BY <1>3 DEF Process
    <2>2. Follows(Struck(w, e.hit)) /\ Follows(Struck(Struck(w, e.hit), e.hit))
      BY <1>3, StruckFollows
    <2>3. QED
      BY <2>1, <2>2 DEF Shot
  <1>4. CASE e.kind = "explode"
    <2>1. Process(w, c, e) = Exploded(w, c, e)
      BY <1>4 DEF Process
    <2>2. CASE w[c].projectiles = 0
      BY <2>1, <2>2 DEF Exploded
    <2>3. CASE w[c].projectiles # 0
      <3>1. w[c].projectiles - 1 \in 0 .. MaxProjectiles /\ w[c].state # "gone"
        <4>1. w[c].projectiles \in 0 .. MaxProjectiles
          BY <1>1 DEF Fighters, PlayerState
        <4>2. w[c].state # "gone"
          BY <1>1, <2>3 DEF Fighters, Sane, Absent
        <4>3. QED
          BY <2>3, <4>1, <4>2 DEF FightParameters
      <3>2. Follows([w EXCEPT ![c].projectiles = @ - 1])
        BY <1>2, <3>1
      <3>3. Follows(Struck([w EXCEPT ![c].projectiles = @ - 1], e.hit))
        BY <1>4, <3>2, StruckFollows
      <3>4. QED
        BY <2>1, <2>3, <3>3 DEF Exploded
    <2>4. QED
      BY <2>2, <2>3
  <1>5. CASE e.kind = "launch"
    <2>1. Process(w, c, e) = Launched(w, c)
      BY <1>5 DEF Process
    <2>2. CASE w[c].state \notin {"alive", "dead"}
      BY <2>1, <2>2 DEF Launched
    <2>3. CASE w[c].state \in {"alive", "dead"}
      <3> DEFINE m == IF w[c].projectiles = MaxProjectiles THEN 1 ELSE w[c].projectiles + 1
      <3>1. m \in 0 .. MaxProjectiles /\ w[c].state # "gone"
        BY <1>1, <2>3 DEF Fighters, PlayerState, FightParameters
      <3>2. Launched(w, c) = [w EXCEPT ![c].projectiles = m]
        BY <2>3, Zenon DEF Launched
      <3> HIDE DEF m
      <3>3. QED
        BY <1>2, <2>1, <3>1, <3>2
    <2>4. QED
      BY <2>2, <2>3
  <1>6. CASE e.kind = "suicide"
    <2>1. Process(w, c, e) = Suicided(w, c)
      BY <1>6 DEF Process
    <2>2. CASE w[c].state # "alive"
      BY <2>1, <2>2 DEF Suicided
    <2>3. CASE w[c].state = "alive"
      <3> DEFINE r == Fallen(Respawned(w[c]))
      <3>1. Turned(w[c], r) /\ ~Suffers(w[c], r)
        BY <1>1, <2>3, SuicidedIsSane
      <3>2. Suicided(w, c) = [w EXCEPT ![c] = r]
        BY <2>3, Zenon DEF Suicided
      <3> HIDE DEF r
      <3>3. Follows([w EXCEPT ![c] = r])
        BY <3>1, OneTurned
      <3>4. QED
        BY <2>1, <3>2, <3>3
    <2>4. QED
      BY <2>2, <2>3
  <1>7. QED
    BY <1>1, <1>3, <1>4, <1>5, <1>6 DEF Event

\* flushevents: the first n events of one client.
LEMMA FlushFollows ==
    ASSUME FightParameters, player \in [Players -> Fighters], Queues, NEW w, Follows(w),
           NEW c \in Players, NEW n \in 0 .. Len(events[c])
    PROVE  Follows(Flush(w, c, n))
  <1> DEFINE W == {v \in [Players -> Fighters] : Follows(v)}
             step == [k \in 1 .. n |-> [v \in W |-> Process(v, c, events[c][k])]]
             D == [k \in 0 .. n |-> W]
             Onward(f, k) == IF k = 0 THEN w ELSE Process(f[k - 1], c, events[c][k])
             Recursive(f) == f = [k \in 0 .. n |-> Onward(f, k)]
  <1>1. w \in W /\ n \in Nat
    BY DEF Follows
  <1>2. ASSUME NEW k \in 1 .. n, NEW v \in W PROVE Process(v, c, events[c][k]) \in W
    <2>1. k \in DOMAIN events[c]
      BY DEF Queues
    <2>2. Follows(Process(v, c, events[c][k]))
      BY <2>1, ProcessFollows
    <2>3. QED
      BY <2>2 DEF Follows
  <1>3. PICK f : Runs(f, n, w, step)
    BY <1>1, RunExists
  <1> HIDE DEF W
  <1>4. Recursive(f)
    <2>1. \A k \in 1 .. n : f[k - 1] \in W => f[k] = Process(f[k - 1], c, events[c][k])
      BY <1>3 DEF Runs
    <2>2. \A k \in 0 .. n : f[k] \in D[k]
      <3>1. f[0] \in D[0]
        BY <1>1, <1>3 DEF Runs
      <3>2. \A k \in 1 .. n : f[k - 1] \in D[k - 1] => f[k] \in D[k]
        BY <1>2, <2>1
      <3> HIDE DEF D, step
      <3>3. QED
        BY <1>1, <3>1, <3>2, RunStays
    <2>3. \A k \in 0 .. n : f[k] = Onward(f, k)
      <3>1. f[0] = Onward(f, 0)
        BY <1>3 DEF Runs
      <3>2. ASSUME NEW k \in 1 .. n PROVE f[k] = Onward(f, k)
        BY <2>1, <2>2
      <3>3. QED
        BY <3>1, <3>2
    <2>4. f = [k \in 0 .. n |-> f[k]]
      BY <1>3 DEF Runs
    <2> HIDE DEF Onward
    <2>5. QED
      BY <2>3, <2>4
  <1> DEFINE g == CHOOSE h : Recursive(h)
  <1>5. Recursive(g)
    <2> HIDE DEF Recursive
    <2>1. QED
      BY <1>4
  <1>6. Flush(w, c, n) = g[n]
    BY DEF Flush
  <1> HIDE DEF g
  <1>7. \A k \in 0 .. n : g[k] \in D[k]
    <2>1. \A k \in 0 .. n : g[k] = Onward(g, k)
      <3> HIDE DEF Onward
      <3>1. QED
        BY <1>5
    <2>2. g[0] \in D[0]
      BY <1>1, <2>1
    <2>3. \A k \in 1 .. n : g[k - 1] \in D[k - 1] => g[k] \in D[k]
      BY <1>2, <2>1
    <2> HIDE DEF D
    <2>4. QED
      BY <1>1, <2>2, <2>3, RunStays
  <1>8. QED
    BY <1>1, <1>6, <1>7 DEF W

\* processevents: the due events of all clients, in any order.
LEMMA FlushAllFollows ==
    ASSUME FightParameters, player \in [Players -> Fighters], Queues,
           NEW order \in [1 .. Cardinality(Players) -> Players], NEW n,
           \A c \in Players : n[c] \in 0 .. Len(events[c])
    PROVE  Follows(FlushAll(order, n))
  <1> DEFINE m == Cardinality(Players)
             W == {v \in [Players -> Fighters] : Follows(v)}
             Done(v, k) == Flush(v, order[k], n[order[k]])
             step == [k \in 1 .. m |-> [v \in W |-> Done(v, k)]]
             D == [k \in 0 .. m |-> W]
             Onward(f, k) == IF k = 0 THEN player ELSE Done(f[k - 1], k)
             Recursive(f) == f = [k \in 0 .. m |-> Onward(f, k)]
  <1>1. player \in W /\ m \in Nat
    BY NobodyTurned, FS_CardinalityType DEF FightParameters
  <1>2. ASSUME NEW k \in 1 .. m, NEW v \in W PROVE Done(v, k) \in W
    <2>1. order[k] \in Players /\ n[order[k]] \in 0 .. Len(events[order[k]])
      OBVIOUS
    <2>2. Follows(Flush(v, order[k], n[order[k]]))
      BY <2>1, FlushFollows
    <2>3. QED
      BY <2>2 DEF Follows
  <1> HIDE DEF m, Done
  <1>3. PICK f : Runs(f, m, player, step)
    BY <1>1, RunExists
  <1> HIDE DEF W
  <1>4. Recursive(f)
    <2>1. \A k \in 1 .. m : f[k - 1] \in W => f[k] = Done(f[k - 1], k)
      BY <1>3 DEF Runs
    <2>2. \A k \in 0 .. m : f[k] \in D[k]
      <3>1. f[0] \in D[0]
        BY <1>1, <1>3 DEF Runs
      <3>2. \A k \in 1 .. m : f[k - 1] \in D[k - 1] => f[k] \in D[k]
        <4>1. \A k \in 1 .. m : k \in 0 .. m /\ k - 1 \in 0 .. m
          BY <1>1
        <4>2. QED
          BY <1>2, <2>1, <4>1
      <3> HIDE DEF D, step
      <3>3. QED
        BY <1>1, <3>1, <3>2, RunStays
    <2>3. \A k \in 0 .. m : f[k] = Onward(f, k)
      <3>1. f[0] = Onward(f, 0)
        BY <1>3 DEF Runs
      <3>2. ASSUME NEW k \in 1 .. m PROVE f[k] = Onward(f, k)
        BY <1>1, <2>1, <2>2
      <3>3. QED
        BY <1>1, <3>1, <3>2
    <2>4. f = [k \in 0 .. m |-> f[k]]
      BY <1>3 DEF Runs
    <2> HIDE DEF Onward
    <2>5. QED
      BY <2>3, <2>4
  <1> DEFINE g == CHOOSE h : Recursive(h)
  <1>5. Recursive(g)
    <2> HIDE DEF Recursive
    <2>1. QED
      BY <1>4
  <1>6. FlushAll(order, n) = g[m]
    BY DEF FlushAll, m, Done
  <1> HIDE DEF g
  <1>7. \A k \in 0 .. m : g[k] \in D[k]
    <2>1. \A k \in 0 .. m : g[k] = Onward(g, k)
      <3> HIDE DEF Onward
      <3>1. QED
        BY <1>5
    <2>2. g[0] \in D[0]
      BY <1>1, <2>1
    <2>3. \A k \in 1 .. m : g[k - 1] \in D[k - 1] => g[k] \in D[k]
      <3>1. \A k \in 1 .. m : k \in 0 .. m /\ k - 1 \in 0 .. m
        BY <1>1
      <3>2. \A k \in 1 .. m : g[k] = Done(g[k - 1], k)
        BY <1>1, <2>1
      <3>3. QED
        BY <1>2, <3>1, <3>2
    <2> HIDE DEF D
    <2>4. QED
      BY <1>1, <2>2, <2>3, RunStays
  <1>8. QED
    BY <1>1, <1>6, <1>7 DEF W

\* cleartimedevents only drops events.
LEMMA KeepableKeeps ==
    ASSUME NEW R, NEW s \in Seq(R)
    PROVE  Keepable(s) \in Seq(R) /\ Len(Keepable(s)) <= Len(s)
  <1> DEFINE n == Len(s)
             W == Seq(R)
             D == [k \in 0 .. n |-> {q \in W : Len(q) <= k}]
             Kept(q, k) == IF s[k].kind = "explode" THEN Append(q, s[k]) ELSE q
             step == [k \in 1 .. n |-> [q \in W |-> Kept(q, k)]]
             Onward(f, k) == IF k = 0 THEN <<>> ELSE Kept(f[k - 1], k)
             Recursive(f) == f = [k \in 0 .. n |-> Onward(f, k)]
  <1>1. n \in Nat /\ <<>> \in D[0]
    OBVIOUS
  <1>2. \A k \in 1 .. n : \A q \in D[k - 1] : q \in W /\ Kept(q, k) \in D[k]
    <2>1. SUFFICES ASSUME NEW k \in 1 .. n, NEW q \in D[k - 1] PROVE q \in W /\ Kept(q, k) \in D[k]
      OBVIOUS
    <2>2. k - 1 \in 0 .. n /\ k \in 0 .. n /\ s[k] \in R
      OBVIOUS
    <2>3. q \in W /\ Len(q) <= k - 1 /\ Len(q) \in Nat
      BY <2>2
    <2>4. Append(q, s[k]) \in W /\ Len(Append(q, s[k])) = Len(q) + 1
      BY <2>2, <2>3
    <2>5. Kept(q, k) \in W /\ Len(Kept(q, k)) <= k
      BY <2>3, <2>4
    <2> HIDE DEF Kept
    <2>6. QED
      BY <2>2, <2>3, <2>5
  <1>3. PICK f : Runs(f, n, <<>>, step)
    BY <1>1, RunExists
  <1> HIDE DEF n, W, Kept
  <1>4. Recursive(f)
    <2>1. \A k \in 1 .. n : f[k - 1] \in W => f[k] = Kept(f[k - 1], k)
      BY <1>3 DEF Runs
    <2>2. \A k \in 0 .. n : f[k] \in D[k]
      <3>1. f[0] \in D[0]
        BY <1>1, <1>3 DEF Runs
      <3>2. \A k \in 1 .. n : f[k - 1] \in D[k - 1] => f[k] \in D[k]
        <4> HIDE DEF D
        <4>1. QED
          BY <1>1, <1>2, <2>1
      <3> HIDE DEF D, step
      <3>3. QED
        BY <1>1, <3>1, <3>2, RunStays
    <2>3. \A k \in 0 .. n : f[k] = Onward(f, k)
      <3>1. f[0] = Onward(f, 0)
        BY <1>3 DEF Runs
      <3>2. ASSUME NEW k \in 1 .. n PROVE f[k] = Onward(f, k)
        <4>1. f[k - 1] \in W
          BY <1>1, <2>2
        <4>2. QED
          BY <1>1, <2>1, <4>1
      <3>3. QED
        BY <1>1, <3>1, <3>2
    <2>4. f = [k \in 0 .. n |-> f[k]]
      BY <1>3 DEF Runs
    <2> HIDE DEF Onward
    <2>5. QED
      BY <2>3, <2>4
  <1> DEFINE g == CHOOSE h : Recursive(h)
  <1>5. Recursive(g)
    <2> HIDE DEF Recursive
    <2>1. QED
      BY <1>4
  <1>6. Keepable(s) = g[n]
    BY DEF Keepable, n, Kept
  <1> HIDE DEF g
  <1>7. \A k \in 0 .. n : g[k] \in D[k]
    <2>1. \A k \in 0 .. n : g[k] = Onward(g, k)
      <3> HIDE DEF Onward
      <3>1. QED
        BY <1>5
    <2>2. g[0] \in D[0]
      BY <1>1, <2>1
    <2>3. \A k \in 1 .. n : g[k - 1] \in D[k - 1] => g[k] \in D[k]
      <3>1. \A k \in 1 .. n : g[k] = Kept(g[k - 1], k)
        BY <1>1, <2>1
      <3> HIDE DEF D
      <3>2. QED
        BY <1>2, <3>1
    <2> HIDE DEF D
    <2>4. QED
      BY <1>1, <2>2, <2>3, RunStays
  <1>8. QED
    BY <1>1, <1>6, <1>7 DEF W, n

-----------------------------------------------------------------------------
(* Combat: the invariant                                                   *)

Queued(c) == {events[c][i] : i \in DOMAIN events[c]}

\* A hit whose target has spawned since, or has been offered to, is not of the
\* life that the target is in.
InTime ==
    \A c, t \in Players : \A e \in Queued(c) :
        Names(e, t) /\ player[t].state # "gone" /\ (e.hit.stale \/ player[t].lastspawn)
            => e.hit.lifesequence # player[t].lifesequence

EventsTyped ==
    /\ events = [c \in Players |-> events[c]]
    /\ \A c \in Players : events[c] \in Seq(Event) /\ Len(events[c]) <= MaxEvents + 1

OffersTyped == offers \in [Players -> Seq(0 .. LifeSequences - 1)]

FightInv ==
    /\ player \in [Players -> Fighters]
    /\ EventsTyped
    /\ OffersTyped
    /\ InTime

\* What keeps InTime for a player: no new life, no new offer.
Calm(s, r) ==
    r.state # "gone" => /\ s.state # "gone" /\ r.lifesequence = s.lifesequence
                        /\ r.lastspawn => s.lastspawn

LEMMA TurnedIsCalm ==
    ASSUME NEW s, NEW r, Turned(s, r)
    PROVE  Calm(s, r)
  BY DEF Turned, Calm

LEMMA CalmKeeps ==
    ASSUME InTime, \A c \in Players : Queued(c)' \subseteq Queued(c),
           \A t \in Players : Calm(player[t], player'[t])
    PROVE  InTime'
  <1> SUFFICES ASSUME NEW c \in Players, NEW t \in Players, NEW e \in Queued(c)',
                      Names(e, t), player'[t].state # "gone",
                      e.hit.stale \/ player'[t].lastspawn
               PROVE  e.hit.lifesequence # player'[t].lifesequence
    BY DEF InTime, Names
  <1>1. e \in Queued(c)
    OBVIOUS
  <1>2. player[t].state # "gone" /\ player'[t].lifesequence = player[t].lifesequence
        /\ (e.hit.stale \/ player[t].lastspawn)
    BY DEF Calm
  <1>3. QED
    BY <1>1, <1>2 DEF InTime

\* The queue of one client loses events.
LEMMA FewerEvents ==
    ASSUME FightParameters, EventsTyped,
           NEW c \in Players, NEW q \in Seq(Queued(c)), Len(q) <= Len(events[c]),
           events' = [events EXCEPT ![c] = q]
    PROVE  EventsTyped' /\ \A d \in Players : Queued(d)' \subseteq Queued(d)
  <1>1. \A d \in Players : events'[d] = IF d = c THEN q ELSE events[d]
    BY DEF EventsTyped
  <1>2. \A d \in Players : Queued(d)' \subseteq Queued(d)
    BY <1>1 DEF Queued
  <1>3. q \in Seq(Event) /\ Len(q) <= MaxEvents + 1
    <2>1. Queued(c) \subseteq Event
      BY DEF EventsTyped, Queued
    <2>2. q \in Seq(Event) /\ Len(q) \in Nat /\ Len(events[c]) \in Nat
      BY <2>1 DEF EventsTyped
    <2>3. QED
      BY <2>2 DEF EventsTyped, FightParameters
  <1>4. EventsTyped'
    <2>1. events' = [d \in Players |-> events'[d]]
      BY DEF EventsTyped
    <2>2. \A d \in Players : events'[d] \in Seq(Event) /\ Len(events'[d]) <= MaxEvents + 1
      BY <1>1, <1>3 DEF EventsTyped
    <2>3. QED
      BY <2>1, <2>2 DEF EventsTyped
  <1>5. QED
    BY <1>2, <1>4

LEMMA AfterKeeps ==
    ASSUME NEW c \in Players, NEW n \in 0 .. Len(events[c]), events[c] \in Seq(Event)
    PROVE  After(c, n) \in Seq(Queued(c)) /\ Len(After(c, n)) <= Len(events[c])
  <1>1. events[c] \in Seq(Queued(c))
    BY DEF Queued
  <1>2. QED
    BY <1>1 DEF After

LEMMA SequencesStay ==
    ASSUME NEW R, NEW q \in Seq(R), NEW x \in R
    PROVE  Append(q, x) \in Seq(R) /\ (q # <<>> => Tail(q) \in Seq(R))
  OBVIOUS

LEMMA NoEventsKept ==
    ASSUME NEW c \in Players, events[c] \in Seq(Event)
    PROVE  <<>> \in Seq(Queued(c)) /\ Len(<<>>) <= Len(events[c])
  OBVIOUS

LEMMA OfferedIs ==
    ASSUME FightParameters, NEW s \in PlayerState
    PROVE  /\ Offered(s) \in PlayerState
           /\ Offered(s).lastspawn = TRUE
           /\ Offered(s).lifesequence = (s.lifesequence + 1) % LifeSequences
           /\ Offered(s).state = s.state /\ Offered(s).health = s.health
           /\ Offered(s).deaths = 0 /\ Offered(s).deadflush = s.deadflush
           /\ Offered(s).hunted = FALSE
  <1>1. Offered(s) \in PlayerState
    <2>1. (s.lifesequence + 1) % LifeSequences \in 0 .. LifeSequences - 1 /\ 0 \in 0 .. 2
      BY DEF FightParameters, PlayerState
    <2>2. QED
      BY <2>1, OneField, Zenon DEF Offered
  <1>2. QED
    BY <1>1 DEF PlayerState, Offered

LEMMA OfferedIsSane ==
    ASSUME FightParameters, NEW s \in PlayerState, s.state \notin {"alive", "gone"},
           s.health > 0
    PROVE  Offered(s) \in Fighters
  <1> DEFINE r == Offered(s)
  <1>1. /\ r \in PlayerState /\ r.state \notin {"alive", "gone"} /\ r.health > 0
        /\ r.deaths = 0 /\ r.hunted = FALSE
    BY OfferedIs
  <1> HIDE DEF r
  <1>2. r \in Fighters
    BY <1>1 DEF Fighters, Sane
  <1>3. QED
    BY <1>2 DEF r

-----------------------------------------------------------------------------
(* Combat: one step                                                        *)

\* What a step owes to HitsOwnLife.
Earned ==
    \A t \in Players : Suffers(player[t], player'[t]) =>
        \E c \in Players : \E i \in DOMAIN events[c] :
            Names(events[c][i], t) /\ ~events[c][i].hit.stale

Good == FightInv' /\ Earned

LEMMA AimedIsFresh ==
    ASSUME FightInv, NEW t \in Players, player[t].state = "alive", Aimed(t)
    PROVE  \E c \in Players : \E i \in DOMAIN events[c] :
               Names(events[c][i], t) /\ ~events[c][i].hit.stale
  <1>0. PICK c \in Players : \E i \in DOMAIN events[c] :
            Names(events[c][i], t) /\ events[c][i].hit.lifesequence = player[t].lifesequence
    BY DEF Aimed
  <1>1. PICK i \in DOMAIN events[c] :
            Names(events[c][i], t) /\ events[c][i].hit.lifesequence = player[t].lifesequence
    BY <1>0
  <1>2. events[c][i] \in Queued(c)
    BY DEF Queued
  <1>3. ~events[c][i].hit.stale
    BY <1>1, <1>2 DEF FightInv, InTime
  <1>4. QED
    BY <1>1, <1>3

LEMMA NobodySuffers ==
    ASSUME FightInv
    PROVE  \A t \in Players : ~Suffers(player[t], player[t])
  <1>1. \A t \in Players : player[t].health \in 0 .. MaxHealth /\ player[t].deaths \in 0 .. 2
    BY DEF FightInv, Fighters, PlayerState
  <1>2. QED
    BY <1>1 DEF Suffers

\* A step of one player that makes it no weaker, keeps its life and touches no
\* queue but its own.
LEMMA OneCalm ==
    ASSUME FightParameters, FightInv, NEW c \in Players, NEW r \in Fighters, Calm(player[c], r),
           ~Suffers(player[c], r),
           player' = [player EXCEPT ![c] = r],
           \/ UNCHANGED events
           \/ events' = [events EXCEPT ![c] = <<>>],
           OffersTyped'
    PROVE  Good
  <1>1. \A t \in Players : player'[t] = IF t = c THEN r ELSE player[t]
    BY DEF FightInv
  <1>2. player' \in [Players -> Fighters]
    BY DEF FightInv
  <1>3. EventsTyped' /\ \A d \in Players : Queued(d)' \subseteq Queued(d)
    <2>1. CASE UNCHANGED events
      BY <2>1 DEF FightInv, EventsTyped, Queued
    <2>2. CASE events' = [events EXCEPT ![c] = <<>>]
      <3>1. events[c] \in Seq(Event)
        BY DEF FightInv, EventsTyped
      <3>2. QED
        BY <2>2, <3>1, NoEventsKept, FewerEvents DEF FightInv
    <2>3. QED
      BY <2>1, <2>2
  <1>4. InTime'
    <2>1. \A t \in Players : Calm(player[t], player'[t])
      BY <1>1 DEF Calm
    <2>2. QED
      BY <1>3, <2>1, CalmKeeps DEF FightInv
  <1>5. Earned
    <2>1. \A t \in Players : ~Suffers(player[t], player[t])
      BY NobodySuffers
    <2>2. ASSUME NEW t \in Players PROVE ~Suffers(player[t], player'[t])
      <3>1. CASE t = c
        BY <1>1, <3>1
      <3>2. CASE t # c
        BY <1>1, <2>1, <3>2
      <3>3. QED
        BY <3>1, <3>2
    <2>3. QED
      BY <2>2 DEF Earned
  <1>6. QED
    BY <1>2, <1>3, <1>4, <1>5 DEF FightInv, Good

\* addevent
LEMMA QueueGood ==
    ASSUME FightParameters, FightInv, NEW c \in Players, NEW e \in Event, Queue(c, e),
           \A t \in Players : Names(e, t) => ~e.hit.stale /\ ~player[t].lastspawn
    PROVE  Good
  <1>1. UNCHANGED <<player, offers>> /\ events' = [events EXCEPT ![c] = Append(events[c], e)]
        /\ Len(events[c]) <= MaxEvents
    BY DEF Queue
  <1>2. \A d \in Players : events'[d] = IF d = c THEN Append(events[c], e) ELSE events[d]
    BY <1>1 DEF FightInv, EventsTyped
  <1>3. EventsTyped'
    <2>1. events' = [d \in Players |-> events'[d]]
      BY <1>1 DEF FightInv, EventsTyped
    <2>2. events[c] \in Seq(Event)
      BY DEF FightInv, EventsTyped
    <2>3. Append(events[c], e) \in Seq(Event) /\ Len(Append(events[c], e)) <= MaxEvents + 1
      BY <1>1, <2>2 DEF FightParameters
    <2>4. QED
      BY <1>2, <2>1, <2>3 DEF FightInv, EventsTyped
  <1>4. InTime'
    <2>1. \A d \in Players : Queued(d)' \subseteq Queued(d) \cup {e}
      <3>1. events[c] \in Seq(Event)
        BY DEF FightInv, EventsTyped
      <3>2. ASSUME NEW i \in DOMAIN Append(events[c], e)
            PROVE  Append(events[c], e)[i] \in Queued(c) \cup {e}
        BY <3>1 DEF Queued
      <3>3. ASSUME NEW d \in Players PROVE Queued(d)' \subseteq Queued(d) \cup {e}
        <4>1. CASE d = c
          <5>1. events'[c] = Append(events[c], e)
            BY <1>2
          <5>2. Queued(c)' = {Append(events[c], e)[i] : i \in DOMAIN Append(events[c], e)}
            BY <5>1 DEF Queued
          <5>3. QED
            BY <3>2, <4>1, <5>2
        <4>2. CASE d # c
          <5>1. events'[d] = events[d]
            BY <1>2, <4>2
          <5>2. Queued(d)' = Queued(d)
            BY <5>1 DEF Queued
          <5>3. QED
            BY <5>2
        <4>3. QED
          BY <4>1, <4>2
      <3>4. QED
        BY <3>3
    <2>2. QED
      BY <1>1, <2>1 DEF FightInv, InTime, Names
  <1>5. Earned
    <2>1. \A t \in Players : ~Suffers(player[t], player'[t])
      BY <1>1 DEF FightInv, Fighters, PlayerState, Suffers
    <2>2. QED
      BY <2>1 DEF Earned
  <1>6. QED
    BY <1>1, <1>3, <1>4, <1>5 DEF FightInv, Good, OffersTyped

LEMMA FireGood ==
    ASSUME FightParameters, FightInv, NEW c \in Players, NEW t \in Players,
           NEW kind \in {"shot", "explode"}, NEW rays \in 1 .. 2, Fire(c, t, kind, rays)
    PROVE  Good
  <1> DEFINE h == [target |-> t, lifesequence |-> player[t].lifesequence, stale |-> FALSE]
             e == [kind |-> kind, rays |-> rays, hit |-> h]
  <1>1. Queue(c, e) /\ player[t].state = "alive"
    BY DEF Fire
  <1>2. player[t] \in Fighters
    BY DEF FightInv
  <1>3. h \in Hit
    BY <1>2 DEF Hit, Fighters, PlayerState
  <1>4. e \in Event
    <2> HIDE DEF h
    <2>1. QED
      BY <1>3 DEF Event
  <1>5. \A u \in Players : Names(e, u) => ~e.hit.stale /\ ~player[u].lastspawn
    BY <1>1, <1>2 DEF Names, Fighters, Sane
  <1> HIDE DEF e
  <1>6. QED
    BY <1>1, <1>4, <1>5, QueueGood

LEMMA LaunchAndSuicideGood ==
    ASSUME FightParameters, FightInv, NEW c \in Players, Launch(c) \/ Suicide(c)
    PROVE  Good
  <1>1. PICK kind \in {"launch", "suicide"} : Queue(c, [kind |-> kind])
    BY DEF Launch, Suicide
  <1> DEFINE e == [kind |-> kind]
  <1>2. e \in Event /\ \A t \in Players : ~Names(e, t)
    BY <1>1 DEF Event, Names
  <1> HIDE DEF e
  <1>3. QED
    BY <1>1, <1>2, QueueGood DEF e

LEMMA NothingGood ==
    ASSUME FightParameters, FightInv, UNCHANGED <<player, events>>, OffersTyped'
    PROVE  Good
  <1>1. player' \in [Players -> Fighters] /\ EventsTyped'
    BY DEF FightInv, EventsTyped
  <1>2. InTime'
    <2>1. \A d \in Players : Queued(d)' = Queued(d)
      BY DEF Queued
    <2>2. QED
      BY <2>1 DEF FightInv, InTime, Names
  <1>3. Earned
    <2>1. \A t \in Players : ~Suffers(player[t], player'[t])
      BY DEF FightInv, Fighters, PlayerState, Suffers
    <2>2. QED
      BY <2>1 DEF Earned
  <1>4. QED
    BY <1>1, <1>2, <1>3 DEF FightInv, Good

LEMMA SwitchTeamGood ==
    ASSUME FightParameters, FightInv, NEW c \in Players, SwitchTeam(c)
    PROVE  Good
  <1> DEFINE r == Fallen(Respawned(player[c]))
  <1>1. player[c] \in Fighters /\ player[c].state = "alive"
    BY DEF FightInv, SwitchTeam
  <1>2. Turned(player[c], r) /\ ~Suffers(player[c], r)
    BY <1>1, SuicidedIsSane
  <1>3. player' = [player EXCEPT ![c] = r]
    BY <1>1, Zenon DEF SwitchTeam, Suicided
  <1>4. UNCHANGED events /\ OffersTyped'
    BY DEF SwitchTeam, FightInv, OffersTyped
  <1> HIDE DEF r
  <1>5. r \in Fighters /\ Calm(player[c], r) /\ ~Suffers(player[c], r)
    BY <1>2, TurnedIsCalm DEF Turned
  <1>6. QED
    BY <1>3, <1>4, <1>5, OneCalm

LEMMA DisconnectedGood ==
    ASSUME FightParameters, FightInv, NEW c \in Players, Disconnected(c)
    PROVE  Good
  <1>1. Absent \in Fighters /\ Absent.state = "gone" /\ Absent.health = MaxHealth
        /\ Absent.deaths = 0
    BY AbsentIsSane DEF Absent
  <1>2. player[c].health \in 0 .. MaxHealth /\ player[c].deaths \in 0 .. 2
    BY DEF FightInv, Fighters, PlayerState
  <1>3. Calm(player[c], Absent) /\ ~Suffers(player[c], Absent)
    BY <1>1, <1>2 DEF Calm, FightParameters, Suffers
  <1>4. OffersTyped'
    BY DEF Disconnected, FightInv, OffersTyped
  <1>5. QED
    BY <1>1, <1>3, <1>4, OneCalm DEF Disconnected

LEMMA SpectateAndSlayGood ==
    ASSUME FightParameters, FightInv, NEW c \in Players, Spectate(c) \/ Slay(c)
    PROVE  Good
  <1>1. PICK how \in {"spectator", "dead"} :
            /\ player' = [player EXCEPT ![c].state = how]
            /\ player[c].state \in {"dead", "alive"}
            /\ UNCHANGED <<events, offers>>
    BY DEF Spectate, Slay, Plays
  <1> DEFINE r == [player[c] EXCEPT !.state = how]
  <1>2. player[c] \in Fighters
    BY DEF FightInv
  <1>3. r \in Fighters /\ Calm(player[c], r) /\ ~Suffers(player[c], r)
    BY <1>1, <1>2 DEF Fighters, Sane, PlayerState, Calm, Suffers
  <1>4. player' = [player EXCEPT ![c] = r]
    BY <1>1, Zenon
  <1>5. OffersTyped'
    BY <1>1 DEF FightInv, OffersTyped
  <1> HIDE DEF r
  <1>6. QED
    BY <1>1, <1>3, <1>4, <1>5, OneCalm

LEMMA UnspectateGood ==
    ASSUME FightParameters, FightInv, NEW c \in Players, Unspectate(c)
    PROVE  Good
  <1> DEFINE q == Respawned(player[c])
             r == [q EXCEPT !.state = "dead"]
  <1>1. player[c] \in PlayerState /\ Sane(player[c]) /\ player[c].state = "spectator"
    BY DEF FightInv, Fighters, Unspectate
  <1>2. /\ q \in PlayerState /\ q.health = MaxHealth /\ q.lastspawn = FALSE
        /\ q.deaths = player[c].deaths /\ q.lifesequence = player[c].lifesequence
        /\ q.hunted = player[c].hunted
    BY <1>1, RespawnedIs
  <1>3. player' = [player EXCEPT ![c] = r] /\ UNCHANGED events /\ OffersTyped'
    BY DEF Unspectate, FightInv, OffersTyped
  <1> HIDE DEF q
  <1>4. /\ r \in PlayerState /\ r.state = "dead" /\ r.health = MaxHealth /\ r.lastspawn = FALSE
        /\ r.deaths = player[c].deaths /\ r.lifesequence = player[c].lifesequence
        /\ r.hunted = player[c].hunted
    BY <1>2 DEF PlayerState
  <1> HIDE DEF r
  <1>5. r \in Fighters /\ Calm(player[c], r) /\ ~Suffers(player[c], r)
    BY <1>1, <1>4 DEF Fighters, Sane, PlayerState, Calm, FightParameters, Suffers
  <1>6. QED
    BY <1>3, <1>5, OneCalm

LEMMA ReassignGood ==
    ASSUME FightParameters, FightInv, NEW c \in Players, Reassign(c)
    PROVE  Good
  <1> DEFINE q == Respawned(player[c])
             r == [q EXCEPT !.projectiles = 0]
  <1>1. player[c] \in PlayerState /\ Sane(player[c]) /\ player[c].state = "dead"
    BY DEF FightInv, Fighters, Reassign, FightParameters, Plays
  <1>2. /\ q \in PlayerState /\ q.health = MaxHealth /\ q.lastspawn = FALSE /\ q.state = "dead"
        /\ q.deaths = player[c].deaths /\ q.lifesequence = player[c].lifesequence
        /\ q.hunted = player[c].hunted
    BY <1>1, RespawnedIs
  <1>3. player' = [player EXCEPT ![c] = r] /\ events' = [events EXCEPT ![c] = <<>>]
    BY <1>1 DEF Reassign
  <1>4. OffersTyped'
    <2>1. offers' = [offers EXCEPT ![c] = <<>>]
      BY <1>1 DEF Reassign
    <2>2. <<>> \in Seq(0 .. LifeSequences - 1)
      OBVIOUS
    <2>3. QED
      BY <2>1, <2>2 DEF FightInv, OffersTyped
  <1> HIDE DEF q
  <1>5. /\ r \in PlayerState /\ r.state = "dead" /\ r.health = MaxHealth /\ r.lastspawn = FALSE
        /\ r.deaths = player[c].deaths /\ r.lifesequence = player[c].lifesequence
        /\ r.hunted = player[c].hunted
    BY <1>2 DEF PlayerState, FightParameters
  <1> HIDE DEF r
  <1>6. r \in Fighters /\ Calm(player[c], r) /\ ~Suffers(player[c], r)
    BY <1>1, <1>5 DEF Fighters, Sane, PlayerState, Calm, FightParameters, Suffers
  <1>7. QED
    BY <1>3, <1>4, <1>6, OneCalm

\* connected: a number that no hit that waits names.
LEMMA ConnectedGood ==
    ASSUME FightParameters, FightInv, NEW c \in Players,
           NEW how \in {"offered", "dead", "spectator"}, Connected(c, how)
    PROVE  Good
  <1>1. player[c] = Absent /\ Absent \in Fighters /\ Absent.health = MaxHealth
    BY AbsentIsSane DEF FightInv, Fighters, Sane, Connected, Absent
  <1>2. UNCHANGED events
    BY DEF Connected
  <1>3. PICK r \in Fighters :
            player' = [player EXCEPT ![c] = r] /\ r.health = MaxHealth /\ r.deaths = 0
    <2>1. CASE how = "offered"
      <3> DEFINE s == [Absent EXCEPT !.state = "dead"]
      <3>1. s \in PlayerState /\ s.state = "dead" /\ s.health = MaxHealth
        BY <1>1, AbsentIsSane DEF Fighters, Sane, Absent
      <3>2. player' = [player EXCEPT ![c] = Offered(s)]
        BY <2>1 DEF Connected
      <3> HIDE DEF s
      <3>3. s.health > 0
        BY <3>1 DEF FightParameters
      <3>4. Offered(s) \in Fighters
        BY <3>1, <3>3, OfferedIsSane
      <3>5. Offered(s).health = MaxHealth /\ Offered(s).deaths = 0
        BY <3>1, OfferedIs
      <3>6. QED
        BY <3>2, <3>4, <3>5
    <2>2. CASE how # "offered"
      <3> DEFINE s == [Absent EXCEPT !.state = how]
      <3>1. s \in Fighters /\ s.health = MaxHealth /\ s.deaths = 0
        BY <1>1, <2>2, AbsentIsSane DEF Absent
      <3>2. player' = [player EXCEPT ![c] = s]
        BY <1>1, <2>2, Zenon DEF Connected
      <3> HIDE DEF s
      <3>3. QED
        BY <3>1, <3>2
    <2>3. QED
      BY <2>1, <2>2
  <1>4. \A t \in Players : player'[t] = IF t = c THEN r ELSE player[t]
    BY <1>3 DEF FightInv
  <1>5. player' \in [Players -> Fighters] /\ EventsTyped'
    BY <1>2, <1>3 DEF FightInv, EventsTyped
  <1>6. OffersTyped'
    <2>1. 1 % LifeSequences \in 0 .. LifeSequences - 1
      BY DEF FightParameters
    <2>2. <<1 % LifeSequences>> \in Seq(0 .. LifeSequences - 1)
      BY <2>1
    <2>3. offers' = offers \/ offers' = [offers EXCEPT ![c] = <<1 % LifeSequences>>]
      BY DEF Connected
    <2>4. QED
      BY <2>2, <2>3 DEF FightInv, OffersTyped
  <1>7. InTime'
    <2>1. \A d \in Players : Queued(d)' = Queued(d)
      BY <1>2 DEF Queued
    <2>2. \A d \in Players : \A e \in Queued(d) : ~Names(e, c)
      BY DEF Connected, Queued
    <2>3. QED
      BY <1>4, <2>1, <2>2 DEF FightInv, InTime, Names
  <1>8. Earned
    <2>1. \A t \in Players : ~Suffers(player[t], player[t])
      BY DEF FightInv, Fighters, PlayerState, Suffers
    <2>2. \A t \in Players : ~Suffers(player[t], player'[t])
      <3>1. ~Suffers(player[c], r)
        BY <1>1, <1>3 DEF Suffers, Fighters, PlayerState, Absent, FightParameters
      <3>2. QED
        BY <1>4, <2>1, <3>1
    <2>3. QED
      BY <2>2 DEF Earned
  <1>9. QED
    BY <1>5, <1>6, <1>7, <1>8 DEF FightInv, Good

\* try_respawn: the events that are due, then the offer.
LEMMA TryRespawnGood ==
    ASSUME FightParameters, FightInv, NEW c \in Players, TryRespawn(c)
    PROVE  Good
  <1>1. PICK n \in 0 .. Len(events[c]) :
            /\ LET flushed == Flush(player, c, n)
                   ready   == IF player[c].deadflush THEN Respawned(flushed[c]) ELSE flushed[c]
               IN  player' = [flushed EXCEPT ![c] = Offered(ready)]
            /\ events' = [events EXCEPT ![c] = Keepable(After(c, n))]
    BY DEF TryRespawn
  <1> DEFINE w == Flush(player, c, n)
             ready == IF player[c].deadflush THEN Respawned(w[c]) ELSE w[c]
             r == Offered(ready)
  <1>2. /\ player' = [w EXCEPT ![c] = r]
        /\ player[c].state = "dead" /\ NoWrap(c)
        /\ offers' = [offers EXCEPT ![c] = Append(offers[c], player'[c].lifesequence)]
    BY <1>1 DEF TryRespawn
  <1>3. player \in [Players -> Fighters] /\ Queues /\ InTime /\ EventsTyped
    BY DEF FightInv, EventsTyped, Queues
  <1>4. Follows(w)
    BY <1>3, NobodyTurned, FlushFollows
  <1> HIDE DEF w
  <1>5. /\ w[c] \in PlayerState /\ Sane(w[c]) /\ w[c].state = "dead"
        /\ w[c].health = player[c].health /\ w[c].deadflush = player[c].deadflush
        /\ w[c].lifesequence = player[c].lifesequence
    BY <1>2, <1>4 DEF Follows, Turned, Fighters
  <1>6. /\ ready \in PlayerState /\ ready.state = "dead" /\ ready.health > 0
        /\ ready.lifesequence = player[c].lifesequence
        /\ ~(ready.health < player[c].health)
    <2>1. player[c].health \in 0 .. MaxHealth /\ MaxHealth > 0 /\ MaxHealth \in Nat
      BY <1>3 DEF Fighters, PlayerState, FightParameters
    <2>2. CASE player[c].deadflush
      <3>1. ready = Respawned(w[c])
        BY <2>2
      <3>2. /\ ready \in PlayerState /\ ready.health = MaxHealth
            /\ ready.deaths = w[c].deaths /\ ready.state = w[c].state
            /\ ready.lifesequence = w[c].lifesequence
        BY <1>5, <3>1, RespawnedIs
      <3>3. ready.health > 0 /\ ~(ready.health < player[c].health)
        BY <2>1, <3>2
      <3>4. QED
        BY <1>5, <3>2, <3>3 DEF Sane
    <2>3. CASE ~player[c].deadflush
      <3>1. ready = w[c]
        BY <2>3
      <3>2. QED
        BY <1>5, <2>1, <2>3, <3>1 DEF Sane
    <2>4. QED
      BY <2>2, <2>3
  <1> HIDE DEF ready
  <1>7. /\ r \in Fighters /\ r.lifesequence = (player[c].lifesequence + 1) % LifeSequences
        /\ ~Suffers(player[c], r)
    <2>1. r \in Fighters /\ r.lifesequence = (player[c].lifesequence + 1) % LifeSequences
          /\ r.health = ready.health /\ r.deaths = 0
      BY <1>6, OfferedIs, OfferedIsSane
    <2>2. player[c].deaths \in 0 .. 2
      BY <1>3 DEF Fighters, PlayerState
    <2> HIDE DEF r
    <2>3. QED
      BY <1>6, <2>1, <2>2 DEF Suffers
  <1> HIDE DEF r
  <1>8. player' \in [Players -> Fighters]
        /\ \A t \in Players : player'[t] = IF t = c THEN r ELSE w[t]
    BY <1>2, <1>4, <1>7 DEF Follows
  <1>9. EventsTyped' /\ \A d \in Players : Queued(d)' \subseteq Queued(d)
    <2>1. events[c] \in Seq(Event)
      BY <1>3 DEF EventsTyped
    <2>2. After(c, n) \in Seq(Queued(c)) /\ Len(After(c, n)) <= Len(events[c])
      BY <2>1, AfterKeeps
    <2>3. /\ Keepable(After(c, n)) \in Seq(Queued(c))
          /\ Len(Keepable(After(c, n))) <= Len(After(c, n))
      BY <2>2, KeepableKeeps
    <2>4. Len(Keepable(After(c, n))) <= Len(events[c])
      <3>1. /\ Len(Keepable(After(c, n))) \in Nat /\ Len(After(c, n)) \in Nat
            /\ Len(events[c]) \in Nat
        BY <2>1, <2>2, <2>3
      <3>2. QED
        BY <2>2, <2>3, <3>1
    <2>5. QED
      BY <1>1, <1>3, <2>3, <2>4, FewerEvents
  <1>10. OffersTyped'
    <2>1. player'[c].lifesequence \in 0 .. LifeSequences - 1
      BY <1>8 DEF Fighters, PlayerState
    <2>2. Append(offers[c], player'[c].lifesequence) \in Seq(0 .. LifeSequences - 1)
      BY <2>1 DEF FightInv, OffersTyped
    <2>3. QED
      BY <1>2, <2>2 DEF FightInv, OffersTyped
  <1>11. InTime'
    <2>1. SUFFICES ASSUME NEW d \in Players, NEW t \in Players, NEW e \in Queued(d)',
                          Names(e, t), player'[t].state # "gone",
                          e.hit.stale \/ player'[t].lastspawn
                   PROVE  e.hit.lifesequence # player'[t].lifesequence
      BY DEF InTime, Names
    <2>2. e \in Queued(d)
      BY <1>9
    <2>3. CASE t = c
      <3>1. e.hit.lifesequence # (player[c].lifesequence + 1) % LifeSequences
        BY <1>2, <2>1, <2>2, <2>3 DEF NoWrap, Queued
      <3>2. QED
        BY <1>7, <1>8, <2>3, <3>1
    <2>4. CASE t # c
      <3>1. player'[t] = w[t] /\ Turned(player[t], w[t])
        BY <1>4, <1>8, <2>4 DEF Follows
      <3>2. Calm(player[t], player'[t])
        BY <3>1, TurnedIsCalm
      <3>3. QED
        BY <1>3, <2>1, <2>2, <3>2 DEF InTime, Calm
    <2>5. QED
      BY <2>3, <2>4
  <1>12. Earned
    <2>1. SUFFICES ASSUME NEW t \in Players, Suffers(player[t], player'[t])
                   PROVE  \E d \in Players : \E i \in DOMAIN events[d] :
                              Names(events[d][i], t) /\ ~events[d][i].hit.stale
      BY DEF Earned
    <2>2. t # c
      BY <1>7, <1>8, <2>1
    <2>3. player[t].state = "alive" /\ Aimed(t)
      BY <1>4, <1>8, <2>1, <2>2 DEF Follows
    <2>4. QED
      BY <2>3, AimedIsFresh
  <1>13. QED
    BY <1>8, <1>9, <1>10, <1>11, <1>12 DEF FightInv, Good

\* processevents
LEMMA ProcessEventsGood ==
    ASSUME FightParameters, FightInv, ProcessEvents
    PROVE  Good
  <1>1. PICK n \in [Players -> 0 .. MaxEvents + 1], order \in Orders :
            /\ \A c \in Players : Stops(c, n[c])
            /\ player' = FlushAll(order, n)
            /\ events' = [c \in Players |-> After(c, n[c])]
            /\ UNCHANGED offers
    BY DEF ProcessEvents
  <1>2. player \in [Players -> Fighters] /\ Queues /\ InTime /\ EventsTyped
    BY DEF FightInv, EventsTyped, Queues
  <1>3. \A c \in Players : n[c] \in 0 .. Len(events[c]) /\ events[c] \in Seq(Event)
    BY <1>1, <1>2 DEF Stops, EventsTyped, FightParameters
  <1>4. Follows(player')
    <2>1. order \in [1 .. Cardinality(Players) -> Players]
      BY DEF Orders
    <2>2. QED
      BY <1>1, <1>2, <1>3, <2>1, FlushAllFollows
  <1>5. \A c \in Players : /\ events'[c] \in Seq(Queued(c))
                           /\ Len(events'[c]) <= Len(events[c])
    BY <1>1, <1>3, AfterKeeps
  <1>6. ASSUME NEW c \in Players PROVE Queued(c)' \subseteq Queued(c)
    <2>1. Queued(c)' = {events'[c][i] : i \in DOMAIN events'[c]}
      BY DEF Queued
    <2> DEFINE W == Queued(c)
    <2>2. events'[c] \in Seq(W)
      BY <1>5
    <2> HIDE DEF W
    <2>3. \A i \in DOMAIN events'[c] : events'[c][i] \in W
      BY <2>2
    <2>4. QED
      BY <2>1, <2>3 DEF W
  <1>7. EventsTyped'
    <2>1. events' = [c \in Players |-> events'[c]]
      BY <1>1
    <2>2. ASSUME NEW c \in Players
          PROVE  events'[c] \in Seq(Event) /\ Len(events'[c]) <= MaxEvents + 1
      <3>1. Queued(c) \subseteq Event /\ events[c] \in Seq(Event) /\ Len(events[c]) <= MaxEvents + 1
        BY <1>2 DEF EventsTyped, Queued
      <3>2. events'[c] \in Seq(Event)
        BY <1>5, <3>1
      <3>3. Len(events'[c]) \in Nat /\ Len(events[c]) \in Nat
        BY <3>1, <3>2
      <3>4. QED
        BY <1>5, <3>1, <3>2, <3>3 DEF FightParameters
    <2>3. QED
      BY <2>1, <2>2 DEF EventsTyped
  <1>8. InTime'
    <2>1. \A t \in Players : Calm(player[t], player'[t])
      BY <1>4, TurnedIsCalm DEF Follows
    <2>2. QED
      BY <1>2, <1>6, <2>1, CalmKeeps
  <1>9. Earned
    BY <1>4, AimedIsFresh DEF Earned, Follows
  <1>10. player' \in [Players -> Fighters] /\ OffersTyped'
    BY <1>1, <1>4 DEF FightInv, OffersTyped, Follows
  <1>11. QED
    BY <1>7, <1>8, <1>9, <1>10 DEF FightInv, Good

\* N_SPAWN: the hits that wait are of a life before the one that begins.
LEMMA SpawnGood ==
    ASSUME FightParameters, FightInv, NEW c \in Players, Spawn(c)
    PROVE  Good
  <1>1. offers[c] \in Seq(0 .. LifeSequences - 1) /\ offers[c] # <<>>
        /\ offers' = [offers EXCEPT ![c] = Tail(offers[c])]
    <2>1. offers[c] # <<>> /\ offers' = [offers EXCEPT ![c] = Tail(offers[c])]
      BY Zenon DEF Spawn
    <2>2. QED
      BY <2>1 DEF FightInv, OffersTyped
  <1>2. OffersTyped'
    <2> DEFINE R == 0 .. LifeSequences - 1
    <2>1. Tail(offers[c]) \in Seq(R)
      <3>1. 0 \in R
        BY DEF FightParameters
      <3> HIDE DEF R
      <3>2. QED
        BY <1>1, <3>1, SequencesStay DEF R
    <2>2. QED
      BY <1>1, <2>1 DEF FightInv, OffersTyped
  <1>3. CASE ~Takes(c, Head(offers[c]))
    <2>1. UNCHANGED <<player, events>>
      BY <1>3 DEF Spawn
    <2>2. QED
      BY <1>2, <2>1, NothingGood
  <1>4. CASE Takes(c, Head(offers[c]))
    <2>0. PICK hunted \in BOOLEAN :
              player' = [player EXCEPT ![c] = [player[c] EXCEPT
                  !.state = "alive", !.lastspawn = FALSE, !.hunted = hunted]]
      BY <1>4, Zenon DEF Spawn
    <2> DEFINE r == [player[c] EXCEPT !.state = "alive", !.lastspawn = FALSE, !.hunted = hunted]
               Marked(d, i) == IF Names(events[d][i], c)
                               THEN [events[d][i] EXCEPT !.hit.stale = TRUE] ELSE events[d][i]
               Left(d) == [i \in DOMAIN events[d] |-> Marked(d, i)]
    <2>1. player' = [player EXCEPT ![c] = r] /\ events' = [d \in Players |-> Left(d)]
          /\ player[c].lastspawn /\ player[c].state # "gone"
      <3>1. events' = [d \in Players |-> Left(d)]
        BY <1>4, Zenon DEF Spawn
      <3>2. player[c].lastspawn /\ player[c].state # "gone"
        BY <1>4 DEF Takes, Plays
      <3>3. QED
        BY <2>0, <3>1, <3>2
    <2>2. player[c] \in Fighters /\ player[c].health > 0 /\ player[c].deaths = 0
      BY <2>1 DEF FightInv, Fighters, Sane
    <2>3. /\ r \in Fighters /\ r.health = player[c].health /\ r.deaths = player[c].deaths
          /\ r.lifesequence = player[c].lifesequence /\ r.lastspawn = FALSE
      <3>1. player[c] \in PlayerState /\ player[c].deadflush \in BOOLEAN
        BY <2>2 DEF Fighters, PlayerState
      <3>2. r \in PlayerState
        <4>1. "alive" \in {"gone", "spectator", "dead", "alive"} /\ FALSE \in BOOLEAN
          /\ hunted \in BOOLEAN
          BY <2>0
        <4>2. QED
          BY <3>1, <4>1, OneField, Zenon
      <3>3. /\ r.state = "alive" /\ r.lastspawn = FALSE /\ r.deaths = 0
            /\ r.health = player[c].health /\ r.lifesequence = player[c].lifesequence
        BY <2>2, <3>1, <3>2 DEF PlayerState
      <3> HIDE DEF r
      <3>4. QED
        BY <2>2, <3>2, <3>3 DEF Fighters, Sane
    <2> HIDE DEF r
    <2>4. player' \in [Players -> Fighters]
          /\ \A t \in Players : player'[t] = IF t = c THEN r ELSE player[t]
      BY <2>1, <2>3 DEF FightInv
    <2>5. ASSUME NEW d \in Players, NEW i \in DOMAIN events[d]
          PROVE  /\ Marked(d, i) \in Event
                 /\ \A t \in Players : Names(Marked(d, i), t) <=> Names(events[d][i], t)
                 /\ \A t \in Players : Names(events[d][i], t) =>
                       Marked(d, i).hit.lifesequence = events[d][i].hit.lifesequence
                 /\ \A t \in Players \ {c} : Names(events[d][i], t) =>
                       Marked(d, i) = events[d][i]
      <3> DEFINE e == events[d][i]
                 m == [e EXCEPT !.hit.stale = TRUE]
      <3>1. e \in Event
        BY DEF FightInv, EventsTyped
      <3> HIDE DEF e
      <3>2. CASE ~Names(e, c)
        BY <3>1, <3>2 DEF e
      <3>3. CASE Names(e, c)
        <4>1. e \in [kind : {"shot", "explode"}, hit : Hit, rays : 1 .. 2] /\ e.hit.target = c
          BY <3>1, <3>3 DEF Names, Event
        <4>2. m \in [kind : {"shot", "explode"}, hit : Hit, rays : 1 .. 2]
              /\ m.kind = e.kind /\ m.hit.target = e.hit.target
              /\ m.hit.lifesequence = e.hit.lifesequence
          BY <4>1 DEF Hit
        <4>3. Marked(d, i) = m
          BY <3>3 DEF e
        <4> HIDE DEF m, Marked
        <4>4. QED
          BY <4>1, <4>2, <4>3 DEF Names, Event, e
      <3>4. QED
        BY <3>2, <3>3
    <2> HIDE DEF Marked
    <2>6. EventsTyped'
      <3>1. events' = [d \in Players |-> events'[d]]
        BY <2>1
      <3>2. ASSUME NEW d \in Players
            PROVE  events'[d] \in Seq(Event) /\ Len(events'[d]) <= MaxEvents + 1
        <4>1. events[d] \in Seq(Event) /\ Len(events[d]) <= MaxEvents + 1
          BY DEF FightInv, EventsTyped
        <4>2. events'[d] = Left(d)
          BY <2>1
        <4>3. Left(d) \in Seq(Event) /\ Len(Left(d)) = Len(events[d])
          BY <2>5, <4>1
        <4>4. QED
          BY <4>1, <4>2, <4>3
      <3>3. QED
        BY <3>1, <3>2 DEF EventsTyped
    <2>7. InTime'
      <3>1. SUFFICES ASSUME NEW d \in Players, NEW t \in Players, NEW e \in Queued(d)',
                            Names(e, t), player'[t].state # "gone",
                            e.hit.stale \/ player'[t].lastspawn
                     PROVE  e.hit.lifesequence # player'[t].lifesequence
        BY DEF InTime, Names
      <3>2. PICK i \in DOMAIN events[d] : e = Marked(d, i)
        <4>1. events'[d] = Left(d) /\ DOMAIN Left(d) = DOMAIN events[d]
          BY <2>1
        <4>2. QED
          BY <4>1 DEF Queued
      <3>3. events[d][i] \in Queued(d) /\ Names(events[d][i], t)
            /\ e.hit.lifesequence = events[d][i].hit.lifesequence
        BY <2>5, <3>1, <3>2 DEF Queued
      <3>4. CASE t = c
        BY <2>1, <2>3, <2>4, <3>3, <3>4 DEF FightInv, InTime
      <3>5. CASE t # c
        BY <2>4, <2>5, <3>1, <3>2, <3>3, <3>5 DEF FightInv, InTime
      <3>6. QED
        BY <3>4, <3>5
    <2>8. Earned
      <3>1. \A t \in Players : ~Suffers(player[t], player[t])
        BY DEF FightInv, Fighters, PlayerState, Suffers
      <3>2. ~Suffers(player[c], r)
        BY <2>2, <2>3 DEF Suffers, Fighters, PlayerState
      <3>3. \A t \in Players : ~Suffers(player[t], player'[t])
        BY <2>4, <3>1, <3>2
      <3>4. QED
        BY <3>3 DEF Earned
    <2>9. QED
      BY <1>2, <2>4, <2>6, <2>7, <2>8 DEF FightInv, Good
  <1>5. QED
    BY <1>3, <1>4

LEMMA ResetIs ==
    ASSUME FightParameters, NEW s \in Fighters
    PROVE  /\ Reset(s) \in Fighters
           /\ Reset(s).state # "alive" /\ Reset(s).health = MaxHealth /\ Reset(s).deaths = 0
           /\ s.state # "gone" => Reset(s).state # "gone"
  <1> DEFINE q == Respawned(s)
             r == [q EXCEPT !.projectiles = 0, !.deaths = 0, !.hunted = FALSE,
                            !.state = IF q.state = "alive" THEN "dead" ELSE q.state]
  <1>1. s \in PlayerState /\ Sane(s)
    BY DEF Fighters
  <1>2. /\ q \in PlayerState /\ q.health = MaxHealth /\ q.lastspawn = FALSE
        /\ q.deadflush = FALSE /\ q.deaths = s.deaths /\ q.state = s.state
        /\ q.lifesequence = s.lifesequence
    BY <1>1, RespawnedIs
  <1>3. Reset(s) = r
    BY DEF Reset
  <1> HIDE DEF q
  <1>4. /\ 0 \in 0 .. MaxProjectiles /\ 0 \in 0 .. 2 /\ FALSE \in BOOLEAN
        /\ (IF q.state = "alive" THEN "dead" ELSE q.state) \in {"gone", "spectator", "dead", "alive"}
    BY <1>2 DEF FightParameters, PlayerState
  <1>5. /\ r \in PlayerState /\ r.health = MaxHealth /\ r.deaths = 0 /\ r.lastspawn = FALSE
        /\ r.deadflush = FALSE /\ r.projectiles = 0 /\ r.hunted = FALSE
        /\ r.lifesequence = s.lifesequence
        /\ r.state = IF s.state = "alive" THEN "dead" ELSE s.state
    <2>1. r \in PlayerState
      BY <1>2, <1>4, OneField, Zenon
    <2>2. QED
      BY <1>2, <2>1 DEF PlayerState
  <1>6. CASE s.state # "gone"
    <2>1. r.state \in {"dead", "spectator"}
      BY <1>1, <1>5, <1>6 DEF PlayerState
    <2> HIDE DEF r
    <2>2. r \in Fighters
      BY <1>5, <2>1 DEF Fighters, Sane, FightParameters
    <2>3. QED
      BY <1>3, <1>5, <2>1, <2>2
  <1>7. CASE s.state = "gone"
    <2>1. s = Absent
      BY <1>1, <1>7 DEF Sane
    <2> HIDE DEF r
    <2>2. r = Absent
      <3>1. /\ Absent \in PlayerState /\ Absent.state = "gone" /\ Absent.health = MaxHealth
            /\ Absent.lastspawn = FALSE /\ Absent.deadflush = FALSE
            /\ Absent.projectiles = 0 /\ Absent.deaths = 0 /\ Absent.hunted = FALSE
        BY AbsentIsSane DEF Absent, Fighters
      <3>2. QED
        BY <1>5, <2>1, <3>1, SameFields
    <2>3. QED
      BY <1>3, <1>5, <1>7, <2>2, AbsentIsSane DEF Absent
  <1>8. QED
    BY <1>6, <1>7

\* changemap: nothing waits, and all that play are offered a life.
LEMMA ChangeMapGood ==
    ASSUME FightParameters, FightInv, ChangeMap
    PROVE  Good
  <1>1. \A c \in Players : player[c] \in Fighters
    BY DEF FightInv
  <1>2. player' = [c \in Players |-> IF Plays(c) THEN Offered(Reset(player[c]))
                                     ELSE Reset(player[c])]
        /\ events' = [c \in Players |-> <<>>]
    BY DEF ChangeMap
  <1>3. ASSUME NEW c \in Players 
        PROVE  player'[c] \in Fighters /\ player'[c].health = MaxHealth /\ player'[c].deaths = 0
    <2> DEFINE r == Reset(player[c])
    <2>1. r \in Fighters /\ r.health = MaxHealth /\ r.state # "alive" /\ r.deaths = 0
          /\ (player[c].state # "gone" => r.state # "gone")
      BY <1>1, ResetIs
    <2> HIDE DEF r
    <2>2. CASE Plays(c)
      <3>1. r \in PlayerState /\ r.state \notin {"alive", "gone"} /\ r.health > 0
        BY <2>1, <2>2 DEF Fighters, Sane, Plays, FightParameters
      <3>2. Offered(r) \in Fighters /\ Offered(r).health = MaxHealth /\ Offered(r).deaths = 0
        <4>1. Offered(r) \in Fighters
          BY <3>1, OfferedIsSane
        <4>2. Offered(r).health = r.health /\ Offered(r).deaths = 0
          BY <3>1, OfferedIs
        <4>3. QED
          BY <2>1, <4>1, <4>2
      <3>3. QED
        BY <1>2, <2>2, <3>2 DEF r
    <2>3. CASE ~Plays(c)
      BY <1>2, <2>1, <2>3 DEF r
    <2>4. QED
      BY <2>2, <2>3
  <1>4. player' \in [Players -> Fighters]
    BY <1>2, <1>3
  <1>5. EventsTyped' /\ \A c \in Players : Queued(c)' = {}
    <2>1. \A c \in Players : events'[c] = <<>>
      BY <1>2
    <2>2. QED
      BY <1>2, <2>1 DEF EventsTyped, Queued, FightParameters
  <1>6. InTime'
    BY <1>5 DEF InTime
  <1>7. OffersTyped'
    <2>1. ASSUME NEW c \in Players PROVE offers'[c] \in Seq(0 .. LifeSequences - 1)
      <3>1. player'[c].lifesequence \in 0 .. LifeSequences - 1
        BY <1>3 DEF Fighters, PlayerState
      <3>2. offers[c] \in Seq(0 .. LifeSequences - 1)
        BY DEF FightInv, OffersTyped
      <3>3. offers'[c] = Append(offers[c], player'[c].lifesequence) \/ offers'[c] = offers[c]
        BY DEF ChangeMap
      <3>4. Append(offers[c], player'[c].lifesequence) \in Seq(0 .. LifeSequences - 1)
        BY <3>1, <3>2, SequencesStay
      <3>5. QED
        BY <3>2, <3>3, <3>4
    <2>2. offers' = [c \in Players |-> offers'[c]]
      BY DEF ChangeMap
    <2>3. QED
      BY <2>1, <2>2 DEF OffersTyped
  <1>8. Earned
    <2>1. \A t \in Players : /\ player[t].health \in 0 .. MaxHealth /\ MaxHealth \in Nat
                             /\ player[t].deaths \in 0 .. 2
      BY <1>1 DEF Fighters, PlayerState, FightParameters
    <2>2. \A t \in Players : ~Suffers(player[t], player'[t])
      BY <1>3, <2>1 DEF Suffers
    <2>3. QED
      BY <2>2 DEF Earned
  <1>9. QED
    BY <1>4, <1>5, <1>6, <1>7, <1>8 DEF FightInv, Good

LEMMA CombatStep ==
    ASSUME FightParameters, FightInv, [CombatNext]_fvars
    PROVE  Good
  <1>1. CASE UNCHANGED fvars
    BY <1>1, NothingGood DEF fvars, FightInv, OffersTyped
  <1>2. CASE CombatNext
    <2>1. ASSUME NEW c \in Players, NEW t \in Players, NEW kind \in {"shot", "explode"},
                 NEW rays \in 1 .. 2, Fire(c, t, kind, rays)
          PROVE  Good
      BY <2>1, FireGood
    <2>2. ASSUME NEW c \in Players,
                 \/ Launch(c) \/ Suicide(c) \/ SwitchTeam(c) \/ TryRespawn(c) \/ Spawn(c)
                 \/ Disconnected(c) \/ Spectate(c) \/ Unspectate(c) \/ Slay(c) \/ Reassign(c)
          PROVE  Good
      BY <2>2, LaunchAndSuicideGood, SwitchTeamGood, TryRespawnGood, SpawnGood,
         DisconnectedGood, SpectateAndSlayGood, UnspectateGood, ReassignGood
    <2>3. ASSUME NEW c \in Players, NEW how \in {"offered", "dead", "spectator"}, Connected(c, how)
          PROVE  Good
      BY <2>3, ConnectedGood
    <2>4. QED
      BY <1>2, <2>1, <2>2, <2>3, ProcessEventsGood, ChangeMapGood DEF CombatNext
  <1>3. QED
    BY <1>1, <1>2

LEMMA CombatStarts ==
    ASSUME FightParameters, CombatInit
    PROVE  FightInv
  <1>1. player \in [Players -> Fighters]
    BY AbsentIsSane DEF CombatInit
  <1>2. EventsTyped /\ OffersTyped /\ \A c \in Players : Queued(c) = {}
    BY DEF CombatInit, EventsTyped, OffersTyped, Queued, FightParameters
  <1>3. QED
    BY <1>1, <1>2 DEF FightInv, InTime

LEMMA FightInvHolds ==
    ASSUME FightParameters
    PROVE  CombatSpec => []FightInv
  <1>1. CombatInit => FightInv
    BY CombatStarts
  <1>2. FightInv /\ [CombatNext]_fvars => FightInv'
    BY CombatStep DEF Good
  <1>3. QED
    BY <1>1, <1>2, PTL DEF CombatSpec

\* Whatever is shot, launched, processed late or taken late, nobody lives without
\* health and no life counts two deaths, or more than two when a listener of event_frag
\* changes the team of the victim (dodamage, suicide, try_respawn, N_SPAWN).
THEOREM LivesEndOnce ==
    ASSUME FightParameters
    PROVE  CombatSpec => []DiesOnce
  <1>1. FightInv => DiesOnce
    BY DEF FightInv, Fighters, Sane, DiesOnce
  <1>2. QED
    BY <1>1, FightInvHolds, PTL

\* A hit hurts only in the life in which the shooter saw its target, although the
\* count of lives comes round and events wait (flushevents, lifesequence).
THEOREM HitsAreOfTheLife ==
    ASSUME FightParameters
    PROVE  CombatSpec => HitsOwnLife
  <1> DEFINE Owned == \A t \in Players : Suffers(player[t], player'[t]) =>
                         \E c \in Players : \E i \in DOMAIN events[c] :
                            Names(events[c][i], t) /\ ~events[c][i].hit.stale
  <1>1. FightInv /\ [CombatNext]_fvars => Owned
    BY CombatStep DEF Good, Earned
  <1>2. FightInv /\ [CombatNext]_fvars => [Owned]_fvars
    BY <1>1
  <1>3. QED
    BY <1>2, FightInvHolds, PTL DEF CombatSpec, HitsOwnLife

\* The state of every player, the queues of events and the offers keep to their
\* types and sizes (gamestate, clientinfo::events, MAXEVENTS in addevent).
THEOREM CombatTyped ==
    ASSUME FightParameters
    PROVE  CombatSpec => []CombatTypeOK
  <1>1. FightInv => CombatTypeOK
    BY DEF FightInv, Fighters, EventsTyped, OffersTyped, CombatTypeOK
  <1>2. QED
    BY <1>1, FightInvHolds, PTL

-----------------------------------------------------------------------------
(* World states: what is sent                                              *)

WorldParameters ==
    /\ IsFiniteSet(Humans) /\ IsFiniteSet(Bots) /\ Humans \cap Bots = {}
    /\ MaxMsgs \in Nat

Units == {0, 1} \X Senders \X Nat

LEMMA SetToSeqIs ==
    ASSUME NEW S, IsFiniteSet(S)
    PROVE  SetToSeq(S) \in Seq(S)
  <1>1. Cardinality(S) \in Nat /\ ExistsBijection(1 .. Cardinality(S), S)
    BY FS_CardinalityType
  <1>2. \E f \in [1 .. Cardinality(S) -> S] : IsInjective(f)
    BY <1>1 DEF ExistsBijection, Bijection, Injection, IsInjective
  <1>3. SetToSeq(S) \in [1 .. Cardinality(S) -> S]
    BY <1>2 DEF SetToSeq
  <1>4. QED
    BY <1>1, <1>3

LEMMA PieceIs ==
    ASSUME WorldStateTypeOK, WorldParameters, NEW s \in Senders, NEW chan \in {0, 1}
    PROVE  Piece(chan, s) \in Seq(Units)
  <1>1. CASE chan = 0
    <2>1. <<0, s, 1>> \in Units
      BY DEF Units
    <2>2. QED
      BY <1>1, <2>1 DEF Piece
  <1>2. CASE chan = 1
    <2>1. messages[s] \in Nat
      BY DEF WorldStateTypeOK, WorldParameters
    <2>2. \A n \in 1 .. messages[s] : <<1, s, n>> \in Units
      BY <2>1 DEF Units
    <2>3. QED
      BY <1>2, <2>1, <2>2 DEF Piece
  <1>3. QED
    BY <1>1, <1>2

LEMMA AddedIs ==
    ASSUME NEW R, NEW parts \in Seq(Seq(R)), NEW piece \in Seq(R)
    PROVE  Added(parts, piece) \in Seq(Seq(R))
  <1>1. CASE piece = <<>>
    BY <1>1 DEF Added
  <1>2. CASE parts = <<>>
    BY <1>2 DEF Added
  <1>3. CASE parts # <<>>
    <2> DEFINE n == Len(parts)
               q == parts[n] \o piece
    <2>1. n \in Nat /\ n \in 1 .. n /\ parts[n] \in Seq(R)
      BY <1>3
    <2>2. q \in Seq(R)
      BY <2>1
    <2>3. [parts EXCEPT ![n] = q] \in Seq(Seq(R))
      <3> HIDE DEF q
      <3>1. QED
        BY <2>1, <2>2
    <2>4. Append(parts, piece) \in Seq(Seq(R))
      OBVIOUS
    <2>5. Added(parts, piece) \in {parts, Append(parts, piece), [parts EXCEPT ![n] = q]}
      BY DEF Added
    <2>6. QED
      BY <2>3, <2>4, <2>5
  <1>4. QED
    BY <1>1, <1>2, <1>3

\* How many packets there are, and what changes when those of one client change.
LEMMA UsesIs ==
    ASSUME WorldParameters, NEW f \in [Humans -> Nat], NEW h \in Humans, NEW m \in Nat
    PROVE  /\ Uses(f) \in Nat /\ f[h] <= Uses(f)
           /\ Uses([f EXCEPT ![h] = m]) = (Uses(f) - f[h]) + m
  <1> DEFINE Packets(n, g) == {g} \X (1 .. n)
             Rest == UNION {Packets(f[g], g) : g \in Humans \ {h}}
             All(e) == UNION {Packets(e[g], g) : g \in Humans}
             e == [f EXCEPT ![h] = m]
  <1>1. ASSUME NEW n \in Nat, NEW g \in Humans
        PROVE  IsFiniteSet(Packets(n, g)) /\ Cardinality(Packets(n, g)) = n
    <2>1. IsFiniteSet({g}) /\ Cardinality({g}) = 1
      BY FS_Singleton
    <2>2. IsFiniteSet(1 .. n) /\ Cardinality(1 .. n) = n
      <3>1. 1 \in Int /\ n \in Int
        OBVIOUS
      <3>2. IsFiniteSet(1 .. n) /\ Cardinality(1 .. n) = IF 1 > n THEN 0 ELSE n - 1 + 1
        BY <3>1, FS_Interval
      <3>3. QED
        BY <3>2
    <2>3. IsFiniteSet({g} \X (1 .. n)) /\ Cardinality({g} \X (1 .. n)) = Cardinality({g}) * Cardinality(1 .. n)
      BY <2>1, <2>2, FS_Product
    <2>4. QED
      BY <2>1, <2>2, <2>3
  <1>2. IsFiniteSet(Rest)
    <2> DEFINE T == {Packets(f[g], g) : g \in Humans \ {h}}
               image == [g \in Humans \ {h} |-> Packets(f[g], g)]
    <2>1. IsFiniteSet(Humans \ {h})
      BY FS_RemoveElement DEF WorldParameters
    <2>2. image \in Surjection(Humans \ {h}, T)
      BY DEF Surjection
    <2>3. IsFiniteSet(T)
      <3> HIDE DEF T, image
      <3>1. QED
        BY <2>1, <2>2, FS_Surjection
    <2>4. \A S \in T : IsFiniteSet(S)
      BY <1>1
    <2> HIDE DEF T
    <2>5. IsFiniteSet(UNION T)
      BY <2>3, <2>4, FS_UNION
    <2>6. QED
      BY <2>5 DEF T
  <1>3. ASSUME NEW n \in Nat
        PROVE  /\ IsFiniteSet(Rest \cup Packets(n, h))
               /\ Cardinality(Rest \cup Packets(n, h)) = Cardinality(Rest) + n
    <2>1. Rest \cap Packets(n, h) = {}
      OBVIOUS
    <2>2. IsFiniteSet(Packets(n, h)) /\ Cardinality(Packets(n, h)) = n
      BY <1>1
    <2>3. Cardinality(Rest) \in Nat
      BY <1>2, FS_CardinalityType
    <2> HIDE DEF Rest, Packets
    <2>4. /\ IsFiniteSet(Rest \cup Packets(n, h))
          /\ Cardinality(Rest \cup Packets(n, h))
                = Cardinality(Rest) + Cardinality(Packets(n, h)) - Cardinality(Rest \cap Packets(n, h))
      BY <1>2, <2>2, FS_Union
    <2>5. Cardinality(Rest \cap Packets(n, h)) = 0
      BY <2>1, FS_EmptySet
    <2> DEFINE total == Cardinality(Rest)
               both == Cardinality(Rest \cap Packets(n, h))
               own == Cardinality(Packets(n, h))
    <2>6. total + (own - both) = total + n
      <3>1. total \in Nat /\ own = n /\ both = 0
        BY <2>2, <2>3, <2>5
      <3> HIDE DEF total, own, both
      <3>2. QED
        BY <3>1
    <2>7. Cardinality(Rest \cup Packets(n, h)) = total + (own - both)
      BY <2>4
    <2> HIDE DEF own, both
    <2>8. QED
      BY <2>4, <2>6, <2>7
  <1>4. All(f) = Rest \cup Packets(f[h], h)
    OBVIOUS
  <1>5. All(e) = Rest \cup Packets(m, h)
    <2>1. \A g \in Humans : e[g] = IF g = h THEN m ELSE f[g]
      OBVIOUS
    <2> HIDE DEF e
    <2>2. QED
      BY <2>1
  <1>6. Uses(f) = Cardinality(All(f)) /\ Uses(e) = Cardinality(All(e))
    BY DEF Uses
  <1>7. Cardinality(Rest) \in Nat
    BY <1>2, FS_CardinalityType
  <1>8. f[h] \in Nat
    OBVIOUS
  <1> HIDE DEF Rest, All, Packets
  <1>9. Uses(f) = Cardinality(Rest) + f[h] /\ Uses(e) = Cardinality(Rest) + m
    BY <1>3, <1>4, <1>5, <1>6, <1>8
  <1> HIDE DEF e
  <1>10. Uses(f) \in Nat /\ f[h] <= Uses(f) /\ Uses(e) = (Uses(f) - f[h]) + m
    BY <1>7, <1>8, <1>9
  <1>11. QED
    BY <1>10 DEF e

\* Everybody who has something to pass on stands in the order once.
LEMMA FillersAre ==
    ASSUME WorldStateTypeOK, WorldParameters
    PROVE  /\ Fillers \in Seq(Senders)
           /\ \E f : /\ f[0] = <<>> /\ f[Len(clients)] = Fillers
                    /\ \A k \in 1 .. Len(clients) :
                          /\ f[k - 1] \in Seq(Senders)
                          /\ f[k] = (f[k - 1] \o <<clients[k]>>)
                                    \o SetToSeq({b \in Bots : owner[b] = clients[k]})
  <1> DEFINE n == Len(clients)
             W == Seq(Senders)
             D == [k \in 0 .. n |-> W]
             Put(q, k) == (q \o <<clients[k]>>) \o SetToSeq({b \in Bots : owner[b] = clients[k]})
             step == [k \in 1 .. n |-> [q \in W |-> Put(q, k)]]
             Onward(f, k) == IF k = 0 THEN <<>> ELSE Put(f[k - 1], k)
             Recursive(f) == f = [k \in 0 .. n |-> Onward(f, k)]
  <1>1. n \in Nat /\ <<>> \in W
    BY DEF WorldStateTypeOK
  <1>2. ASSUME NEW k \in 1 .. n, NEW q \in W PROVE Put(q, k) \in W
    <2> DEFINE B == {b \in Bots : owner[b] = clients[k]}
    <2>1. clients[k] \in Senders
      BY DEF WorldStateTypeOK, Senders
    <2>2. IsFiniteSet(B) /\ B \subseteq Senders
      BY FS_Subset DEF WorldParameters, Senders
    <2>3. SetToSeq(B) \in Seq(Senders)
      <3> HIDE DEF B
      <3>1. SetToSeq(B) \in Seq(B)
        BY <2>2, SetToSeqIs
      <3>2. QED
        BY <2>2, <3>1
    <2>4. q \o <<clients[k]>> \in Seq(Senders)
      BY <2>1
    <2> HIDE DEF B
    <2>5. (q \o <<clients[k]>>) \o SetToSeq(B) \in Seq(Senders)
      BY <2>3, <2>4
    <2>6. QED
      BY <2>5 DEF B
  <1>3. PICK f : Runs(f, n, <<>>, step)
    BY <1>1, RunExists
  <1> HIDE DEF n, W, Put
  <1>4. Recursive(f)
    <2>1. \A k \in 1 .. n : f[k - 1] \in W => f[k] = Put(f[k - 1], k)
      BY <1>3 DEF Runs
    <2>2. \A k \in 0 .. n : f[k] \in D[k]
      <3>1. f[0] \in D[0]
        BY <1>1, <1>3 DEF Runs
      <3>2. \A k \in 1 .. n : f[k - 1] \in D[k - 1] => f[k] \in D[k]
        <4>1. \A k \in 1 .. n : k \in 0 .. n /\ k - 1 \in 0 .. n
          BY <1>1
        <4>2. QED
          BY <1>2, <2>1, <4>1
      <3> HIDE DEF D, step
      <3>3. QED
        BY <1>1, <3>1, <3>2, RunStays
    <2>3. \A k \in 0 .. n : f[k] = Onward(f, k)
      <3>1. f[0] = Onward(f, 0)
        BY <1>3 DEF Runs
      <3>2. ASSUME NEW k \in 1 .. n PROVE f[k] = Onward(f, k)
        BY <1>1, <2>1, <2>2
      <3>3. QED
        BY <1>1, <3>1, <3>2
    <2>4. f = [k \in 0 .. n |-> f[k]]
      BY <1>3 DEF Runs
    <2> HIDE DEF Onward
    <2>5. QED
      BY <2>3, <2>4
  <1> DEFINE g == CHOOSE h : Recursive(h)
  <1>5. Recursive(g)
    <2> HIDE DEF Recursive
    <2>1. QED
      BY <1>4
  <1>6. Fillers = g[n]
    BY DEF Fillers, n, Put
  <1> HIDE DEF g
  <1>7. g[0] = <<>> /\ \A k \in 1 .. n : g[k] = Put(g[k - 1], k)
    <2>1. \A k \in 0 .. n : g[k] = Onward(g, k)
      <3> HIDE DEF Onward
      <3>1. QED
        BY <1>5
    <2>2. QED
      BY <1>1, <2>1
  <1>8. \A k \in 1 .. n : k \in 0 .. n /\ k - 1 \in 0 .. n
    BY <1>1
  <1>9. \A k \in 0 .. n : g[k] \in D[k]
    <2>1. g[0] \in D[0]
      BY <1>1, <1>7
    <2>2. \A k \in 1 .. n : g[k - 1] \in D[k - 1] => g[k] \in D[k]
      BY <1>2, <1>7, <1>8
    <2> HIDE DEF D
    <2>3. QED
      BY <1>1, <2>1, <2>2, RunStays
  <1>10. g[n] \in W /\ \A k \in 1 .. n : g[k - 1] \in W
    BY <1>1, <1>8, <1>9
  <1>11. QED
    BY <1>6, <1>7, <1>10 DEF W, n, Put

LEMMA PartsAre ==
    ASSUME WorldStateTypeOK, WorldParameters, NEW chan \in {0, 1}
    PROVE  /\ Parts(chan) \in Seq(Seq(Units))
           /\ \E f : /\ f[0] = <<>> /\ f[Len(Fillers)] = Parts(chan)
                    /\ \A k \in 1 .. Len(Fillers) :
                          /\ f[k - 1] \in Seq(Seq(Units))
                          /\ f[k] = Added(f[k - 1], Piece(chan, Fillers[k]))
  <1> DEFINE order == Fillers
             n == Len(order)
             W == Seq(Seq(Units))
             D == [k \in 0 .. n |-> W]
             Put(q, k) == Added(q, Piece(chan, order[k]))
             step == [k \in 1 .. n |-> [q \in W |-> Put(q, k)]]
             Onward(f, k) == IF k = 0 THEN <<>> ELSE Put(f[k - 1], k)
             Recursive(f) == f = [k \in 0 .. n |-> Onward(f, k)]
  <1>1. order \in Seq(Senders) /\ n \in Nat /\ <<>> \in W
    <2>1. order \in Seq(Senders)
      BY FillersAre
    <2> HIDE DEF order
    <2>2. QED
      BY <2>1
  <1> HIDE DEF order
  <1>2. ASSUME NEW k \in 1 .. n, NEW q \in W PROVE Put(q, k) \in W
    <2>1. order[k] \in Senders
      BY <1>1
    <2>2. Piece(chan, order[k]) \in Seq(Units)
      BY <2>1, PieceIs
    <2>3. QED
      BY <2>2, AddedIs
  <1>3. PICK f : Runs(f, n, <<>>, step)
    BY <1>1, RunExists
  <1> HIDE DEF n, W, Put
  <1>4. Recursive(f)
    <2>1. \A k \in 1 .. n : f[k - 1] \in W => f[k] = Put(f[k - 1], k)
      BY <1>3 DEF Runs
    <2>2. \A k \in 0 .. n : f[k] \in D[k]
      <3>1. f[0] \in D[0]
        BY <1>1, <1>3 DEF Runs
      <3>2. \A k \in 1 .. n : f[k - 1] \in D[k - 1] => f[k] \in D[k]
        <4>1. \A k \in 1 .. n : k \in 0 .. n /\ k - 1 \in 0 .. n
          BY <1>1
        <4>2. QED
          BY <1>2, <2>1, <4>1
      <3> HIDE DEF D, step
      <3>3. QED
        BY <1>1, <3>1, <3>2, RunStays
    <2>3. \A k \in 0 .. n : f[k] = Onward(f, k)
      <3>1. f[0] = Onward(f, 0)
        BY <1>3 DEF Runs
      <3>2. ASSUME NEW k \in 1 .. n PROVE f[k] = Onward(f, k)
        BY <1>1, <2>1, <2>2
      <3>3. QED
        BY <1>1, <3>1, <3>2
    <2>4. f = [k \in 0 .. n |-> f[k]]
      BY <1>3 DEF Runs
    <2> HIDE DEF Onward
    <2>5. QED
      BY <2>3, <2>4
  <1> DEFINE g == CHOOSE h : Recursive(h)
  <1>5. Recursive(g)
    <2> HIDE DEF Recursive
    <2>1. QED
      BY <1>4
  <1>6. Parts(chan) = g[n]
    BY DEF Parts, n, Put, order
  <1> HIDE DEF g
  <1>7. g[0] = <<>> /\ \A k \in 1 .. n : g[k] = Put(g[k - 1], k)
    <2>1. \A k \in 0 .. n : g[k] = Onward(g, k)
      <3> HIDE DEF Onward
      <3>1. QED
        BY <1>5
    <2>2. QED
      BY <1>1, <2>1
  <1>8. \A k \in 1 .. n : k \in 0 .. n /\ k - 1 \in 0 .. n
    BY <1>1
  <1>9. \A k \in 0 .. n : g[k] \in D[k]
    <2>1. g[0] \in D[0]
      BY <1>1, <1>7
    <2>2. \A k \in 1 .. n : g[k - 1] \in D[k - 1] => g[k] \in D[k]
      BY <1>2, <1>7, <1>8
    <2> HIDE DEF D
    <2>3. QED
      BY <1>1, <2>1, <2>2, RunStays
  <1>10. g[n] \in W /\ \A k \in 1 .. n : g[k - 1] \in W
    BY <1>1, <1>8, <1>9
  <1>11. QED
    BY <1>6, <1>7, <1>10 DEF W, n, Put, order

-----------------------------------------------------------------------------
(* World states: one step                                                  *)

WorldInv == WorldStateTypeOK /\ BuffersShared

\* The packets of some buffers and of one client are freed.
LEMMA Released ==
    ASSUME WorldParameters, WorldInv, NEW h \in Humans,
           NEW left \in [Buffers -> Nat],
           \A n \in Buffers : left[n] <= packets[n][h],
           packets' = [n \in Buffers |-> [packets[n] EXCEPT ![h] = left[n]]],
           worldstates' = Release([n \in Buffers |-> packets[n][h] - left[n]])
    PROVE  /\ packets' \in [Buffers -> [Humans -> Nat]]
           /\ worldstates' \in [Buffers -> Nat]
           /\ BuffersShared'
  <1>1. \A n \in Buffers : packets[n] \in [Humans -> Nat] /\ packets[n][h] \in Nat
                           /\ left[n] \in Nat
    BY DEF WorldInv, WorldStateTypeOK
  <1>2. packets' \in [Buffers -> [Humans -> Nat]]
    BY <1>1
  <1>3. ASSUME NEW n \in Buffers
        PROVE  worldstates'[n] \in Nat /\ worldstates'[n] = Uses(packets'[n])
    <2> DEFINE u == Uses(packets[n])
               p == packets[n][h]
               m == left[n]
    <2>1. u \in Nat /\ p \in Nat /\ m \in Nat /\ p <= u /\ m <= p
          /\ Uses([packets[n] EXCEPT ![h] = m]) = (u - p) + m
      BY <1>1, UsesIs
    <2>2. worldstates[n] = u
      BY DEF WorldInv, BuffersShared
    <2>3. worldstates'[n] = IF u > p - m THEN u - (p - m) ELSE 0
      BY <2>2 DEF Release
    <2>4. packets'[n] = [packets[n] EXCEPT ![h] = m]
      OBVIOUS
    <2> HIDE DEF u, p, m
    <2>5. worldstates'[n] = (u - p) + m
      <3>1. u \in Int /\ p \in Int /\ m \in Int /\ m >= 0 /\ p <= u /\ m <= p
        BY <2>1
      <3>2. CASE u > p - m
        BY <2>3, <3>1, <3>2
      <3>3. CASE ~(u > p - m)
        <4>1. (u - p) + m = 0
          BY <3>1, <3>3
        <4>2. QED
          BY <2>3, <3>3, <4>1
      <3>4. QED
        BY <3>2, <3>3
    <2>6. QED
      BY <2>1, <2>4, <2>5
  <1>4. worldstates' \in [Buffers -> Nat]
    BY <1>3 DEF Release
  <1>5. QED
    BY <1>2, <1>3, <1>4 DEF BuffersShared

LEMMA FreeGood ==
    ASSUME WorldParameters, WorldInv, NEW n \in Buffers, NEW h \in Humans, Free(n, h)
    PROVE  WorldInv'
  <1> DEFINE left == [m \in Buffers |-> IF m = n THEN packets[m][h] - 1 ELSE packets[m][h]]
  <1>1. \A m \in Buffers : packets[m] \in [Humans -> Nat] /\ packets[m][h] \in Nat
    BY DEF WorldInv, WorldStateTypeOK
  <1>2. packets[n][h] > 0
    BY DEF Free
  <1>3. left \in [Buffers -> Nat] /\ \A m \in Buffers : left[m] <= packets[m][h]
    BY <1>1, <1>2
  <1>4. packets' = [m \in Buffers |-> [packets[m] EXCEPT ![h] = left[m]]]
    <2>1. packets' = [packets EXCEPT ![n] = [packets[n] EXCEPT ![h] = packets[n][h] - 1]]
      BY DEF Free
    <2>2. \A m \in Buffers : packets'[m] = [packets[m] EXCEPT ![h] = left[m]]
      BY <1>1, <2>1 DEF WorldInv, WorldStateTypeOK
    <2>3. packets' = [m \in Buffers |-> packets'[m]]
      BY <2>1 DEF WorldInv, WorldStateTypeOK
    <2> HIDE DEF left
    <2>4. QED
      BY <2>2, <2>3
  <1>5. worldstates' = Release([m \in Buffers |-> packets[m][h] - left[m]])
    <2>1. [m \in Buffers |-> packets[m][h] - left[m]] = [m \in Buffers |-> IF m = n THEN 1 ELSE 0]
      BY <1>1
    <2>2. QED
      BY <2>1 DEF Free
  <1> HIDE DEF left
  <1>6. /\ packets' \in [Buffers -> [Humans -> Nat]] /\ worldstates' \in [Buffers -> Nat]
        /\ BuffersShared'
    BY <1>3, <1>4, <1>5, Released
  <1>7. UNCHANGED <<clients, owner, position, messages>>
    BY DEF Free
  <1>8. QED
    BY <1>6, <1>7 DEF WorldInv, WorldStateTypeOK

LEMMA DepartGood ==
    ASSUME WorldParameters, WorldInv, NEW h \in Humans, Depart(h)
    PROVE  WorldInv'
  <1>1. PICK i \in DOMAIN clients : clients' = RemoveAt(clients, i)
    BY DEF Depart
  <1>2. clients \in Seq(Humans) /\ i \in 1 .. Len(clients)
        /\ \A a, b \in DOMAIN clients : clients[a] = clients[b] => a = b
    BY DEF WorldInv, WorldStateTypeOK, IsInjective
  <1>3. /\ clients' \in Seq(Humans) /\ Len(clients') = Len(clients) - 1
        /\ \A k \in 1 .. Len(clients) - 1 :
              clients'[k] = IF k < i THEN clients[k] ELSE clients[k + 1]
    <2> DEFINE front == SubSeq(clients, 1, i - 1)
               back == SubSeq(clients, i + 1, Len(clients))
    <2>1. front \in Seq(Humans) /\ Len(front) = i - 1
          /\ \A k \in 1 .. i - 1 : front[k] = clients[k]
      BY <1>2
    <2>2. back \in Seq(Humans) /\ Len(back) = Len(clients) - i
          /\ \A k \in 1 .. Len(clients) - i : back[k] = clients[k + i]
      BY <1>2
    <2>3. clients' = front \o back
      BY <1>1 DEF RemoveAt
    <2> HIDE DEF front, back
    <2>4. i - 1 \in Nat /\ Len(clients) - i \in Nat
      BY <1>2
    <2>5. clients' \in Seq(Humans) /\ Len(clients') = (i - 1) + (Len(clients) - i)
          /\ \A k \in 1 .. (i - 1) + (Len(clients) - i) :
                clients'[k] = IF k <= i - 1 THEN front[k] ELSE back[k - (i - 1)]
      BY <2>1, <2>2, <2>3, <2>4
    <2>6. ASSUME NEW k \in 1 .. Len(clients) - 1
          PROVE  clients'[k] = IF k < i THEN clients[k] ELSE clients[k + 1]
      <3>1. k \in 1 .. (i - 1) + (Len(clients) - i)
        BY <1>2
      <3>2. CASE k < i
        BY <1>2, <2>1, <2>5, <3>1, <3>2
      <3>3. CASE ~(k < i)
        <4>1. k - (i - 1) \in 1 .. Len(clients) - i /\ (k - (i - 1)) + i = k + 1 /\ ~(k <= i - 1)
          BY <1>2, <3>3
        <4>2. back[k - (i - 1)] = clients[k + 1]
          BY <2>2, <4>1
        <4>3. QED
          BY <2>5, <3>1, <3>3, <4>1, <4>2
      <3>4. QED
        BY <3>2, <3>3
    <2>7. Len(clients') = Len(clients) - 1
      BY <1>2, <2>5
    <2>8. QED
      BY <2>5, <2>6, <2>7
  <1>4. IsInjective(clients')
    <2>1. SUFFICES ASSUME NEW a \in DOMAIN clients', NEW b \in DOMAIN clients',
                          clients'[a] = clients'[b]
                   PROVE  a = b
      BY DEF IsInjective
    <2>2. a \in 1 .. Len(clients) - 1 /\ b \in 1 .. Len(clients) - 1
      BY <1>3
    <2> DEFINE At(k) == IF k < i THEN k ELSE k + 1
    <2>3. \A k \in 1 .. Len(clients) - 1 : At(k) \in DOMAIN clients /\ clients'[k] = clients[At(k)]
      BY <1>2, <1>3
    <2>4. At(a) = At(b)
      BY <1>2, <2>1, <2>2, <2>3
    <2>5. a \in Int /\ b \in Int /\ i \in Int
      BY <1>2, <2>2
    <2>6. QED
      BY <2>4, <2>5
  <1>5. Present \subseteq Humans
    BY <1>2 DEF Present, ToSet
  <1>6. owner' \in [Bots -> Humans \cup {Nobody}]
    BY <1>5 DEF WorldInv, WorldStateTypeOK, Depart
  <1>7. position' \subseteq Senders /\ messages' \in [Senders -> 0 .. MaxMsgs]
    <2>1. messages' = [messages EXCEPT ![h] = 0] /\ position' = position \ {h}
      BY DEF Depart
    <2>2. 0 \in 0 .. MaxMsgs
      BY DEF WorldParameters
    <2>3. QED
      BY <2>1, <2>2 DEF WorldInv, WorldStateTypeOK
  <1>8. /\ packets' \in [Buffers -> [Humans -> Nat]] /\ worldstates' \in [Buffers -> Nat]
        /\ BuffersShared'
    <2> DEFINE left == [n \in Buffers |-> 0]
    <2>1. \A n \in Buffers : packets[n][h] \in Nat
      BY DEF WorldInv, WorldStateTypeOK
    <2>2. left \in [Buffers -> Nat] /\ \A n \in Buffers : left[n] <= packets[n][h]
      BY <2>1
    <2>3. packets' = [n \in Buffers |-> [packets[n] EXCEPT ![h] = left[n]]]
      BY DEF Depart
    <2>4. [n \in Buffers |-> packets[n][h] - left[n]] = [n \in Buffers |-> packets[n][h]]
      BY <2>1
    <2>5. worldstates' = Release([n \in Buffers |-> packets[n][h] - left[n]])
      BY <2>4 DEF Depart
    <2> HIDE DEF left
    <2>6. QED
      BY <2>2, <2>3, <2>5, Released
  <1>9. QED
    BY <1>3, <1>4, <1>6, <1>7, <1>8 DEF WorldInv, WorldStateTypeOK

LEMMA BuildGood ==
    ASSUME WorldParameters, WorldInv, NEW refused \in SUBSET Present, BuildWorldState(refused)
    PROVE  WorldInv'
  <1> DEFINE parts == Parts(0) \o Parts(1)
             sent(h) == IF h \in Present \ refused
                        THEN Cardinality({n \in DOMAIN parts : Window(parts[n], h) # <<>>})
                        ELSE 0
             uses == [h \in Humans |-> sent(h)]
  <1>1. parts \in Seq(Seq(Units))
    BY PartsAre DEF WorldInv
  <1>2. uses \in [Humans -> Nat]
    <2> HIDE DEF parts
    <2>1. DOMAIN parts = 1 .. Len(parts) /\ Len(parts) \in Nat
      BY <1>1
    <2>2. IsFiniteSet(DOMAIN parts)
      <3>1. 1 \in Int /\ Len(parts) \in Int
        BY <2>1
      <3>2. IsFiniteSet(1 .. Len(parts))
        BY <3>1, FS_Interval
      <3>3. QED
        BY <2>1, <3>2
    <2>3. ASSUME NEW h \in Humans
          PROVE  Cardinality({n \in DOMAIN parts : Window(parts[n], h) # <<>>}) \in Nat
      <3> DEFINE shown == {n \in DOMAIN parts : Window(parts[n], h) # <<>>}
      <3>1. shown \subseteq DOMAIN parts
        OBVIOUS
      <3> HIDE DEF shown
      <3>2. IsFiniteSet(shown)
        BY <2>2, <3>1, FS_Subset
      <3>3. Cardinality(shown) \in Nat
        BY <3>2, FS_CardinalityType
      <3>4. QED
        BY <3>3 DEF shown
    <2>4. QED
      BY <2>3
  <1>3. PICK n \in Buffers : /\ packets' = [packets EXCEPT ![n] = uses]
                             /\ worldstates' = [worldstates EXCEPT ![n] = Uses(uses)]
    BY DEF BuildWorldState
  <1>4. UNCHANGED <<clients, owner>>
        /\ position' \subseteq position
        /\ messages' \in [Senders -> 0 .. MaxMsgs]
    BY DEF BuildWorldState, WorldInv, WorldStateTypeOK, WorldParameters
  <1> HIDE DEF uses
  <1>5. packets' \in [Buffers -> [Humans -> Nat]]
    BY <1>2, <1>3 DEF WorldInv, WorldStateTypeOK
  <1>6. worldstates' \in [Buffers -> Nat]
    <2>1. Uses(uses) \in Nat
      <3>1. CASE Humans = {}
        BY <3>1, FS_EmptySet DEF Uses
      <3>2. CASE Humans # {}
        BY <1>2, <3>2, UsesIs
      <3>3. QED
        BY <3>1, <3>2
    <2>2. QED
      BY <1>3, <2>1 DEF WorldInv, WorldStateTypeOK
  <1>7. BuffersShared'
    <2>1. \A m \in Buffers : /\ packets'[m] = IF m = n THEN uses ELSE packets[m]
                             /\ worldstates'[m] = IF m = n THEN Uses(uses) ELSE worldstates[m]
      BY <1>3 DEF WorldInv, WorldStateTypeOK
    <2>2. QED
      BY <2>1 DEF BuffersShared, WorldInv
  <1>8. QED
    BY <1>4, <1>5, <1>6, <1>7 DEF WorldInv, WorldStateTypeOK

LEMMA ArriveGood ==
    ASSUME WorldInv, NEW h \in Humans, Arrive(h)
    PROVE  WorldInv'
  <1>1. /\ clients \in Seq(Humans)
        /\ clients' = Append(clients, h)
        /\ \A a, b \in DOMAIN clients : clients[a] = clients[b] => a = b
        /\ \A a \in DOMAIN clients : clients[a] # h
    BY DEF WorldInv, WorldStateTypeOK, IsInjective, Arrive, Present, ToSet
  <1>2. clients' \in Seq(Humans) /\ IsInjective(clients')
    BY <1>1 DEF IsInjective
  <1>3. UNCHANGED <<owner, position, messages, worldstates, packets>>
    BY DEF Arrive
  <1>4. QED
    BY <1>2, <1>3 DEF WorldInv, WorldStateTypeOK, BuffersShared

LEMMA OthersGood ==
    ASSUME WorldParameters, WorldInv,
           \/ UNCHANGED wvars
           \/ \E s \in Senders : Move(s) \/ Say(s)
           \/ \E b \in Bots, h \in Humans \cup {Nobody} : Shift(b, h)
    PROVE  WorldInv'
  <1>1. UNCHANGED <<clients, worldstates, packets>>
    BY DEF wvars, Move, Say, Shift
  <1>2. position' \subseteq Senders
    BY DEF wvars, Move, Say, Shift, WorldInv, WorldStateTypeOK
  <1>3. messages' \in [Senders -> 0 .. MaxMsgs]
    <2>1. messages \in [Senders -> 0 .. MaxMsgs]
      BY DEF WorldInv, WorldStateTypeOK
    <2>2. CASE UNCHANGED messages
      BY <2>1, <2>2
    <2>3. ASSUME NEW s \in Senders, Say(s) PROVE messages' \in [Senders -> 0 .. MaxMsgs]
      <3>1. messages[s] + 1 \in 0 .. MaxMsgs
        BY <2>1, <2>3 DEF Say, WorldParameters
      <3>2. messages' = [messages EXCEPT ![s] = messages[s] + 1]
        BY <2>3 DEF Say
      <3>3. QED
        BY <2>1, <3>1, <3>2
    <2>4. QED
      BY <2>2, <2>3 DEF wvars, Move, Shift
  <1>4. owner' \in [Bots -> Humans \cup {Nobody}]
    BY DEF wvars, Move, Say, Shift, WorldInv, WorldStateTypeOK
  <1>5. QED
    BY <1>1, <1>2, <1>3, <1>4 DEF WorldInv, WorldStateTypeOK, BuffersShared

LEMMA WorldStarts ==
    ASSUME WorldParameters, WorldStateInit
    PROVE  WorldInv
  <1>1. WorldStateTypeOK
    BY DEF WorldStateInit, WorldStateTypeOK, WorldParameters, IsInjective
  <1>2. ASSUME NEW n \in Buffers PROVE Uses(packets[n]) = 0
    <2>1. \A h \in Humans : {h} \X (1 .. packets[n][h]) = {}
      BY DEF WorldStateInit
    <2>2. UNION {{h} \X (1 .. packets[n][h]) : h \in Humans} = {}
      BY <2>1
    <2>3. QED
      BY <2>2, FS_EmptySet DEF Uses
  <1>3. QED
    BY <1>1, <1>2 DEF WorldInv, BuffersShared, WorldStateInit

LEMMA WorldInvHolds ==
    ASSUME WorldParameters
    PROVE  WorldStateSpec => []WorldInv
  <1>1. WorldStateInit => WorldInv
    BY WorldStarts
  <1>2. WorldInv /\ [WorldStateNext]_wvars => WorldInv'
    BY FreeGood, DepartGood, BuildGood, ArriveGood, OthersGood DEF WorldStateNext
  <1>3. QED
    BY <1>1, <1>2, PTL DEF WorldStateSpec

\* The uses of a buffer are the packets that ENet still holds on it, so that it
\* is freed with the last of them and not before (buildworldstate, cleanworldstate).
THEOREM BuffersAreShared ==
    ASSUME WorldParameters
    PROVE  WorldStateSpec => []BuffersShared
  <1>1. WorldInv => BuffersShared
    BY DEF WorldInv
  <1>2. QED
    BY <1>1, WorldInvHolds, PTL

\* Clients stand in the vector once, and only what the server keeps of senders,
\* owners and buffers is in its variables (buildworldstate).
THEOREM WorldStateTyped ==
    ASSUME WorldParameters
    PROVE  WorldStateSpec => []WorldStateTypeOK
  <1>1. WorldInv => WorldStateTypeOK
    BY DEF WorldInv
  <1>2. QED
    BY <1>1, WorldInvHolds, PTL

-----------------------------------------------------------------------------
(***************************************************************************)
(* World states: what each client is shown.  Senders stand in the buffer   *)
(* in the order of the clients, each client before its bots; so what       *)
(* belongs to one client is one stretch of every part, which the window of *)
(* that client leaves out, and what belongs to another one is on one side  *)
(* of that stretch, and keeps its order.                                   *)
(***************************************************************************)
\* The place of a client in the vector "clients", and of a sender in the order.
At(h) == CHOOSE a \in 1 .. Len(clients) : clients[a] = h
Rank(s) == CHOOSE i \in 1 .. Len(Fillers) : Fillers[i] = s

LEMMA AtIs ==
    ASSUME WorldStateTypeOK
    PROVE  /\ clients \in Seq(Humans) /\ Len(clients) \in Nat
           /\ Present = {clients[a] : a \in 1 .. Len(clients)}
           /\ \A a \in 1 .. Len(clients) : clients[a] \in Humans /\ At(clients[a]) = a
           /\ \A h \in Present : At(h) \in 1 .. Len(clients) /\ clients[At(h)] = h
  <1>1. /\ clients \in Seq(Humans) /\ Len(clients) \in Nat
        /\ \A a, b \in 1 .. Len(clients) : clients[a] = clients[b] => a = b
    BY DEF WorldStateTypeOK, IsInjective
  <1>2. Present = {clients[a] : a \in 1 .. Len(clients)}
    BY <1>1 DEF Present, ToSet
  <1>3. \A a \in 1 .. Len(clients) : clients[a] \in Humans /\ At(clients[a]) = a
    BY <1>1 DEF At
  <1>4. QED
    BY <1>1, <1>2, <1>3

LEMMA PieceUnits ==
    ASSUME WorldStateTypeOK, WorldParameters, NEW s \in Senders, NEW chan \in {0, 1}
    PROVE  /\ Piece(chan, s) \in Seq(Units) /\ Len(Piece(chan, s)) \in Nat
           /\ \A i \in 1 .. Len(Piece(chan, s)) : Piece(chan, s)[i] = <<chan, s, i>>
  <1>1. Piece(chan, s) \in Seq(Units) /\ Len(Piece(chan, s)) \in Nat
    BY PieceIs
  <1>2. CASE chan = 0
    <2>1. CASE s \in position
      <3>1. Piece(chan, s) = <<<<0, s, 1>>>>
        BY <1>2, <2>1 DEF Piece
      <3>2. QED
        BY <1>1, <1>2, <3>1
    <2>2. CASE s \notin position
      <3>1. Piece(chan, s) = <<>>
        BY <1>2, <2>2 DEF Piece
      <3>2. QED
        BY <1>1, <3>1
    <2>3. QED
      BY <2>1, <2>2
  <1>3. CASE chan = 1
    <2>1. messages[s] \in Nat /\ Piece(chan, s) = [n \in 1 .. messages[s] |-> <<1, s, n>>]
      BY <1>3 DEF WorldStateTypeOK, WorldParameters, Piece
    <2>2. QED
      BY <1>1, <1>3, <2>1
  <1>4. QED
    BY <1>2, <1>3

LEMMA Concatenated ==
    ASSUME NEW R, NEW x \in Seq(R), NEW y \in Seq(R)
    PROVE  /\ x \o y \in Seq(R) /\ Len(x) \in Nat /\ Len(y) \in Nat
           /\ Len(x \o y) = Len(x) + Len(y)
           /\ \A i \in 1 .. Len(x) : (x \o y)[i] = x[i]
           /\ \A i \in 1 .. Len(y) : (x \o y)[Len(x) + i] = y[i]
           /\ \A i \in 1 .. Len(x) + Len(y) :
                 i \in 1 .. Len(x) \/ \E j \in 1 .. Len(y) : i = Len(x) + j
  <1>1. Len(x) \in Nat /\ Len(y) \in Nat /\ x \o y \in Seq(R) /\ Len(x \o y) = Len(x) + Len(y)
    OBVIOUS
  <1>2. /\ \A i \in 1 .. Len(x) : (x \o y)[i] = x[i]
        /\ \A i \in 1 .. Len(y) : (x \o y)[Len(x) + i] = y[i]
    OBVIOUS
  <1>3. ASSUME NEW i \in 1 .. Len(x) + Len(y), i \notin 1 .. Len(x)
        PROVE  \E j \in 1 .. Len(y) : i = Len(x) + j
    <2>1. i - Len(x) \in 1 .. Len(y) /\ i = Len(x) + (i - Len(x))
      BY <1>1, <1>3
    <2>2. QED
      BY <2>1
  <1>4. QED
    BY <1>1, <1>2, <1>3

LEMMA SetToSeqOnce ==
    ASSUME NEW S, IsFiniteSet(S)
    PROVE  \A i, j \in 1 .. Len(SetToSeq(S)) : SetToSeq(S)[i] = SetToSeq(S)[j] => i = j
  <1>1. Cardinality(S) \in Nat /\ ExistsBijection(1 .. Cardinality(S), S)
    BY FS_CardinalityType
  <1>2. \E f \in [1 .. Cardinality(S) -> S] : IsInjective(f)
    BY <1>1 DEF ExistsBijection, Bijection, Injection, IsInjective
  <1>3. SetToSeq(S) \in [1 .. Cardinality(S) -> S] /\ IsInjective(SetToSeq(S))
    BY <1>2 DEF SetToSeq
  <1>4. Len(SetToSeq(S)) = Cardinality(S)
    BY <1>1, <1>3
  <1>5. QED
    BY <1>3, <1>4 DEF IsInjective

\* In the order of the first k clients, and everybody once.
InOrder(q, k) ==
    /\ \A i \in 1 .. Len(q) : Owner(q[i]) \in Present /\ At(Owner(q[i])) \in 1 .. k
    /\ \A i, j \in 1 .. Len(q) : i < j => At(Owner(q[i])) <= At(Owner(q[j]))
    /\ \A i, j \in 1 .. Len(q) : q[i] = q[j] => i = j

LEMMA FillersInOrder ==
    ASSUME WorldStateTypeOK, WorldParameters
    PROVE  Fillers \in Seq(Senders) /\ InOrder(Fillers, Len(clients))
  <1> DEFINE n == Len(clients)
             D == [k \in 0 .. n |-> {q \in Seq(Senders) : InOrder(q, k)}]
  <1>1. PICK f : /\ f[0] = <<>> /\ f[n] = Fillers
                 /\ \A k \in 1 .. n :
                       /\ f[k - 1] \in Seq(Senders)
                       /\ f[k] = (f[k - 1] \o <<clients[k]>>)
                                 \o SetToSeq({b \in Bots : owner[b] = clients[k]})
    BY FillersAre
  <1>2. n \in Nat /\ \A k \in 1 .. n : k \in 0 .. n /\ k - 1 \in 0 .. n
    BY AtIs
  <1>3. f[0] \in D[0]
    <2>1. <<>> \in Seq(Senders) /\ Len(<<>>) = 0
      OBVIOUS
    <2>2. InOrder(<<>>, 0)
      BY DEF InOrder
    <2>3. QED
      BY <1>1, <1>2, <2>1, <2>2
  <1>4. ASSUME NEW k \in 1 .. n, f[k - 1] \in D[k - 1] PROVE f[k] \in D[k]
    <2> DEFINE q == f[k - 1]
               c == clients[k]
               B == {b \in Bots : owner[b] = c}
               z == SetToSeq(B)
               m == Len(q)
               r == (q \o <<c>>) \o z
    <2>1. q \in Seq(Senders) /\ InOrder(q, k - 1) /\ m \in Nat
      BY <1>2, <1>4
    <2>2. c \in Humans /\ c \in Senders /\ c \notin Bots /\ c \in Present /\ At(c) = k
      BY AtIs DEF Senders, WorldParameters
    <2>3. IsFiniteSet(B)
      BY FS_Subset DEF WorldParameters
    <2> HIDE DEF q, c
    <2>4. z \in Seq(B) /\ Len(z) \in Nat /\ \A i, j \in 1 .. Len(z) : z[i] = z[j] => i = j
      <3> HIDE DEF B
      <3>1. QED
        BY <2>3, SetToSeqIs, SetToSeqOnce
    <2>5. \A i \in 1 .. Len(z) : z[i] \in Bots /\ Owner(z[i]) = c /\ z[i] # c
      <3>1. \A i \in 1 .. Len(z) : z[i] \in B
        BY <2>4
      <3>2. QED
        BY <2>2, <3>1 DEF Owner
    <2>6. Owner(c) = c
      BY <2>2 DEF Owner
    <2>7. z \in Seq(Senders)
      BY <2>4, <2>5 DEF Senders
    <2> HIDE DEF z, B
    <2> DEFINE qc == q \o <<c>>
    <2>8. qc \in Seq(Senders) /\ Len(qc) = m + 1
          /\ \A i \in 1 .. m + 1 : qc[i] = IF i = m + 1 THEN c ELSE q[i]
      BY <2>1, <2>2
    <2> HIDE DEF qc
    <2>9. r = qc \o z
      BY DEF qc
    <2>10. r \in Seq(Senders) /\ Len(r) = (m + 1) + Len(z)
           /\ \A i \in 1 .. (m + 1) + Len(z) :
                 r[i] = IF i <= m + 1 THEN qc[i] ELSE z[i - (m + 1)]
      <3> HIDE DEF r, m
      <3>0. qc \in Seq(Senders) /\ Len(qc) = m + 1
        BY <2>8
      <3>8. qc \o z \in Seq(Senders) /\ Len(qc \o z) = Len(qc) + Len(z)
        BY <2>7, <3>0
      <3>9. /\ \A i \in 1 .. Len(qc) : (qc \o z)[i] = qc[i]
            /\ \A i \in 1 .. Len(z) : (qc \o z)[Len(qc) + i] = z[i]
        BY <2>7, <3>0
      <3>1. r \in Seq(Senders) /\ Len(r) = (m + 1) + Len(z)
        BY <2>9, <3>0, <3>8
      <3>2. ASSUME NEW i \in 1 .. (m + 1) + Len(z)
            PROVE  r[i] = IF i <= m + 1 THEN qc[i] ELSE z[i - (m + 1)]
        <4>1. CASE i <= m + 1
          <5>1. i \in 1 .. Len(qc)
            BY <2>1, <2>8, <4>1
          <5>2. QED
            BY <2>9, <3>9, <4>1, <5>1
        <4>2. CASE ~(i <= m + 1)
          <5> DEFINE j == i - (m + 1)
          <5>1. j \in 1 .. Len(z) /\ i = (m + 1) + j
            BY <2>1, <2>4, <4>2
          <5> HIDE DEF j
          <5>2. r[(m + 1) + j] = z[j]
            BY <2>9, <3>0, <3>9, <5>1
          <5>3. QED
            BY <4>2, <5>1, <5>2 DEF j
        <4>3. QED
          BY <4>1, <4>2
      <3>3. QED
        BY <3>1, <3>2
    <2> HIDE DEF r, m
    <2>11. \A i \in 1 .. Len(r) :
              \/ i \in 1 .. m /\ r[i] = q[i]
              \/ i = m + 1 /\ r[i] = c
              \/ i - (m + 1) \in 1 .. Len(z) /\ r[i] = z[i - (m + 1)]
      BY <2>1, <2>4, <2>8, <2>10
    <2>12. \A i \in 1 .. Len(q) : Owner(q[i]) \in Present /\ At(Owner(q[i])) \in 1 .. k - 1
      BY <2>1 DEF InOrder
    <2>13. \A i \in 1 .. Len(r) :
              IF i <= m THEN i \in 1 .. m /\ r[i] = q[i] /\ Owner(r[i]) \in Present
                             /\ At(Owner(r[i])) \in 1 .. k - 1
              ELSE Owner(r[i]) = c /\ At(Owner(r[i])) = k
      BY <2>1, <2>2, <2>5, <2>6, <2>11, <2>12 DEF m
    <2>14. InOrder(r, k)
      <3>1. \A i \in 1 .. Len(r) : Owner(r[i]) \in Present /\ At(Owner(r[i])) \in 1 .. k
        BY <1>2, <2>2, <2>13
      <3>2. ASSUME NEW i \in 1 .. Len(r), NEW j \in 1 .. Len(r), i < j
            PROVE  At(Owner(r[i])) <= At(Owner(r[j]))
        <4>1. CASE j <= m
          <5>1. i \in 1 .. m /\ j \in 1 .. m /\ r[i] = q[i] /\ r[j] = q[j]
            BY <2>1, <2>10, <2>13, <3>2, <4>1
          <5>2. QED
            BY <2>1, <3>2, <5>1 DEF InOrder, m
        <4>2. CASE ~(j <= m)
          BY <1>2, <2>13, <3>1, <3>2, <4>2
        <4>3. QED
          BY <4>1, <4>2
      <3>3. ASSUME NEW i \in 1 .. Len(r), NEW j \in 1 .. Len(r), r[i] = r[j]
            PROVE  i = j
        <4>1. CASE i <= m /\ j <= m
          BY <2>1, <2>13, <3>3, <4>1 DEF InOrder, m
        <4>2. CASE ~(i <= m) /\ ~(j <= m)
          <5>1. ASSUME NEW e \in {i, j}
                PROVE  \/ e = m + 1 /\ r[e] = c
                       \/ e - (m + 1) \in 1 .. Len(z) /\ r[e] = z[e - (m + 1)] /\ r[e] # c
            <6>1. e \in 1 .. Len(r) /\ ~(e \in 1 .. m)
              BY <2>1, <4>2
            <6>2. QED
              BY <2>5, <2>11, <6>1
          <5>2. CASE i = m + 1
            BY <3>3, <5>1, <5>2
          <5>3. CASE j = m + 1
            BY <3>3, <5>1, <5>3
          <5>4. CASE i # m + 1 /\ j # m + 1
            <6>1. i - (m + 1) = j - (m + 1)
              BY <2>4, <3>3, <5>1, <5>4
            <6>2. i \in Nat /\ j \in Nat
              BY <2>1, <2>4, <2>10
            <6>3. QED
              BY <2>1, <6>1, <6>2
          <5>5. QED
            BY <5>2, <5>3, <5>4
        <4>3. CASE (i <= m) # (j <= m)
          <5>1. At(Owner(r[i])) # At(Owner(r[j]))
            BY <1>2, <2>13, <4>3
          <5>2. QED
            BY <3>3, <5>1
        <4>4. QED
          BY <4>1, <4>2, <4>3
      <3>4. QED
        BY <3>1, <3>2, <3>3 DEF InOrder
    <2>15. f[k] = r
      BY <1>1 DEF r, q, c, z, B
    <2>16. QED
      BY <1>2, <2>10, <2>14, <2>15
  <1> HIDE DEF D
  <1>5. \A k \in 0 .. n : f[k] \in D[k]
    BY <1>2, <1>3, <1>4, RunStays
  <1>6. f[n] \in D[n]
    BY <1>2, <1>5
  <1>7. QED
    BY <1>1, <1>2, <1>6 DEF D

LEMMA RankIs ==
    ASSUME WorldStateTypeOK, WorldParameters
    PROVE  /\ Len(Fillers) \in Nat
           /\ ToSet(Fillers) = {Fillers[i] : i \in 1 .. Len(Fillers)}
           /\ \A i \in 1 .. Len(Fillers) : Fillers[i] \in Senders /\ Rank(Fillers[i]) = i
           /\ \A s \in ToSet(Fillers) : Rank(s) \in 1 .. Len(Fillers) /\ Fillers[Rank(s)] = s
  <1>1. Fillers \in Seq(Senders) /\ \A i, j \in 1 .. Len(Fillers) : Fillers[i] = Fillers[j] => i = j
    BY FillersInOrder DEF InOrder
  <1>2. Len(Fillers) \in Nat /\ ToSet(Fillers) = {Fillers[i] : i \in 1 .. Len(Fillers)}
        /\ \A i \in 1 .. Len(Fillers) : Fillers[i] \in Senders
    <2> DEFINE q == Fillers
    <2>1. q \in Seq(Senders)
      BY <1>1
    <2> HIDE DEF q
    <2>2. Len(q) \in Nat /\ ToSet(q) = {q[i] : i \in 1 .. Len(q)}
          /\ \A i \in 1 .. Len(q) : q[i] \in Senders
      BY <2>1 DEF ToSet
    <2>3. QED
      BY <2>2 DEF q
  <1>3. \A i \in 1 .. Len(Fillers) : Rank(Fillers[i]) = i
    BY <1>1 DEF Rank
  <1>4. QED
    BY <1>2, <1>3

\* next is parts with the piece behind the first "off" units of its last part.
Grown(parts, piece, next, off) ==
    /\ Len(next) \in Nat \ {0}
    /\ \A n \in 1 .. Len(parts) : \A i \in 1 .. Len(parts[n]) :
          /\ n \in 1 .. Len(next) /\ i \in 1 .. Len(next[n])
          /\ next[n][i] = parts[n][i]
    /\ \A q \in 1 .. Len(piece) :
          /\ off + q \in 1 .. Len(next[Len(next)])
          /\ next[Len(next)][off + q] = piece[q]
    /\ \A n \in 1 .. Len(next) : \A i \in 1 .. Len(next[n]) :
          \/ /\ n \in 1 .. Len(parts) /\ i \in 1 .. Len(parts[n])
             /\ next[n][i] = parts[n][i]
             /\ n = Len(next) => i <= off
          \/ n = Len(next) /\ \E q \in 1 .. Len(piece) : i = off + q

LEMMA AddedGrows ==
    ASSUME NEW R, NEW parts \in Seq(Seq(R)), NEW piece \in Seq(R), piece # <<>>
    PROVE  \E off \in Nat : Grown(parts, piece, Added(parts, piece), off)
  <1> DEFINE m == Len(parts)
  <1>1. m \in Nat /\ Len(piece) \in Nat /\ \A n \in 1 .. m : parts[n] \in Seq(R) /\ Len(parts[n]) \in Nat
    OBVIOUS
  <1>2. CASE Added(parts, piece) = Append(parts, piece)
    <2> DEFINE next == Append(parts, piece)
    <2>1. Len(next) = m + 1 /\ next[m + 1] = piece /\ \A n \in 1 .. m : next[n] = parts[n]
      OBVIOUS
    <2> HIDE DEF next, m
    <2>2. \A n \in 1 .. Len(next) : n \in 1 .. m \/ n = m + 1
      BY <1>1, <2>1
    <2>3. \A n \in 1 .. m : n \in 1 .. Len(next) /\ n # Len(next)
      BY <1>1, <2>1
    <2>4. Grown(parts, piece, next, 0)
      <3>1. Len(next) \in Nat \ {0}
        BY <1>1, <2>1
      <3>2. \A n \in 1 .. Len(parts) : \A i \in 1 .. Len(parts[n]) :
               n \in 1 .. Len(next) /\ i \in 1 .. Len(next[n]) /\ next[n][i] = parts[n][i]
        BY <2>1, <2>3 DEF m
      <3>3. \A q \in 1 .. Len(piece) :
               0 + q \in 1 .. Len(next[Len(next)]) /\ next[Len(next)][0 + q] = piece[q]
        <4>1. \A q \in 1 .. Len(piece) : 0 + q = q
          BY <1>1
        <4>2. QED
          BY <2>1, <4>1
      <3>4. ASSUME NEW n \in 1 .. Len(next), NEW i \in 1 .. Len(next[n])
            PROVE  \/ /\ n \in 1 .. Len(parts) /\ i \in 1 .. Len(parts[n])
                      /\ next[n][i] = parts[n][i]
                      /\ n = Len(next) => i <= 0
                   \/ n = Len(next) /\ \E q \in 1 .. Len(piece) : i = 0 + q
        <4>1. CASE n \in 1 .. m
          BY <2>1, <2>3, <4>1 DEF m
        <4>2. CASE n = m + 1
          <5>1. i \in 1 .. Len(piece) /\ i = 0 + i
            BY <1>1, <2>1, <4>2
          <5>2. QED
            BY <2>1, <4>2, <5>1
        <4>3. QED
          BY <2>2, <4>1, <4>2
      <3>5. QED
        BY <3>1, <3>2, <3>3, <3>4 DEF Grown
    <2>5. QED
      BY <1>2, <2>4 DEF next
  <1>3. CASE parts # <<>> /\ Added(parts, piece) = [parts EXCEPT ![m] = parts[m] \o piece]
    <2> DEFINE old == parts[m]
               q == old \o piece
               next == [parts EXCEPT ![m] = q]
    <2>1. m \in 1 .. m /\ old \in Seq(R) /\ Len(old) \in Nat
      BY <1>1, <1>3
    <2>2. /\ Len(q) = Len(old) + Len(piece)
          /\ \A i \in 1 .. Len(old) : q[i] = old[i]
          /\ \A i \in 1 .. Len(piece) : q[Len(old) + i] = piece[i]
          /\ \A i \in 1 .. Len(old) + Len(piece) :
                i \in 1 .. Len(old) \/ \E j \in 1 .. Len(piece) : i = Len(old) + j
      <3> HIDE DEF old
      <3>1. \A x, y \in Seq(R) :
               /\ Len(x \o y) = Len(x) + Len(y)
               /\ \A i \in 1 .. Len(x) : (x \o y)[i] = x[i]
               /\ \A i \in 1 .. Len(y) : (x \o y)[Len(x) + i] = y[i]
               /\ \A i \in 1 .. Len(x) + Len(y) :
                     i \in 1 .. Len(x) \/ \E j \in 1 .. Len(y) : i = Len(x) + j
        BY Concatenated
      <3>2. QED
        BY <2>1, <3>1
    <2> HIDE DEF q, m
    <2>3. Len(next) = m /\ next[m] = q /\ \A n \in 1 .. m : n # m => next[n] = parts[n]
      BY <2>1 DEF m
    <2> HIDE DEF next
    <2>4. Grown(parts, piece, next, Len(old))
      <3>1. Len(next) \in Nat \ {0}
        BY <1>1, <2>1, <2>3
      <3>2. ASSUME NEW n \in 1 .. Len(parts), NEW i \in 1 .. Len(parts[n])
            PROVE  n \in 1 .. Len(next) /\ i \in 1 .. Len(next[n]) /\ next[n][i] = parts[n][i]
        <4>1. n \in 1 .. m
          BY DEF m
        <4>2. CASE n = m
          <5>1. i \in 1 .. Len(old) /\ i \in 1 .. Len(q)
            BY <1>1, <2>1, <2>2, <4>2
          <5>2. QED
            BY <2>2, <2>3, <4>1, <4>2, <5>1
        <4>3. QED
          BY <2>3, <4>1, <4>2
      <3>3. ASSUME NEW e \in 1 .. Len(piece)
            PROVE  Len(old) + e \in 1 .. Len(next[Len(next)])
                   /\ next[Len(next)][Len(old) + e] = piece[e]
        <4>1. Len(old) + e \in 1 .. Len(q)
          BY <1>1, <2>1, <2>2
        <4>2. QED
          BY <2>2, <2>3, <4>1
      <3>4. ASSUME NEW n \in 1 .. Len(next), NEW i \in 1 .. Len(next[n])
            PROVE  \/ /\ n \in 1 .. Len(parts) /\ i \in 1 .. Len(parts[n])
                      /\ next[n][i] = parts[n][i]
                      /\ n = Len(next) => i <= Len(old)
                   \/ n = Len(next) /\ \E e \in 1 .. Len(piece) : i = Len(old) + e
        <4>1. n \in 1 .. m
          BY <2>3
        <4>2. CASE n = m
          <5>1. i \in 1 .. Len(old) + Len(piece)
            BY <2>2, <2>3, <4>2
          <5>2. CASE i \in 1 .. Len(old)
            BY <2>1, <2>2, <2>3, <4>2, <5>2 DEF m
          <5>3. CASE \E e \in 1 .. Len(piece) : i = Len(old) + e
            BY <2>3, <4>2, <5>3
          <5>4. QED
            BY <2>2, <5>1, <5>2, <5>3
        <4>3. CASE n # m
          BY <2>3, <4>1, <4>3 DEF m
        <4>4. QED
          BY <4>2, <4>3
      <3>5. QED
        BY <3>1, <3>2, <3>3, <3>4 DEF Grown
    <2>5. Added(parts, piece) = next
      BY <1>3 DEF next, q, m
    <2>6. QED
      BY <2>1, <2>4, <2>5
  <1>4. \/ Added(parts, piece) = Append(parts, piece)
        \/ parts # <<>> /\ Added(parts, piece) = [parts EXCEPT ![m] = parts[m] \o piece]
    BY DEF Added
  <1>5. QED
    BY <1>2, <1>3, <1>4

Earlier(u, v) == Rank(u[2]) < Rank(v[2]) \/ (u[2] = v[2] /\ u[3] < v[3])

\* The parts hold the pieces of the first k senders, each behind the ones before it.
Stream(parts, chan, k) ==
    /\ \A n \in 1 .. Len(parts) : \A i \in 1 .. Len(parts[n]) :
          \E a \in 1 .. k : \E q \in 1 .. Len(Piece(chan, Fillers[a])) :
             parts[n][i] = <<chan, Fillers[a], q>>
    /\ \A a \in 1 .. k : \A q \in 1 .. Len(Piece(chan, Fillers[a])) :
          \E n \in 1 .. Len(parts) : \E i \in 1 .. Len(parts[n]) :
             parts[n][i] = <<chan, Fillers[a], q>>
    /\ \A n, m \in 1 .. Len(parts) : \A i \in 1 .. Len(parts[n]), j \in 1 .. Len(parts[m]) :
          (n < m \/ (n = m /\ i < j)) => Earlier(parts[n][i], parts[m][j])

LEMMA StreamGrows ==
    ASSUME WorldStateTypeOK, WorldParameters, NEW chan \in {0, 1},
           NEW k \in 1 .. Len(Fillers), NEW parts \in Seq(Seq(Units)),
           Stream(parts, chan, k - 1)
    PROVE  Stream(Added(parts, Piece(chan, Fillers[k])), chan, k)
  <1> DEFINE s == Fillers[k]
             piece == Piece(chan, s)
             next == Added(parts, piece)
  <1>1. /\ s \in Senders /\ k \in Nat /\ Len(Fillers) \in Nat
        /\ \A a \in 1 .. k : Fillers[a] \in Senders /\ Rank(Fillers[a]) = a
    BY RankIs
  <1>2. /\ piece \in Seq(Units) /\ Len(piece) \in Nat
        /\ \A q \in 1 .. Len(piece) : piece[q] = <<chan, s, q>>
    <2> HIDE DEF s
    <2>1. QED
      BY <1>1, PieceUnits
  <1>3. \A a \in 1 .. k : a \in 1 .. k - 1 \/ a = k
    BY <1>1
  <1>4. \A a \in 1 .. k - 1 : a \in 1 .. k /\ a < k
    BY <1>1
  <1>5. CASE piece = <<>>
    <2>1. next = parts
      BY <1>5 DEF Added
    <2>2. \A q \in 1 .. Len(Piece(chan, Fillers[k])) : FALSE
      <3>1. \A q \in 1 .. Len(piece) : FALSE
        BY <1>5
      <3>2. QED
        BY <3>1
    <2> HIDE DEF next, piece, s
    <2>3. Stream(parts, chan, k)
      <3>1. \A n \in 1 .. Len(parts) : \A i \in 1 .. Len(parts[n]) :
               \E a \in 1 .. k : \E q \in 1 .. Len(Piece(chan, Fillers[a])) :
                  parts[n][i] = <<chan, Fillers[a], q>>
        BY <1>4 DEF Stream
      <3>2. \A a \in 1 .. k : \A q \in 1 .. Len(Piece(chan, Fillers[a])) :
               \E n \in 1 .. Len(parts) : \E i \in 1 .. Len(parts[n]) :
                  parts[n][i] = <<chan, Fillers[a], q>>
        BY <1>3, <2>2 DEF Stream
      <3>3. QED
        BY <3>1, <3>2 DEF Stream
    <2>4. QED
      BY <2>1, <2>3 DEF next, piece, s
  <1>6. CASE piece # <<>>
    <2> HIDE DEF piece
    <2>1. PICK off \in Nat : Grown(parts, piece, next, off)
      BY <1>2, <1>6, AddedGrows
    <2> HIDE DEF next
    <2> DEFINE last == Len(next)
               Old(n, i) == /\ n \in 1 .. Len(parts) /\ i \in 1 .. Len(parts[n])
                            /\ next[n][i] = parts[n][i]
                            /\ n = last => i <= off
               New(n, i) == n = last /\ \E q \in 1 .. Len(piece) : i = off + q
    <2>2. /\ last \in Nat \ {0} /\ last \in 1 .. last
          /\ \A n \in 1 .. Len(parts) : \A i \in 1 .. Len(parts[n]) :
                n \in 1 .. last /\ i \in 1 .. Len(next[n]) /\ next[n][i] = parts[n][i]
          /\ \A q \in 1 .. Len(piece) :
                off + q \in 1 .. Len(next[last]) /\ next[last][off + q] = piece[q]
          /\ \A n \in 1 .. last : \A i \in 1 .. Len(next[n]) : Old(n, i) \/ New(n, i)
      BY <2>1 DEF Grown
    <2>3. \A n \in 1 .. last : \A i \in 1 .. Len(next[n]) :
             New(n, i) => n = last /\ \E q \in 1 .. Len(piece) : i = off + q /\ next[n][i] = <<chan, s, q>>
      BY <1>2, <2>2
    <2> HIDE DEF last
    <2>9. \A n, i : Old(n, i) => /\ n \in 1 .. Len(parts) /\ i \in 1 .. Len(parts[n])
                                 /\ next[n][i] = parts[n][i]
                                 /\ n = last => i <= off
      OBVIOUS
    <2> HIDE DEF Old, New
    <2>4. \A n \in 1 .. last : \A i \in 1 .. Len(next[n]) :
             Old(n, i) => \E a \in 1 .. k - 1 : \E q \in 1 .. Len(Piece(chan, Fillers[a])) :
                             next[n][i] = <<chan, Fillers[a], q>>
      <3>1. ASSUME NEW n, NEW i, Old(n, i)
            PROVE  \E a \in 1 .. k - 1 : \E q \in 1 .. Len(Piece(chan, Fillers[a])) :
                      next[n][i] = <<chan, Fillers[a], q>>
        <4>1. n \in 1 .. Len(parts) /\ i \in 1 .. Len(parts[n]) /\ next[n][i] = parts[n][i]
          BY <2>9, <3>1
        <4>2. QED
          BY <4>1 DEF Stream
      <3>2. QED
        BY <3>1
    <2>5. ASSUME NEW n \in 1 .. last, NEW i \in 1 .. Len(next[n])
          PROVE  \E a \in 1 .. k : \E q \in 1 .. Len(Piece(chan, Fillers[a])) :
                    next[n][i] = <<chan, Fillers[a], q>>
      <3>1. CASE Old(n, i)
        <4>1. PICK a \in 1 .. k - 1 : \E q \in 1 .. Len(Piece(chan, Fillers[a])) :
                 next[n][i] = <<chan, Fillers[a], q>>
          BY <2>4, <3>1
        <4>2. QED
          BY <1>4, <4>1
      <3>2. CASE New(n, i)
        <4>1. k \in 1 .. k
          BY <1>1
        <4>2. \E q \in 1 .. Len(Piece(chan, Fillers[k])) : next[n][i] = <<chan, Fillers[k], q>>
          BY <2>3, <3>2 DEF piece, s
        <4>3. QED
          BY <4>1, <4>2
      <3>3. QED
        BY <2>2, <3>1, <3>2
    <2>6. ASSUME NEW a \in 1 .. k, NEW q \in 1 .. Len(Piece(chan, Fillers[a]))
          PROVE  \E n \in 1 .. last : \E i \in 1 .. Len(next[n]) :
                    next[n][i] = <<chan, Fillers[a], q>>
      <3>1. CASE a \in 1 .. k - 1
        <4>1. PICK n \in 1 .. Len(parts) : \E i \in 1 .. Len(parts[n]) :
                 parts[n][i] = <<chan, Fillers[a], q>>
          BY <3>1 DEF Stream
        <4>2. PICK i \in 1 .. Len(parts[n]) : parts[n][i] = <<chan, Fillers[a], q>>
          BY <4>1
        <4>3. n \in 1 .. last /\ i \in 1 .. Len(next[n]) /\ next[n][i] = parts[n][i]
          BY <2>2
        <4>4. QED
          BY <4>2, <4>3
      <3>2. CASE a = k
        <4>1. q \in 1 .. Len(piece)
          BY <3>2 DEF piece, s
        <4>2. off + q \in 1 .. Len(next[last]) /\ next[last][off + q] = <<chan, Fillers[a], q>>
          BY <1>2, <2>2, <3>2, <4>1 DEF s
        <4>3. QED
          BY <2>2, <4>2
      <3>3. QED
        BY <1>3, <3>1, <3>2
    <2>7. ASSUME NEW n \in 1 .. last, NEW m \in 1 .. last,
                 NEW i \in 1 .. Len(next[n]), NEW j \in 1 .. Len(next[m]),
                 n < m \/ (n = m /\ i < j)
          PROVE  Earlier(next[n][i], next[m][j])
      <3>1. CASE Old(n, i) /\ Old(m, j)
        <4>1. /\ n \in 1 .. Len(parts) /\ i \in 1 .. Len(parts[n])
              /\ m \in 1 .. Len(parts) /\ j \in 1 .. Len(parts[m])
              /\ next[n][i] = parts[n][i] /\ next[m][j] = parts[m][j]
          BY <2>9, <3>1
        <4>2. QED
          BY <2>7, <4>1 DEF Stream
      <3>2. CASE Old(n, i) /\ New(m, j)
        <4>1. PICK a \in 1 .. k - 1 : \E q \in 1 .. Len(Piece(chan, Fillers[a])) :
                 next[n][i] = <<chan, Fillers[a], q>>
          BY <2>4, <3>2
        <4>2. next[n][i][2] = Fillers[a]
          BY <4>1
        <4>3. next[m][j][2] = s
          BY <2>3, <3>2
        <4>4. Rank(Fillers[a]) < Rank(s)
          BY <1>1, <1>4
        <4>5. QED
          BY <4>2, <4>3, <4>4 DEF Earlier
      <3>3. CASE New(n, i) /\ New(m, j)
        <4>1. PICK q \in 1 .. Len(piece) : i = off + q /\ next[n][i] = <<chan, s, q>>
          BY <2>3, <3>3
        <4>2. PICK r \in 1 .. Len(piece) : j = off + r /\ next[m][j] = <<chan, s, r>>
          BY <2>3, <3>3
        <4>3. n = m /\ n \in Int
          <5>1. n = last /\ m = last
            BY <2>3, <3>3
          <5>2. QED
            BY <5>1
        <4>4. q < r
          <5>1. i < j
            BY <2>7, <4>3
          <5>2. q \in Int /\ r \in Int
            OBVIOUS
          <5>3. QED
            BY <4>1, <4>2, <5>1, <5>2
        <4>5. QED
          BY <4>1, <4>2, <4>4 DEF Earlier
      <3>4. CASE New(n, i) /\ Old(m, j)
        <4>1. n = last /\ m = last
          <5>1. n = last /\ n \in Int /\ m \in Int /\ m <= last
            BY <2>2, <2>3, <3>4
          <5>2. QED
            BY <2>7, <5>1
        <4>2. i < j /\ j <= off
          BY <2>7, <2>9, <3>4, <4>1, <2>2
        <4>3. PICK q \in 1 .. Len(piece) : i = off + q
          BY <2>3, <3>4
        <4>4. q \in Nat /\ q > 0 /\ j \in Int
          OBVIOUS
        <4>5. QED
          BY <4>2, <4>3, <4>4
      <3>5. QED
        BY <2>2, <3>1, <3>2, <3>3, <3>4
    <2>8. QED
      BY <2>5, <2>6, <2>7 DEF Stream, last, next, piece, s
  <1>7. QED
    BY <1>5, <1>6

LEMMA PartsStream ==
    ASSUME WorldStateTypeOK, WorldParameters, NEW chan \in {0, 1}
    PROVE  Parts(chan) \in Seq(Seq(Units)) /\ Stream(Parts(chan), chan, Len(Fillers))
  <1> DEFINE n == Len(Fillers)
             D == [k \in 0 .. n |-> {parts \in Seq(Seq(Units)) : Stream(parts, chan, k)}]
  <1>1. PICK f : /\ f[0] = <<>> /\ f[n] = Parts(chan)
                 /\ \A k \in 1 .. n :
                       /\ f[k - 1] \in Seq(Seq(Units))
                       /\ f[k] = Added(f[k - 1], Piece(chan, Fillers[k]))
    BY PartsAre
  <1>2. n \in Nat /\ \A k \in 1 .. n : k \in 0 .. n /\ k - 1 \in 0 .. n /\ Fillers[k] \in Senders
    BY RankIs
  <1>3. f[0] \in D[0]
    <2>1. <<>> \in Seq(Seq(Units)) /\ Len(<<>>) = 0
      OBVIOUS
    <2>2. Stream(<<>>, chan, 0)
      BY DEF Stream
    <2>3. QED
      BY <1>1, <1>2, <2>1, <2>2
  <1>4. ASSUME NEW k \in 1 .. n, f[k - 1] \in D[k - 1] PROVE f[k] \in D[k]
    <2>1. f[k - 1] \in Seq(Seq(Units)) /\ Stream(f[k - 1], chan, k - 1)
      BY <1>2, <1>4
    <2>2. Stream(Added(f[k - 1], Piece(chan, Fillers[k])), chan, k)
      BY <2>1, StreamGrows
    <2>3. Piece(chan, Fillers[k]) \in Seq(Units)
      BY <1>2, PieceIs
    <2>4. Added(f[k - 1], Piece(chan, Fillers[k])) \in Seq(Seq(Units))
      BY <2>1, <2>3, AddedIs
    <2>5. QED
      BY <1>1, <1>2, <2>2, <2>4
  <1> HIDE DEF D
  <1>5. \A k \in 0 .. n : f[k] \in D[k]
    BY <1>2, <1>3, <1>4, RunStays
  <1>6. f[n] \in D[n]
    BY <1>2, <1>5
  <1>7. QED
    BY <1>1, <1>2, <1>6 DEF D

LEMMA LeastOf ==
    ASSUME NEW T, T \subseteq Nat, T # {}
    PROVE  \E m \in T : \A y \in T : m <= y
  <1> DEFINE Found == \E m \in T : \A y \in T : m <= y
             S == {m \in Nat : (\E y \in T : y <= m) => Found}
  <1>1. 0 \in S
    <2>1. ASSUME NEW y \in T, y <= 0 PROVE Found
      <3>1. y = 0
        BY <2>1
      <3>2. \A e \in T : y <= e
        BY <3>1
      <3>3. QED
        BY <3>2
    <2> HIDE DEF Found
    <2>2. QED
      BY <2>1
  <1>2. ASSUME NEW m \in Nat, m \in S PROVE m + 1 \in S
    <2>1. ASSUME NEW y \in T, y <= m + 1 PROVE Found
      <3>1. CASE \E e \in T : e <= m
        <4> HIDE DEF Found
        <4>1. QED
          BY <1>2, <3>1
      <3>2. CASE ~ \E e \in T : e <= m
        <4>1. \A e \in T : m + 1 <= e
          BY <3>2
        <4>2. y = m + 1
          BY <2>1, <4>1
        <4>3. QED
          BY <4>1, <4>2
      <3>3. QED
        BY <3>1, <3>2
    <2> HIDE DEF Found
    <2>2. QED
      BY <2>1
  <1>3. PICK y \in T : TRUE
    OBVIOUS
  <1> HIDE DEF S
  <1>4. y \in S
    <2>1. Nat \subseteq S
      BY <1>1, <1>2, NaturalInduction
    <2>2. QED
      BY <2>1
  <1>5. y \in Nat /\ y <= y
    OBVIOUS
  <1> HIDE DEF Found
  <1>6. Found
    BY <1>4, <1>5 DEF S
  <1>7. QED
    BY <1>6 DEF Found

LEMMA GreatestOf ==
    ASSUME NEW n \in Nat, NEW T, T \subseteq 1 .. n, T # {}
    PROVE  \E m \in T : \A y \in T : y <= m
  <1> DEFINE U == {n - y : y \in T}
  <1>1. U \subseteq Nat /\ U # {}
    <2>1. \A y \in T : y \in Nat /\ n - y \in Nat
      OBVIOUS
    <2>2. QED
      BY <2>1
  <1> HIDE DEF U
  <1>2. PICK u \in U : \A y \in U : u <= y
    BY <1>1, LeastOf
  <1>3. PICK m \in T : u = n - m
    BY DEF U
  <1>4. ASSUME NEW y \in T PROVE y <= m
    <2>1. u <= n - y
      BY <1>2 DEF U
    <2>2. m \in Int /\ y \in Int
      OBVIOUS
    <2>3. QED
      BY <1>3, <2>1, <2>2
  <1>5. QED
    BY <1>4

\* What one client sent is one stretch of a part.
Stretch(bits, h) ==
    \A i, j \in Own(bits, h), k \in 1 .. Len(bits) : i <= k /\ k <= j => k \in Own(bits, h)

\* The window leaves the stretch out: what stood behind it comes first.
LEMMA WindowShows ==
    ASSUME NEW R, NEW bits \in Seq(R), NEW h, Stretch(bits, h)
    PROVE  \E f : /\ Window(bits, h) \in Seq(R)
                  /\ \A i \in 1 .. Len(Window(bits, h)) :
                        /\ f[i] \in 1 .. Len(bits) /\ f[i] \notin Own(bits, h)
                        /\ Window(bits, h)[i] = bits[f[i]]
                  /\ \A x \in 1 .. Len(bits) :
                        x \notin Own(bits, h) => \E i \in 1 .. Len(Window(bits, h)) : f[i] = x
                  /\ \A i, j \in 1 .. Len(Window(bits, h)) :
                        i < j => \/ f[i] < f[j]
                                 \/ \E o \in Own(bits, h) : f[j] < o /\ o < f[i]
  <1> DEFINE n == Len(bits)
             own == Own(bits, h)
             twice == bits \o bits
             w == Window(bits, h)
             Shows(f) == /\ w \in Seq(R)
                         /\ \A i \in 1 .. Len(w) :
                               f[i] \in 1 .. n /\ f[i] \notin own /\ w[i] = bits[f[i]]
                         /\ \A x \in 1 .. n : x \notin own => \E i \in 1 .. Len(w) : f[i] = x
                         /\ \A i, j \in 1 .. Len(w) :
                               i < j => f[i] < f[j] \/ \E o \in own : f[j] < o /\ o < f[i]
  <1>1. n \in Nat /\ own \subseteq 1 .. n /\ DOMAIN bits = 1 .. n
    BY DEF Own
  <1>2. /\ Len(twice) = n + n
        /\ \A i \in 1 .. n : twice[i] = bits[i] /\ twice[n + i] = bits[i] /\ bits[i] \in R
    BY Concatenated
  <1> HIDE DEF twice
  <1>3. ASSUME own = {} PROVE \E f : Shows(f)
    <2>1. Cardinality(own) = 0
      BY <1>3, FS_EmptySet
    <2>2. w = SubSeq(twice, 1, n)
      <3>1. w = SubSeq(twice, 1, (1 + n) - 0 - 1)
        BY <2>1 DEF Window, Doubled, twice
      <3>2. (1 + n) - 0 - 1 = n
        BY <1>1
      <3>3. QED
        BY <3>1, <3>2
    <2>3. w \in Seq(R) /\ Len(w) = n /\ \A i \in 1 .. n : w[i] = twice[(1 + i) - 1]
      <3>1. \A i \in 1 .. n : twice[i] \in R
        BY <1>2
      <3>2. QED
        BY <1>1, <2>2, <3>1, SubSeqProperties
    <2> DEFINE f == [i \in 1 .. n |-> i]
    <2>4. Shows(f)
      <3> HIDE DEF w, n, own
      <3>1. \A i \in 1 .. n : w[i] = bits[i] /\ f[i] = i
        BY <1>1, <1>2, <2>3
      <3>2. QED
        BY <1>1, <1>3, <2>3, <3>1
    <2> HIDE DEF Shows, f
    <2>5. QED
      BY <2>4
  <1>4. ASSUME own # {} PROVE \E f : Shows(f)
    <2>1. PICK a \in own : \A y \in own : a <= y
      BY <1>1, <1>4, LeastOf
    <2>2. PICK b \in own : \A y \in own : y <= b
      BY <1>1, <1>4, GreatestOf
    <2>3. a \in 1 .. n /\ b \in 1 .. n /\ a <= b
      BY <1>1, <2>1, <2>2
    <2>4. own = a .. b
      <3>1. ASSUME NEW k \in a .. b PROVE k \in own
        BY <1>1, <2>1, <2>2, <2>3, <3>1 DEF Stretch
      <3>2. ASSUME NEW k \in own PROVE k \in a .. b
        BY <1>1, <2>1, <2>2
      <3>3. QED
        BY <3>1, <3>2
    <2>5. Cardinality(own) = (b - a) + 1
      BY <1>1, <2>3, <2>4, FS_Interval
    <2>6. WsData(bits, h) = a
      <3>1. \A e \in own : (\A y \in own : e <= y) => e = a
        BY <1>1, <2>1
      <3>2. QED
        BY <2>1, <3>1 DEF WsData
    <2> DEFINE mine == (b - a) + 1
               m == n - mine
    <2>7. mine # 0 /\ mine \in Nat /\ a + mine = b + 1 /\ m \in Nat
      BY <1>1, <2>3
    <2>8. w = SubSeq(twice, b + 1, b + m)
      <3> HIDE DEF mine
      <3>1. Cardinality(own) = mine
        BY <2>5 DEF mine
      <3>2. w = SubSeq(twice, a + mine, a + mine + n - mine - 1)
        BY <2>6, <2>7, <3>1 DEF Window, Doubled, twice
      <3>3. a + mine + n - mine - 1 = b + m
        BY <1>1, <2>3, <2>7
      <3>4. QED
        BY <2>7, <3>2, <3>3
    <2>9. w \in Seq(R) /\ Len(w) = m /\ \A i \in 1 .. m : w[i] = twice[b + i]
      <3>1. ASSUME NEW i \in b + 1 .. b + m PROVE twice[i] \in R
        <4>1. i \in 1 .. n \/ (i - n \in 1 .. n /\ i = n + (i - n))
          BY <1>1, <2>3, <2>7
        <4>2. QED
          BY <1>2, <4>1
      <3> HIDE DEF m
      <3>2. /\ w \in Seq(R)
            /\ Len(w) = IF b + 1 <= b + m THEN ((b + m) - (b + 1)) + 1 ELSE 0
            /\ \A i \in 1 .. ((b + m) - (b + 1)) + 1 : w[i] = twice[((b + 1) + i) - 1]
        BY <2>3, <2>7, <2>8, <3>1, SubSeqProperties
      <3>3. /\ ((b + m) - (b + 1)) + 1 = m
            /\ Len(w) = m
        BY <2>3, <2>7, <3>2
      <3>4. \A i \in 1 .. m : ((b + 1) + i) - 1 = b + i
        BY <2>3, <2>7
      <3>5. QED
        BY <3>2, <3>3, <3>4
    <2> DEFINE Place(i) == IF b + i <= n THEN b + i ELSE (b + i) - n
               f == [i \in 1 .. m |-> Place(i)]
    <2>10. ASSUME NEW i \in 1 .. m
           PROVE  /\ Place(i) \in 1 .. n /\ Place(i) \notin a .. b
                  /\ b + i <= n => Place(i) = b + i
                  /\ ~(b + i <= n) => Place(i) < a /\ b + i = n + Place(i)
      BY <1>1, <2>3, <2>7
    <2>11. \A i \in 1 .. m : f[i] = Place(i)
      OBVIOUS
    <2> HIDE DEF f, w
    <2>12. ASSUME NEW i \in 1 .. m PROVE w[i] = bits[Place(i)]
      <3> HIDE DEF Place
      <3>1. CASE b + i <= n
        <4>1. w[i] = twice[Place(i)]
          BY <2>9, <2>10, <3>1
        <4>2. QED
          BY <1>2, <2>10, <4>1
      <3>2. CASE ~(b + i <= n)
        <4>1. w[i] = twice[n + Place(i)]
          BY <2>9, <2>10, <3>2
        <4>2. QED
          BY <1>2, <2>10, <4>1
      <3>3. QED
        BY <3>1, <3>2
    <2>13. ASSUME NEW x \in 1 .. n, x \notin a .. b PROVE \E i \in 1 .. m : Place(i) = x
      <3>1. CASE x > b
        <4>1. x - b \in 1 .. m /\ Place(x - b) = x
          BY <1>1, <2>3, <2>7, <3>1
        <4>2. QED
          BY <4>1
      <3>2. CASE x < a
        <4>1. (x + n) - b \in 1 .. m /\ Place((x + n) - b) = x
          BY <1>1, <2>3, <2>7, <3>2
        <4>2. QED
          BY <4>1
      <3>3. QED
        BY <2>3, <2>13, <3>1, <3>2
    <2>14. ASSUME NEW i \in 1 .. m, NEW j \in 1 .. m, i < j
           PROVE  Place(i) < Place(j) \/ (Place(j) < a /\ a < Place(i))
      BY <1>1, <2>3, <2>7, <2>14
    <2> HIDE DEF Place
    <2>15. Shows(f)
      <3> HIDE DEF n, own, m
      <3>1. \A i \in 1 .. m : f[i] \in 1 .. n /\ f[i] \notin own /\ w[i] = bits[f[i]]
        BY <2>4, <2>10, <2>11, <2>12
      <3>2. \A x \in 1 .. n : x \notin own => \E i \in 1 .. m : f[i] = x
        BY <2>4, <2>11, <2>13
      <3>3. \A i, j \in 1 .. m :
               i < j => f[i] < f[j] \/ \E o \in own : f[j] < o /\ o < f[i]
        BY <2>1, <2>11, <2>14
      <3>4. QED
        BY <2>7, <2>9, <3>1, <3>2, <3>3
    <2> HIDE DEF Shows
    <2>16. QED
      BY <2>15
  <1>5. \E f : Shows(f)
    <2> HIDE DEF Shows
    <2>1. QED
      BY <1>3, <1>4
  <1>6. PICK f : Shows(f)
    BY <1>5
  <1>7. QED
    BY <1>6 DEF w, n, own

\* Positions and messages together.
Sent == Parts(0) \o Parts(1)

LEMMA SentStream ==
    ASSUME WorldStateTypeOK, WorldParameters
    PROVE  /\ Len(Sent) \in Nat /\ DOMAIN Sent = 1 .. Len(Sent)
           /\ \A n \in 1 .. Len(Sent) : Sent[n] \in Seq(Units)
           /\ \A n \in 1 .. Len(Sent) : \A i \in 1 .. Len(Sent[n]) :
                 \E chan \in {0, 1}, a \in 1 .. Len(Fillers) :
                    \E q \in 1 .. Len(Piece(chan, Fillers[a])) :
                       Sent[n][i] = <<chan, Fillers[a], q>>
           /\ \A chan \in {0, 1}, a \in 1 .. Len(Fillers) :
                 \A q \in 1 .. Len(Piece(chan, Fillers[a])) :
                    \E n \in 1 .. Len(Sent) : \E i \in 1 .. Len(Sent[n]) :
                       Sent[n][i] = <<chan, Fillers[a], q>>
           /\ \A n \in 1 .. Len(Sent) : \A i, j \in 1 .. Len(Sent[n]) :
                 i < j => Sent[n][i][1] = Sent[n][j][1] /\ Earlier(Sent[n][i], Sent[n][j])
           /\ \A n, m \in 1 .. Len(Sent) :
                 \A i \in 1 .. Len(Sent[n]), j \in 1 .. Len(Sent[m]) :
                    n < m => \/ Sent[n][i][1] < Sent[m][j][1]
                             \/ Sent[n][i][1] = Sent[m][j][1] /\ Earlier(Sent[n][i], Sent[m][j])
  <1> DEFINE p == Parts(0)
             r == Parts(1)
             In(chan, u) == \E a \in 1 .. Len(Fillers) : \E q \in 1 .. Len(Piece(chan, Fillers[a])) :
                               u = <<chan, Fillers[a], q>>
             Ordered(parts, n, i, m, j) ==
                (n < m \/ (n = m /\ i < j)) => Earlier(parts[n][i], parts[m][j])
  <1>1. /\ p \in Seq(Seq(Units)) /\ Stream(p, 0, Len(Fillers))
        /\ r \in Seq(Seq(Units)) /\ Stream(r, 1, Len(Fillers))
    BY PartsStream
  <1>2. /\ \A n \in 1 .. Len(p) : \A i \in 1 .. Len(p[n]) : In(0, p[n][i]) /\ p[n][i][1] = 0
        /\ \A n \in 1 .. Len(r) : \A i \in 1 .. Len(r[n]) : In(1, r[n][i]) /\ r[n][i][1] = 1
    <2>1. \A u : (In(0, u) => u[1] = 0) /\ (In(1, u) => u[1] = 1)
      OBVIOUS
    <2> HIDE DEF p, r
    <2>2. /\ \A n \in 1 .. Len(p) : \A i \in 1 .. Len(p[n]) : In(0, p[n][i])
          /\ \A n \in 1 .. Len(r) : \A i \in 1 .. Len(r[n]) : In(1, r[n][i])
      BY <1>1 DEF Stream
    <2> HIDE DEF In
    <2>3. QED
      BY <2>1, <2>2
  <1>3. /\ \A n, m \in 1 .. Len(p) : \A i \in 1 .. Len(p[n]), j \in 1 .. Len(p[m]) : Ordered(p, n, i, m, j)
        /\ \A n, m \in 1 .. Len(r) : \A i \in 1 .. Len(r[n]), j \in 1 .. Len(r[m]) : Ordered(r, n, i, m, j)
    <2> HIDE DEF p, r
    <2>1. QED
      BY <1>1 DEF Stream
  <1>4. /\ \A a \in 1 .. Len(Fillers) : \A q \in 1 .. Len(Piece(0, Fillers[a])) :
              \E n \in 1 .. Len(p) : \E i \in 1 .. Len(p[n]) : p[n][i] = <<0, Fillers[a], q>>
        /\ \A a \in 1 .. Len(Fillers) : \A q \in 1 .. Len(Piece(1, Fillers[a])) :
              \E n \in 1 .. Len(r) : \E i \in 1 .. Len(r[n]) : r[n][i] = <<1, Fillers[a], q>>
    <2> HIDE DEF p, r
    <2>1. QED
      BY <1>1 DEF Stream
  <1> HIDE DEF p, r
  <1>5. \A x, y \in Seq(Seq(Units)) :
           /\ x \o y \in Seq(Seq(Units)) /\ Len(x) \in Nat /\ Len(y) \in Nat
           /\ Len(x \o y) = Len(x) + Len(y)
           /\ \A i \in 1 .. Len(x) : (x \o y)[i] = x[i]
           /\ \A i \in 1 .. Len(y) : (x \o y)[Len(x) + i] = y[i]
           /\ \A i \in 1 .. Len(x) + Len(y) :
                 i \in 1 .. Len(x) \/ \E j \in 1 .. Len(y) : i = Len(x) + j
    BY Concatenated
  <1> DEFINE First(n) == n \in 1 .. Len(p) /\ Sent[n] = p[n]
             Second(n, k) == k \in 1 .. Len(r) /\ n = Len(p) + k /\ Sent[n] = r[k]
  <1>6. /\ Sent \in Seq(Seq(Units)) /\ Len(p) \in Nat /\ Len(r) \in Nat
        /\ Len(Sent) = Len(p) + Len(r)
        /\ \A n \in 1 .. Len(p) : Sent[n] = p[n]
        /\ \A k \in 1 .. Len(r) : Sent[Len(p) + k] = r[k]
        /\ \A n \in 1 .. Len(p) + Len(r) :
              n \in 1 .. Len(p) \/ \E k \in 1 .. Len(r) : n = Len(p) + k
    <2>1. Sent = p \o r
      BY DEF Sent, p, r
    <2>2. QED
      BY <1>1, <1>5, <2>1
  <1>7. /\ Len(Sent) \in Nat /\ DOMAIN Sent = 1 .. Len(Sent)
        /\ \A n \in 1 .. Len(Sent) : Sent[n] \in Seq(Units)
    BY <1>6
  <1>8. \A n \in 1 .. Len(Sent) : First(n) \/ \E k \in 1 .. Len(r) : Second(n, k)
    <2>1. ASSUME NEW n \in 1 .. Len(Sent), n \notin 1 .. Len(p)
          PROVE  \E k \in 1 .. Len(r) : Second(n, k)
      <3>1. PICK k \in 1 .. Len(r) : n = Len(p) + k
        BY <1>6, <2>1
      <3>2. QED
        BY <1>6, <3>1
    <2>2. QED
      BY <1>6, <2>1
  <1>8a. /\ \A n \in 1 .. Len(p) : \A i \in 1 .. Len(p[n]) : p[n][i][1] = 0
         /\ \A n \in 1 .. Len(r) : \A i \in 1 .. Len(r[n]) : r[n][i][1] = 1
    <2> HIDE DEF In
    <2>1. QED
      BY <1>2
  <1>9. ASSUME NEW n \in 1 .. Len(Sent), NEW i \in 1 .. Len(Sent[n])
        PROVE  In(0, Sent[n][i]) \/ In(1, Sent[n][i])
    <2> HIDE DEF In
    <2>1. QED
      BY <1>2, <1>8
  <1>10. ASSUME NEW chan \in {0, 1}, NEW a \in 1 .. Len(Fillers),
                NEW q \in 1 .. Len(Piece(chan, Fillers[a]))
         PROVE  \E n \in 1 .. Len(Sent) : \E i \in 1 .. Len(Sent[n]) :
                   Sent[n][i] = <<chan, Fillers[a], q>>
    <2>1. CASE chan = 0
      <3>1. PICK n \in 1 .. Len(p) : \E i \in 1 .. Len(p[n]) : p[n][i] = <<chan, Fillers[a], q>>
        BY <1>4, <2>1
      <3>2. n \in 1 .. Len(Sent) /\ Sent[n] = p[n]
        BY <1>6
      <3>3. QED
        BY <3>1, <3>2
    <2>2. CASE chan = 1
      <3>1. PICK k \in 1 .. Len(r) : \E i \in 1 .. Len(r[k]) : r[k][i] = <<chan, Fillers[a], q>>
        BY <1>4, <2>2
      <3>2. Len(p) + k \in 1 .. Len(Sent) /\ Sent[Len(p) + k] = r[k]
        BY <1>6
      <3>3. QED
        BY <3>1, <3>2
    <2>3. QED
      BY <2>1, <2>2
  <1>11. ASSUME NEW n \in 1 .. Len(Sent), NEW i \in 1 .. Len(Sent[n]),
                NEW j \in 1 .. Len(Sent[n]), i < j
         PROVE  Sent[n][i][1] = Sent[n][j][1] /\ Earlier(Sent[n][i], Sent[n][j])
    <2>1. CASE First(n)
      <3>1. n \in 1 .. Len(p) /\ i \in 1 .. Len(p[n]) /\ j \in 1 .. Len(p[n]) /\ Sent[n] = p[n]
        BY <2>1
      <3>2. Earlier(p[n][i], p[n][j])
        BY <1>3, <1>11, <3>1
      <3>3. p[n][i][1] = p[n][j][1]
        BY <1>8a, <3>1
      <3>4. QED
        BY <3>1, <3>2, <3>3
    <2>2. ASSUME NEW k \in 1 .. Len(r), Second(n, k)
          PROVE  Sent[n][i][1] = Sent[n][j][1] /\ Earlier(Sent[n][i], Sent[n][j])
      <3>1. i \in 1 .. Len(r[k]) /\ j \in 1 .. Len(r[k]) /\ Sent[n] = r[k]
        BY <2>2
      <3>2. Earlier(r[k][i], r[k][j])
        BY <1>3, <1>11, <3>1
      <3>3. r[k][i][1] = r[k][j][1]
        BY <1>8a, <3>1
      <3>4. QED
        BY <3>1, <3>2, <3>3
    <2>3. QED
      BY <1>8, <2>1, <2>2
  <1>12. ASSUME NEW n \in 1 .. Len(Sent), NEW m \in 1 .. Len(Sent), n < m,
                NEW i \in 1 .. Len(Sent[n]), NEW j \in 1 .. Len(Sent[m])
         PROVE  \/ Sent[n][i][1] < Sent[m][j][1]
                \/ Sent[n][i][1] = Sent[m][j][1] /\ Earlier(Sent[n][i], Sent[m][j])
    <2>1. CASE First(n) /\ First(m)
      <3>1. /\ n \in 1 .. Len(p) /\ i \in 1 .. Len(p[n]) /\ Sent[n] = p[n]
            /\ m \in 1 .. Len(p) /\ j \in 1 .. Len(p[m]) /\ Sent[m] = p[m]
        BY <2>1
      <3>2. Earlier(p[n][i], p[m][j])
        BY <1>3, <1>12, <3>1
      <3>3. p[n][i][1] = p[m][j][1]
        BY <1>8a, <3>1
      <3>4. QED
        BY <3>1, <3>2, <3>3
    <2>2. ASSUME First(n), NEW k \in 1 .. Len(r), Second(m, k)
          PROVE  Sent[n][i][1] < Sent[m][j][1]
      <3>1. Sent[n][i][1] = 0
        BY <1>8a, <2>2
      <3>2. Sent[m][j][1] = 1
        BY <1>8a, <2>2
      <3>3. QED
        BY <3>1, <3>2
    <2>3. ASSUME NEW k \in 1 .. Len(r), Second(n, k), First(m)
          PROVE  FALSE
      BY <1>6, <1>12, <2>3
    <2>4. ASSUME NEW k \in 1 .. Len(r), Second(n, k), NEW e \in 1 .. Len(r), Second(m, e)
          PROVE  Sent[n][i][1] = Sent[m][j][1] /\ Earlier(Sent[n][i], Sent[m][j])
      <3>1. /\ i \in 1 .. Len(r[k]) /\ Sent[n] = r[k]
            /\ j \in 1 .. Len(r[e]) /\ Sent[m] = r[e]
        BY <2>4
      <3>2. k < e
        <4>1. k \in Int /\ e \in Int /\ n = Len(p) + k /\ m = Len(p) + e
          BY <2>4
        <4>2. QED
          BY <1>6, <1>12, <4>1
      <3>3. Earlier(r[k][i], r[e][j])
        BY <1>3, <3>1, <3>2
      <3>4. r[k][i][1] = r[e][j][1]
        BY <1>8a, <3>1
      <3>5. QED
        BY <3>1, <3>3, <3>4
    <2>5. QED
      BY <1>8, <2>1, <2>2, <2>3, <2>4
  <1>13. \A n \in 1 .. Len(Sent) : \A i \in 1 .. Len(Sent[n]) :
            \E chan \in {0, 1}, a \in 1 .. Len(Fillers) :
               \E q \in 1 .. Len(Piece(chan, Fillers[a])) :
                  Sent[n][i] = <<chan, Fillers[a], q>>
    BY <1>9
  <1>14. QED
    BY <1>7, <1>10, <1>11, <1>12, <1>13

\* Ranks tell senders apart, and are in the order of the clients.
LEMMA RanksOrder ==
    ASSUME WorldStateTypeOK, WorldParameters,
           NEW s \in ToSet(Fillers), NEW e \in ToSet(Fillers)
    PROVE  /\ s \in Senders /\ Rank(s) \in Nat /\ Owner(s) \in Present
           /\ At(Owner(s)) \in Nat
           /\ Rank(s) = Rank(e) => s = e
           /\ Rank(s) <= Rank(e) => At(Owner(s)) <= At(Owner(e))
           /\ At(Owner(s)) = At(Owner(e)) => Owner(s) = Owner(e)
  <1>1. /\ Rank(s) \in 1 .. Len(Fillers) /\ Fillers[Rank(s)] = s /\ Len(Fillers) \in Nat
        /\ Rank(e) \in 1 .. Len(Fillers) /\ Fillers[Rank(e)] = e
    BY RankIs
  <1>2. s \in Senders
    BY RankIs
  <1>3. /\ Owner(s) \in Present /\ At(Owner(s)) \in Nat
        /\ Owner(e) \in Present /\ At(Owner(e)) \in Nat
    <2>1. \A i \in 1 .. Len(Fillers) :
             Owner(Fillers[i]) \in Present /\ At(Owner(Fillers[i])) \in 1 .. Len(clients)
      BY FillersInOrder DEF InOrder
    <2>2. QED
      BY <1>1, <2>1
  <1>4. Rank(s) <= Rank(e) => At(Owner(s)) <= At(Owner(e))
    <2>1. \A i, j \in 1 .. Len(Fillers) :
             i < j => At(Owner(Fillers[i])) <= At(Owner(Fillers[j]))
      BY FillersInOrder DEF InOrder
    <2>2. Rank(s) < Rank(e) => At(Owner(s)) <= At(Owner(e))
      BY <1>1, <2>1
    <2>3. Rank(s) = Rank(e) => At(Owner(s)) <= At(Owner(e))
      BY <1>1, <1>3
    <2>4. QED
      BY <1>1, <2>2, <2>3
  <1>5. At(Owner(s)) = At(Owner(e)) => Owner(s) = Owner(e)
    <2>1. clients[At(Owner(s))] = Owner(s) /\ clients[At(Owner(e))] = Owner(e)
      BY <1>3, AtIs
    <2>2. QED
      BY <2>1
  <1>6. QED
    BY <1>1, <1>2, <1>3, <1>4, <1>5

\* Of units in the order of their senders, what stands between two of one
\* client is of that client, and what stands between two of one sender is of
\* that sender.
LEMMA Between ==
    ASSUME WorldStateTypeOK, WorldParameters, NEW u, NEW v, NEW x,
           u[2] \in ToSet(Fillers), v[2] \in ToSet(Fillers), x[2] \in ToSet(Fillers),
           Earlier(u, v), Earlier(v, x)
    PROVE  /\ Owner(u[2]) = Owner(x[2]) => Owner(v[2]) = Owner(x[2])
           /\ u[2] = x[2] => v[2] = x[2]
  <1>1. Rank(u[2]) <= Rank(v[2]) /\ Rank(v[2]) <= Rank(x[2])
    <2>1. Rank(u[2]) \in Nat /\ Rank(v[2]) \in Nat /\ Rank(x[2]) \in Nat
      BY RanksOrder
    <2>2. QED
      BY <2>1 DEF Earlier
  <1>2. Owner(u[2]) = Owner(x[2]) => Owner(v[2]) = Owner(x[2])
    <2>1. /\ At(Owner(u[2])) <= At(Owner(v[2])) /\ At(Owner(v[2])) <= At(Owner(x[2]))
          /\ At(Owner(v[2])) \in Nat /\ At(Owner(x[2])) \in Nat
      BY <1>1, RanksOrder
    <2>2. At(Owner(v[2])) = At(Owner(x[2])) => Owner(v[2]) = Owner(x[2])
      BY RanksOrder
    <2>3. QED
      BY <2>1, <2>2
  <1>3. u[2] = x[2] => v[2] = x[2]
    <2>1. Rank(v[2]) \in Nat /\ Rank(x[2]) \in Nat /\ (Rank(v[2]) = Rank(x[2]) => v[2] = x[2])
      BY RanksOrder
    <2>2. QED
      BY <1>1, <2>1
  <1>4. QED
    BY <1>2, <1>3

LEMMA SentBySomebody ==
    ASSUME WorldStateTypeOK, WorldParameters, NEW n \in 1 .. Len(Sent), NEW i \in 1 .. Len(Sent[n])
    PROVE  Sent[n][i][2] \in ToSet(Fillers)
  <1>1. PICK chan \in {0, 1}, a \in 1 .. Len(Fillers) :
           \E q \in 1 .. Len(Piece(chan, Fillers[a])) : Sent[n][i] = <<chan, Fillers[a], q>>
    BY SentStream
  <1>2. Sent[n][i][2] = Fillers[a]
    BY <1>1
  <1>3. QED
    BY <1>2, RankIs

LEMMA SentStretch ==
    ASSUME WorldStateTypeOK, WorldParameters, NEW n \in 1 .. Len(Sent), NEW h
    PROVE  Stretch(Sent[n], h)
  <1> DEFINE bits == Sent[n]
  <1>1. bits \in Seq(Units) /\ DOMAIN bits = 1 .. Len(bits) /\ Len(bits) \in Nat
    BY SentStream
  <1>2. \A i \in 1 .. Len(bits) : bits[i][2] \in ToSet(Fillers)
    BY SentBySomebody
  <1>3. \A i, j \in 1 .. Len(bits) : i < j => Earlier(bits[i], bits[j])
    BY SentStream
  <1> HIDE DEF bits
  <1>4. ASSUME NEW i \in Own(bits, h), NEW j \in Own(bits, h), NEW k \in 1 .. Len(bits),
               i <= k, k <= j
        PROVE  k \in Own(bits, h)
    <2>1. /\ i \in 1 .. Len(bits) /\ Owner(bits[i][2]) = h
          /\ j \in 1 .. Len(bits) /\ Owner(bits[j][2]) = h
      BY <1>1 DEF Own
    <2>2. CASE i = k \/ k = j
      BY <2>2
    <2>3. CASE i < k /\ k < j
      <3>1. Earlier(bits[i], bits[k]) /\ Earlier(bits[k], bits[j])
        BY <1>3, <2>1, <2>3
      <3>2. Owner(bits[k][2]) = h
        BY <1>2, <2>1, <3>1, Between
      <3>3. QED
        BY <1>1, <3>2 DEF Own
    <2>4. QED
      BY <1>4, <2>1, <2>2, <2>3
  <1>5. QED
    BY <1>4 DEF Stretch, bits

\* What the windows of one client show: all of the others' units, in order.
LEMMA WindowOfSent ==
    ASSUME WorldStateTypeOK, WorldParameters, NEW n \in 1 .. Len(Sent), NEW h
    PROVE  \E f : /\ Window(Sent[n], h) \in Seq(Units)
                  /\ \A i \in 1 .. Len(Window(Sent[n], h)) :
                        /\ f[i] \in 1 .. Len(Sent[n])
                        /\ Owner(Sent[n][f[i]][2]) # h
                        /\ Window(Sent[n], h)[i] = Sent[n][f[i]]
                  /\ \A x \in 1 .. Len(Sent[n]) :
                        Owner(Sent[n][x][2]) # h =>
                           \E i \in 1 .. Len(Window(Sent[n], h)) : f[i] = x
                  /\ \A i, j \in 1 .. Len(Window(Sent[n], h)) :
                        i < j /\ Sent[n][f[i]][2] = Sent[n][f[j]][2] => f[i] < f[j]
  <1> DEFINE bits == Sent[n]
             w == Window(bits, h)
  <1>1. bits \in Seq(Units) /\ DOMAIN bits = 1 .. Len(bits) /\ Stretch(bits, h)
    BY SentStream, SentStretch
  <1>2. /\ \A i \in 1 .. Len(bits) : bits[i][2] \in ToSet(Fillers)
        /\ \A i, j \in 1 .. Len(bits) : i < j => Earlier(bits[i], bits[j])
    BY SentBySomebody, SentStream
  <1> HIDE DEF bits
  <1>3. \A x \in 1 .. Len(bits) : x \in Own(bits, h) <=> Owner(bits[x][2]) = h
    BY <1>1 DEF Own
  <1>4. PICK f : /\ w \in Seq(Units)
                 /\ \A i \in 1 .. Len(w) :
                       f[i] \in 1 .. Len(bits) /\ f[i] \notin Own(bits, h) /\ w[i] = bits[f[i]]
                 /\ \A x \in 1 .. Len(bits) :
                       x \notin Own(bits, h) => \E i \in 1 .. Len(w) : f[i] = x
                 /\ \A i, j \in 1 .. Len(w) :
                       i < j => \/ f[i] < f[j]
                                \/ \E o \in Own(bits, h) : f[j] < o /\ o < f[i]
    BY <1>1, WindowShows
  <1> HIDE DEF w
  <1>5. ASSUME NEW i \in 1 .. Len(w), NEW j \in 1 .. Len(w), i < j,
               bits[f[i]][2] = bits[f[j]][2]
        PROVE  f[i] < f[j]
    <2>1. ASSUME NEW o \in Own(bits, h), f[j] < o, o < f[i]
          PROVE  FALSE
      <3>1. o \in 1 .. Len(bits) /\ Owner(bits[o][2]) = h
        BY <1>1 DEF Own
      <3>2. Earlier(bits[f[j]], bits[o]) /\ Earlier(bits[o], bits[f[i]])
        BY <1>2, <1>4, <2>1, <3>1
      <3>3. bits[o][2] = bits[f[i]][2]
        BY <1>2, <1>4, <1>5, <3>1, <3>2, Between
      <3>4. Owner(bits[f[i]][2]) # h
        BY <1>3, <1>4
      <3>5. QED
        BY <3>1, <3>3, <3>4
    <2>2. QED
      BY <1>4, <1>5, <2>1
  <1>6. /\ \A i \in 1 .. Len(w) :
              f[i] \in 1 .. Len(bits) /\ Owner(bits[f[i]][2]) # h /\ w[i] = bits[f[i]]
        /\ \A x \in 1 .. Len(bits) :
              Owner(bits[x][2]) # h => \E i \in 1 .. Len(w) : f[i] = x
    BY <1>3, <1>4
  <1>7. QED
    BY <1>4, <1>5, <1>6 DEF bits, w

LEMMA ShownIs ==
    ASSUME WorldStateTypeOK, WorldParameters
    PROVE  EverybodyElse
  <1> SUFFICES ASSUME NEW h \in Present
               PROVE  /\ UNION {ToSet(Shown(h)[n]) : n \in DOMAIN Shown(h)}
                           = UNION {ToSet(Piece(0, s)) \cup ToSet(Piece(1, s)) :
                                       s \in {e \in ToSet(Fillers) : Owner(e) # h}}
                      /\ \A n, m \in DOMAIN Shown(h) :
                            \A i \in DOMAIN Shown(h)[n], j \in DOMAIN Shown(h)[m] :
                               (n < m \/ (n = m /\ i < j)) /\ Shown(h)[n][i][2] = Shown(h)[m][j][2]
                                  => Before(Shown(h)[n][i], Shown(h)[m][j])
    BY DEF EverybodyElse
  <1> DEFINE shown == Shown(h)
             others == {s \in ToSet(Fillers) : Owner(s) # h}
  <1>1. /\ Len(Sent) \in Nat /\ DOMAIN Sent = 1 .. Len(Sent)
        /\ \A n \in 1 .. Len(Sent) : Sent[n] \in Seq(Units)
    BY SentStream
  <1>2. DOMAIN shown = 1 .. Len(Sent) /\ \A n \in 1 .. Len(Sent) : shown[n] = Window(Sent[n], h)
    <2>1. shown = [n \in DOMAIN Sent |-> Window(Sent[n], h)]
      BY DEF Shown, Sent
    <2>2. QED
      BY <1>1, <2>1
  <1> HIDE DEF shown
  <1>3. \A s \in ToSet(Fillers) : s \in Senders /\ \E a \in 1 .. Len(Fillers) : s = Fillers[a]
    BY RankIs
  <1>4. \A a \in 1 .. Len(Fillers) : Fillers[a] \in ToSet(Fillers)
    BY RankIs
  <1>5. \A s \in ToSet(Fillers), chan \in {0, 1} :
           ToSet(Piece(chan, s)) = {<<chan, s, q>> : q \in 1 .. Len(Piece(chan, s))}
    <2> SUFFICES ASSUME NEW s \in ToSet(Fillers), NEW chan \in {0, 1}
                 PROVE  ToSet(Piece(chan, s)) = {<<chan, s, q>> : q \in 1 .. Len(Piece(chan, s))}
      OBVIOUS
    <2> DEFINE p == Piece(chan, s)
    <2>1. p \in Seq(Units) /\ \A i \in 1 .. Len(p) : p[i] = <<chan, s, i>>
      BY <1>3, PieceUnits
    <2> HIDE DEF p
    <2>2. ToSet(p) = {p[i] : i \in 1 .. Len(p)}
      BY <2>1 DEF ToSet
    <2>3. ToSet(p) = {<<chan, s, q>> : q \in 1 .. Len(p)}
      BY <2>1, <2>2
    <2>4. QED
      BY <2>3 DEF p
  <1>6. \A n \in 1 .. Len(Sent) :
           /\ shown[n] \in Seq(Units) /\ Len(shown[n]) \in Nat
           /\ DOMAIN shown[n] = 1 .. Len(shown[n])
    <2>1. ASSUME NEW n \in 1 .. Len(Sent)
          PROVE  Window(Sent[n], h) \in Seq(Units)
      BY WindowOfSent
    <2>2. QED
      BY <1>2, <2>1
  <1>6a. \A n \in 1 .. Len(Sent) : \E f :
            /\ \A i \in 1 .. Len(shown[n]) :
                  /\ f[i] \in 1 .. Len(Sent[n])
                  /\ Owner(Sent[n][f[i]][2]) # h
                  /\ shown[n][i] = Sent[n][f[i]]
            /\ \A x \in 1 .. Len(Sent[n]) :
                  Owner(Sent[n][x][2]) # h => \E i \in 1 .. Len(shown[n]) : f[i] = x
            /\ \A i, j \in 1 .. Len(shown[n]) :
                  i < j /\ Sent[n][f[i]][2] = Sent[n][f[j]][2] => f[i] < f[j]
    <2>1. ASSUME NEW n \in 1 .. Len(Sent)
          PROVE  \E f :
             /\ \A i \in 1 .. Len(shown[n]) :
                   /\ f[i] \in 1 .. Len(Sent[n])
                   /\ Owner(Sent[n][f[i]][2]) # h
                   /\ shown[n][i] = Sent[n][f[i]]
             /\ \A x \in 1 .. Len(Sent[n]) :
                   Owner(Sent[n][x][2]) # h => \E i \in 1 .. Len(shown[n]) : f[i] = x
             /\ \A i, j \in 1 .. Len(shown[n]) :
                   i < j /\ Sent[n][f[i]][2] = Sent[n][f[j]][2] => f[i] < f[j]
      <3>1. shown[n] = Window(Sent[n], h)
        BY <1>2
      <3>2. PICK f :
                /\ \A i \in 1 .. Len(Window(Sent[n], h)) :
                      /\ f[i] \in 1 .. Len(Sent[n])
                      /\ Owner(Sent[n][f[i]][2]) # h
                      /\ Window(Sent[n], h)[i] = Sent[n][f[i]]
                /\ \A x \in 1 .. Len(Sent[n]) :
                      Owner(Sent[n][x][2]) # h =>
                         \E i \in 1 .. Len(Window(Sent[n], h)) : f[i] = x
                /\ \A i, j \in 1 .. Len(Window(Sent[n], h)) :
                      i < j /\ Sent[n][f[i]][2] = Sent[n][f[j]][2] => f[i] < f[j]
        BY WindowOfSent
      <3>3. \A i \in 1 .. Len(shown[n]) :
               /\ f[i] \in 1 .. Len(Sent[n])
               /\ Owner(Sent[n][f[i]][2]) # h
               /\ shown[n][i] = Sent[n][f[i]]
        BY <3>1, <3>2
      <3>4. \A x \in 1 .. Len(Sent[n]) :
               Owner(Sent[n][x][2]) # h => \E i \in 1 .. Len(shown[n]) : f[i] = x
        BY <3>1, <3>2
      <3>5. \A i, j \in 1 .. Len(shown[n]) :
               i < j /\ Sent[n][f[i]][2] = Sent[n][f[j]][2] => f[i] < f[j]
        BY <3>1, <3>2
      <3>6. QED
        BY <3>3, <3>4, <3>5
    <2>2. QED
      BY <2>1
  <1>7. ASSUME NEW n \in 1 .. Len(Sent), NEW i \in 1 .. Len(shown[n])
        PROVE  \E s \in others, chan \in {0, 1} : shown[n][i] \in ToSet(Piece(chan, s))
    <2>1. PICK x \in 1 .. Len(Sent[n]) : Owner(Sent[n][x][2]) # h /\ shown[n][i] = Sent[n][x]
      BY <1>6a
    <2>2. PICK chan \in {0, 1}, a \in 1 .. Len(Fillers) :
             \E q \in 1 .. Len(Piece(chan, Fillers[a])) : Sent[n][x] = <<chan, Fillers[a], q>>
      BY SentStream
    <2>3. Sent[n][x][2] = Fillers[a]
      BY <2>2
    <2>4. Fillers[a] \in others
      BY <1>4, <2>1, <2>3
    <2>5. Sent[n][x] \in ToSet(Piece(chan, Fillers[a]))
      BY <1>4, <1>5, <2>2
    <2>6. QED
      BY <2>1, <2>4, <2>5
  <1>8. ASSUME NEW s \in others, NEW chan \in {0, 1}, NEW u \in ToSet(Piece(chan, s))
        PROVE  \E n \in 1 .. Len(Sent) : \E i \in 1 .. Len(shown[n]) : shown[n][i] = u
    <2>1. PICK a \in 1 .. Len(Fillers) : s = Fillers[a]
      BY <1>3
    <2>2. PICK q \in 1 .. Len(Piece(chan, s)) : u = <<chan, s, q>>
      BY <1>5
    <2>3. PICK n \in 1 .. Len(Sent) : \E x \in 1 .. Len(Sent[n]) : Sent[n][x] = <<chan, s, q>>
      BY <2>1, SentStream
    <2>4. PICK x \in 1 .. Len(Sent[n]) : Sent[n][x] = u
      BY <2>2, <2>3
    <2>5. Owner(Sent[n][x][2]) # h
      BY <2>2, <2>4
    <2>6. \E i \in 1 .. Len(shown[n]) : shown[n][i] = Sent[n][x]
      <3>1. PICK f : \A e \in 1 .. Len(Sent[n]) :
               Owner(Sent[n][e][2]) # h => \E i \in 1 .. Len(shown[n]) : f[i] = e /\ shown[n][i] = Sent[n][f[i]]
        BY <1>6a
      <3>2. QED
        BY <2>5, <3>1
    <2>7. QED
      BY <2>4, <2>6
  <1>9. UNION {ToSet(shown[n]) : n \in DOMAIN shown}
           = UNION {ToSet(Piece(0, s)) \cup ToSet(Piece(1, s)) : s \in others}
    <2>1. \A n \in 1 .. Len(Sent) : ToSet(shown[n]) = {shown[n][i] : i \in 1 .. Len(shown[n])}
      BY <1>6 DEF ToSet
    <2>2. ASSUME NEW u \in UNION {ToSet(shown[n]) : n \in DOMAIN shown}
          PROVE  u \in UNION {ToSet(Piece(0, s)) \cup ToSet(Piece(1, s)) : s \in others}
      <3>1. PICK n \in 1 .. Len(Sent) : u \in ToSet(shown[n])
        BY <1>2
      <3>2. PICK s \in others, chan \in {0, 1} : u \in ToSet(Piece(chan, s))
        BY <1>7, <2>1, <3>1
      <3>3. u \in ToSet(Piece(0, s)) \cup ToSet(Piece(1, s))
        BY <3>2
      <3> HIDE DEF others
      <3>4. QED
        BY <3>3
    <2>3. ASSUME NEW u \in UNION {ToSet(Piece(0, s)) \cup ToSet(Piece(1, s)) : s \in others}
          PROVE  u \in UNION {ToSet(shown[n]) : n \in DOMAIN shown}
      <3>1. PICK s \in others : u \in ToSet(Piece(0, s)) \cup ToSet(Piece(1, s))
        <4> HIDE DEF others
        <4>1. QED
          OBVIOUS
      <3>2. PICK n \in 1 .. Len(Sent) : \E i \in 1 .. Len(shown[n]) : shown[n][i] = u
        BY <1>8, <3>1
      <3>3. u \in ToSet(shown[n])
        BY <2>1, <3>2
      <3>4. QED
        BY <1>2, <3>3
    <2>4. QED
      BY <2>2, <2>3
  <1>10. ASSUME NEW n \in DOMAIN shown, NEW m \in DOMAIN shown,
                NEW i \in DOMAIN shown[n], NEW j \in DOMAIN shown[m],
                n < m \/ (n = m /\ i < j), shown[n][i][2] = shown[m][j][2]
         PROVE  Before(shown[n][i], shown[m][j])
    <2>1. n \in 1 .. Len(Sent) /\ m \in 1 .. Len(Sent)
          /\ i \in 1 .. Len(shown[n]) /\ j \in 1 .. Len(shown[m])
      BY <1>2, <1>6
    <2>2. ASSUME NEW x \in 1 .. Len(Sent[n]), NEW y \in 1 .. Len(Sent[m]),
                 shown[n][i] = Sent[n][x], shown[m][j] = Sent[m][y],
                 n < m \/ (n = m /\ x < y)
          PROVE  Before(shown[n][i], shown[m][j])
      <3> DEFINE u == Sent[n][x]
                 v == Sent[m][y]
      <3>1. u[1] < v[1] \/ (u[1] = v[1] /\ Earlier(u, v))
        <4>1. CASE n < m
          BY <2>1, <4>1, SentStream
        <4>2. CASE n = m /\ x < y
          <5>1. \A a, b \in 1 .. Len(Sent[n]) :
                   a < b => Sent[n][a][1] = Sent[n][b][1] /\ Earlier(Sent[n][a], Sent[n][b])
            BY <2>1, SentStream
          <5>2. QED
            BY <4>2, <5>1
        <4>3. QED
          BY <2>2, <4>1, <4>2
      <3>2. u[2] = v[2] /\ Rank(u[2]) \in Nat
        <4>1. u[2] \in ToSet(Fillers)
          BY <2>1, SentBySomebody
        <4>2. QED
          BY <1>10, <2>2, <4>1, RanksOrder
      <3> HIDE DEF u, v
      <3>3. Before(u, v)
        BY <3>1, <3>2 DEF Before, Earlier
      <3>4. QED
        BY <2>2, <3>3 DEF u, v
    <2>3. CASE n < m
      <3>1. PICK x \in 1 .. Len(Sent[n]) : shown[n][i] = Sent[n][x]
        BY <1>6a, <2>1
      <3>2. PICK y \in 1 .. Len(Sent[m]) : shown[m][j] = Sent[m][y]
        BY <1>6a, <2>1
      <3>3. QED
        BY <2>2, <2>3, <3>1, <3>2
    <2>4. CASE n = m /\ i < j
      <3>1. PICK f : /\ \A e \in 1 .. Len(shown[n]) :
                           f[e] \in 1 .. Len(Sent[n]) /\ shown[n][e] = Sent[n][f[e]]
                     /\ \A e, g \in 1 .. Len(shown[n]) :
                           e < g /\ Sent[n][f[e]][2] = Sent[n][f[g]][2] => f[e] < f[g]
        BY <1>6a, <2>1
      <3>2. f[i] < f[j]
        BY <1>10, <2>1, <2>4, <3>1
      <3>3. QED
        BY <2>1, <2>2, <2>4, <3>1, <3>2
    <2>5. QED
      BY <1>10, <2>3, <2>4
  <1>11. QED
    BY <1>9, <1>10 DEF shown

\* Each client is shown everything that the others sent since the last world
\* state, once and in the order of each sender, and nothing of its own or of
\* its bots: for any clients, any numbers of bots and messages and any size at
\* which the data is split (the windows of sendpositions and sendmessages).
THEOREM OthersAreShown ==
    ASSUME WorldParameters
    PROVE  WorldStateSpec => []EverybodyElse
  <1>1. WorldInv => EverybodyElse
    BY ShownIs DEF WorldInv
  <1>2. QED
    BY <1>1, WorldInvHolds, PTL
-----------------------------------------------------------------------------
(* What the runs check side by side                                        *)

\* SlotsIsEachPart: what the run slots explores implements the admission, the
\* world states and the fights: what is proved of each holds there.
THEOREM SlotsIsEachPart ==
    SlotsSpec => Spec /\ WorldStateSpec /\ CombatSpec
  <1>1. SlotsInit => Init /\ WorldStateInit /\ CombatInit
    BY DEF SlotsInit
  <1>2. [SlotsNext]_<<part, vars, wvars, fvars>> => [Next]_vars
    BY DEF SlotsNext
  <1>3. [SlotsNext]_<<part, vars, wvars, fvars>> => [WorldStateNext]_wvars
    BY DEF SlotsNext
  <1>4. [SlotsNext]_<<part, vars, wvars, fvars>> => [CombatNext]_fvars
    BY DEF SlotsNext
  <1>5. QED
    BY <1>1, <1>2, <1>3, <1>4, PTL DEF SlotsSpec, Spec, WorldStateSpec, CombatSpec

\* What the run of the slots finds on its instance of the world states and of
\* the fights holds of that very specification for any clients and bounds.
THEOREM ServerIsSafe ==
    ASSUME WorldParameters, FightParameters
    PROVE  SlotsSpec => /\ [](ServerTypeOK /\ BuffersShared /\ EverybodyElse /\ DiesOnce)
                        /\ HitsOwnLife
  <1>1. WorldStateTypeOK /\ CombatTypeOK => ServerTypeOK
    BY DEF ServerTypeOK
  <1>2. WorldStateSpec => [](WorldStateTypeOK /\ BuffersShared /\ EverybodyElse)
    BY WorldStateTyped, BuffersAreShared, OthersAreShown, PTL
  <1>3. CombatSpec => [](CombatTypeOK /\ DiesOnce) /\ HitsOwnLife
    BY CombatTyped, LivesEndOnce, HitsAreOfTheLife, PTL
  <1>4. QED
    BY <1>1, <1>2, <1>3, SlotsIsEachPart, PTL
=============================================================================
