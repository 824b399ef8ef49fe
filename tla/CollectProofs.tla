---------------------------- MODULE CollectProofs ----------------------------
(***************************************************************************)
(* Proofs about Collect for any players, bases and limits: tokens that are *)
(* remembered by a client number do not outlive the client, and however    *)
(* often somebody dies, few are remembered. At the end, what the run play  *)
(* puts side by side is each of its four components.                       *)
(***************************************************************************)
EXTENDS MCPlay, MastermodeProofs, AiManagerProofs, CtfProofs, TLAPS

\* token::dropper tells players, bases (below zero) and nobody (INT_MIN) apart.
DroppersDiffer == Players \cap Bases = {} /\ Unowned \notin Players \cup Bases

States == {"gone", "idle", "alive"}

Client == [state : States, team : Teams, tokens : Int]

\* The parts of the state that remember who dropped what.
Shape ==
    /\ player \in [Players -> Client]
    /\ heap = [d \in Droppers |-> heap[d]]

DropperInv == Shape /\ DroppersPresent

-----------------------------------------------------------------------------
LEMMA InitInv == DroppersDiffer /\ CollectInit => DropperInv
  <1> SUFFICES ASSUME CollectInit PROVE DropperInv
    OBVIOUS
  <1>1. Shape
    BY DEF CollectInit, Shape, Client, States, Teams
  <1>2. DroppersPresent
    BY DEF CollectInit, DroppersPresent, Droppers
  <1>3. QED
    BY <1>1, <1>2 DEF DropperInv

\* respawn, or nothing left to carry.
LEMMA Emptied ==
    ASSUME NEW q \in Client, NEW s \in States
    PROVE  LET r == [q EXCEPT !.state = s, !.tokens = 0] IN r \in Client /\ r.state = s
  <1> DEFINE p == [q EXCEPT !.state = s]
  <1>1. p \in Client /\ p.state = s
    BY DEF Client
  <1>2. [q EXCEPT !.state = s, !.tokens = 0] = [p EXCEPT !.tokens = 0]
    BY DEF Client
  <1> HIDE DEF p
  <1>3. [p EXCEPT !.tokens = 0] \in Client /\ [p EXCEPT !.tokens = 0].state = p.state
    BY <1>1 DEF Client
  <1>4. QED
    BY <1>1, <1>2, <1>3

\* A step that changes one client and leaves it, or makes it, present.
LEMMA OnePlayer ==
    ASSUME DropperInv, NEW p \in Players, UNCHANGED heap,
           NEW r \in Client,
           player' = [player EXCEPT ![p] = r],
           r.state = "gone" => heap[p] = None
    PROVE  DropperInv'
  BY DEF DropperInv, Shape, DroppersPresent

\* A step that changes the tokens of one dropper, who is not a free number.
LEMMA OneDropper ==
    ASSUME DropperInv, UNCHANGED player, NEW d, NEW f, heap' = [heap EXCEPT ![d] = f],
           d \in Players => player[d].state # "gone" \/ f = None
    PROVE  DropperInv'
  <1>1. \A e \in Droppers : heap'[e] = IF e = d THEN f ELSE heap[e]
    BY DEF DropperInv, Shape
  <1>2. Shape'
    BY DEF DropperInv, Shape
  <1>3. DroppersPresent'
    BY <1>1 DEF DropperInv, DroppersPresent, Droppers
  <1>4. QED
    BY <1>2, <1>3 DEF DropperInv

LEMMA DieKeeps ==
    ASSUME DropperInv, NEW p \in Players, NEW penalty \in BOOLEAN, Die(p, penalty)
    PROVE  DropperInv'
  <1> DEFINE r == [player[p] EXCEPT !.state = "idle", !.tokens = 0]
  <1>1. player[p].state = "alive" /\ player' = [player EXCEPT ![p] = r]
    BY DEF Die, DropperInv, Shape
  <1>2. r \in Client /\ r.state = "idle"
    BY Emptied DEF DropperInv, Shape, States
  <1> HIDE DEF r
  <1>3. heap' = heap \/ \E f : heap' = [heap EXCEPT ![p] = f]
    <2>1. DropTokens(p, penalty)
      BY DEF Die
    <2>2. QED
      BY <2>1 DEF DropTokens
  <1>4. Shape'
    BY <1>1, <1>2, <1>3 DEF DropperInv, Shape
  <1>5. \A q \in Players \ {p} : player'[q] = player[q] /\ heap'[q] = heap[q]
    BY <1>1, <1>3 DEF DropperInv, Shape, Droppers
  <1>6. player'[p].state = "idle"
    BY <1>1, <1>2 DEF DropperInv, Shape
  <1>7. QED
    BY <1>4, <1>5, <1>6 DEF DropperInv, DroppersPresent

LEMMA DieTwiceKeeps ==
    ASSUME DropperInv, NEW p \in Players, DieTwice(p)
    PROVE  DropperInv'
  <1> DEFINE r == [state |-> "idle", team |-> 3 - player[p].team, tokens |-> 0]
  <1>1. player' = [player EXCEPT ![p] = r]
    <2>1. player[p] \in Client /\ player' = [player EXCEPT ![p] = player'[p]]
      BY DEF DieTwice, DropperInv, Shape
    <2>2. player'[p] = [player[p] EXCEPT !.state = "idle", !.tokens = 0, !.team = 3 - @]
      BY DEF DieTwice, DropperInv, Shape
    <2>3. player'[p] = r
      BY <2>1, <2>2 DEF Client
    <2>4. QED
      BY <2>1, <2>3
  <1>2. r \in Client /\ r.state = "idle"
    BY DEF DropperInv, Shape, States, Client, Teams
  <1> HIDE DEF r
  <1>3. heap' = heap \/ \E f : heap' = [heap EXCEPT ![p] = f]
    BY DEF DieTwice
  <1>4. Shape'
    BY <1>1, <1>2, <1>3 DEF DropperInv, Shape
  <1>5. \A q \in Players \ {p} : player'[q] = player[q] /\ heap'[q] = heap[q]
    BY <1>1, <1>3 DEF DropperInv, Shape, Droppers
  <1>6. player'[p].state = "idle"
    BY <1>1, <1>2 DEF DropperInv, Shape
  <1>7. QED
    BY <1>4, <1>5, <1>6 DEF DropperInv, DroppersPresent

LEMMA LeaveKeeps ==
    ASSUME DroppersDiffer, DropperInv, NEW p \in Players, Leave(p)
    PROVE  DropperInv'
  <1>1. player' = [player EXCEPT ![p] = [state |-> "gone", team |-> 1, tokens |-> 0]]
    BY DEF Leave
  <1>2. PICK left : heap' = [heap EXCEPT ![p] = None, ![Unowned] = left]
    BY DEF Leave, Disown
  <1>3. Shape'
    <2>1. [state |-> "gone", team |-> 1, tokens |-> 0] \in Client
      BY DEF Client, States, Teams
    <2>2. player' \in [Players -> Client]
      BY <1>1, <2>1 DEF DropperInv, Shape
    <2>3. heap' = [d \in Droppers |-> heap'[d]]
      BY <1>2 DEF DropperInv, Shape
    <2>4. QED
      BY <2>2, <2>3 DEF Shape
  <1>4. \A q \in Players : heap'[q] = IF q = p THEN None ELSE heap[q]
    BY <1>2 DEF DropperInv, Shape, Droppers, DroppersDiffer
  <1>5. \A q \in Players \ {p} : player'[q] = player[q]
    BY <1>1
  <1>6. QED
    BY <1>3, <1>4, <1>5 DEF DropperInv, DroppersPresent

LEMMA PlayerKeeps ==
    ASSUME DropperInv, NEW p \in Players,
           \/ \E t \in Teams : Join(p, t)
           \/ Spawn(p) \/ Watch(p) \/ ChangeTeam(p)
           \/ \E d \in Droppers, k \in Kinds : TakeToken(p, d, k)
           \/ \E b \in Bases : Deposit(p, b)
    PROVE  DropperInv'
  <1>1. player \in [Players -> Client] /\ player[p] \in Client
    BY DEF DropperInv, Shape
  <1>2. ASSUME NEW t \in Teams, Join(p, t) PROVE DropperInv'
    <2>1. [state |-> "idle", team |-> t, tokens |-> 0] \in Client
      BY DEF Client, States
    <2>2. QED
      BY <1>2, <2>1, OnePlayer DEF Join
  <1>3. CASE Spawn(p)
    <2> DEFINE r == [player[p] EXCEPT !.state = "alive", !.tokens = 0]
    <2>1. r \in Client /\ r.state = "alive"
      BY <1>1, Emptied DEF States
    <2>2. player' = [player EXCEPT ![p] = r] /\ UNCHANGED heap
      BY <1>1, <1>3 DEF Spawn
    <2> HIDE DEF r
    <2>3. QED
      BY <2>1, <2>2, OnePlayer
  <1>4. CASE Watch(p)
    <2> DEFINE r == [player[p] EXCEPT !.state = "idle", !.tokens = 0]
    <2>1. r \in Client /\ r.state = "idle"
      BY <1>1, Emptied DEF States
    <2>2. player' = [player EXCEPT ![p] = r] /\ UNCHANGED heap
      BY <1>1, <1>4 DEF Watch
    <2> HIDE DEF r
    <2>3. QED
      BY <2>1, <2>2, OnePlayer
  <1>5. CASE ChangeTeam(p)
    <2> DEFINE r == [player[p] EXCEPT !.team = 3 - @]
    <2>1. r \in Client /\ r.state # "gone"
      BY <1>1, <1>5 DEF ChangeTeam, Teams, Client
    <2>2. player' = [player EXCEPT ![p] = r] /\ UNCHANGED heap
      BY <1>1, <1>5 DEF ChangeTeam
    <2> HIDE DEF r
    <2>3. QED
      BY <2>1, <2>2, OnePlayer
  <1>6. ASSUME NEW d \in Droppers, NEW k \in Kinds, TakeToken(p, d, k) PROVE DropperInv'
    <2> DEFINE r == [player[p] EXCEPT !.tokens = @ + 1]
    <2>1. r \in Client /\ r.state = "alive"
      BY <1>1, <1>6 DEF TakeToken, Client
    <2>2. player' = [player EXCEPT ![p] = r] /\ UNCHANGED heap
      BY <1>1, <1>6 DEF TakeToken
    <2> HIDE DEF r
    <2>3. QED
      BY <2>1, <2>2, OnePlayer
  <1>7. ASSUME NEW b \in Bases, Deposit(p, b) PROVE DropperInv'
    <2> DEFINE r == [player[p] EXCEPT !.tokens = 0]
    <2>1. r \in Client /\ r.state = "alive"
      BY <1>1, <1>7 DEF Deposit, Client
    <2>2. player' = [player EXCEPT ![p] = r] /\ UNCHANGED heap
      BY <1>1, <1>7 DEF Deposit
    <2> HIDE DEF r
    <2>3. QED
      BY <2>1, <2>2, OnePlayer
  <1>8. QED
    BY <1>2, <1>3, <1>4, <1>5, <1>6, <1>7

LEMMA StealKeeps ==
    ASSUME DroppersDiffer, DropperInv, NEW p \in Players, NEW b \in Bases, Steal(p, b)
    PROVE  DropperInv'
  <1>1. UNCHANGED player /\ heap' = [heap EXCEPT ![b] = Plus(heap[b], One(player[p].team))]
    BY DEF Steal, DropperInv, Shape, Droppers
  <1>2. b \notin Players
    BY DEF DroppersDiffer
  <1>3. QED
    BY <1>1, <1>2, OneDropper

LEMMA ExpireKeeps ==
    ASSUME DropperInv, NEW d \in Droppers, NEW k \in Kinds, Expire(d, k)
    PROVE  DropperInv'
  <1>1. UNCHANGED player /\ heap' = [heap EXCEPT ![d] = [heap[d] EXCEPT ![k] = @ - 1]]
    BY DEF Expire, DropperInv, Shape
  <1>2. d \in Players => player[d].state # "gone"
    <2>1. SUFFICES ASSUME d \in Players, player[d].state = "gone" PROVE FALSE
      OBVIOUS
    <2>2. heap[d] = None
      BY <2>1 DEF DropperInv, DroppersPresent
    <2>3. QED
      BY <2>2 DEF Expire, None
  <1>3. QED
    BY <1>1, <1>2, OneDropper

LEMMA ChangeMapKeeps ==
    ASSUME DropperInv, ChangeMap
    PROVE  DropperInv'
  <1>1. Shape'
    <2>1. ASSUME NEW p \in Players PROVE player'[p] \in Client
      <3> DEFINE s == IF player[p].state = "alive" THEN "idle" ELSE player[p].state
      <3>1. player[p] \in Client /\ s \in States
        BY DEF DropperInv, Shape, Client, States
      <3>2. player'[p] = [player[p] EXCEPT !.state = s, !.tokens = 0]
        BY DEF ChangeMap
      <3> HIDE DEF s
      <3>3. QED
        BY <3>1, <3>2, Emptied
    <2>2. player' = [p \in Players |-> player'[p]]
      BY DEF ChangeMap
    <2>3. heap' = [d \in Droppers |-> heap'[d]]
      BY DEF ChangeMap
    <2>4. QED
      BY <2>1, <2>2, <2>3 DEF Shape
  <1>2. DroppersPresent'
    BY DEF ChangeMap, DroppersPresent, Droppers
  <1>3. QED
    BY <1>1, <1>2 DEF DropperInv

LEMMA Inductive == DroppersDiffer /\ DropperInv /\ [CollectNext]_kvars => DropperInv'
  <1> SUFFICES ASSUME DroppersDiffer, DropperInv, [CollectNext]_kvars PROVE DropperInv'
    OBVIOUS
  <1>1. ASSUME UNCHANGED <<player, heap>> PROVE DropperInv'
    BY <1>1 DEF DropperInv, Shape, DroppersPresent
  <1>2. CASE UNCHANGED kvars
    BY <1>1, <1>2 DEF kvars
  <1>3. CASE \/ \E b \in Bases : StealTime(b)
             \/ EndOfTime \/ Reopen \/ ParseBases
    BY <1>1, <1>3 DEF StealTime, EndOfTime, Reopen, ParseBases
  <1>4. CASE CollectNext
    BY <1>3, <1>4, DieKeeps, DieTwiceKeeps, LeaveKeeps, PlayerKeeps, StealKeeps, ExpireKeeps, ChangeMapKeeps
    DEF CollectNext
  <1>5. QED
    BY <1>2, <1>4

\* However clients come, die, take, steal and go, and whatever expires, a client
\* number that is free has dropped nothing: leavegame hands the tokens of who
\* disconnects to nobody, and no other path drops for a client that is not there.
THEOREM DroppersArePresent ==
    ASSUME DroppersDiffer
    PROVE  CollectSpec => []DroppersPresent
  <1>1. CollectInit => DropperInv
    BY InitInv
  <1>2. DropperInv /\ [CollectNext]_kvars => DropperInv'
    BY Inductive
  <1>3. DropperInv => DroppersPresent
    BY DEF DropperInv
  <1>4. QED
    BY <1>1, <1>2, <1>3, PTL DEF CollectSpec

-----------------------------------------------------------------------------
(* How many tokens there are                                               *)

\* TOKENLIMIT and UNOWNEDTOKENLIMIT are positive, and every base has a team.
Parameters ==
    /\ TOKENLIMIT \in Nat \ {0} /\ UNOWNEDTOKENLIMIT \in Nat /\ MaxScore \in Nat
    /\ BaseTeam \in [Bases -> Teams]

Tally == [Kinds -> Nat]

\* The inductive invariant: the types say that nobody carries more than it may.
BoundedInv ==
    /\ CollectTypeOK
    /\ heap \in [Droppers -> Tally]
    /\ TokensBounded

\* The limit for the tokens of a dropper.
Limit(d) == IF d \in Players THEN 2 * TOKENLIMIT
            ELSE IF d \in Bases THEN TOKENLIMIT ELSE 2 * UNOWNEDTOKENLIMIT

LEMMA LimitsHold ==
    ASSUME DroppersDiffer
    PROVE  TokensBounded <=> \A d \in Droppers : Count(heap[d]) <= Limit(d)
  BY DEF DroppersDiffer, TokensBounded, Limit, Droppers

LEMMA Counted ==
    ASSUME NEW f \in Tally, NEW g \in Tally
    PROVE  /\ Plus(f, g) \in Tally
           /\ Count(f) \in Nat
           /\ Count(Plus(f, g)) = Count(f) + Count(g)
           /\ \A k \in Kinds : f[k] <= Count(f)
  BY DEF Tally, Kinds, Plus, Count

LEMMA OneCounts ==
    /\ None \in Tally /\ Count(None) = 0
    /\ \A k \in Teams : One(k) \in Tally /\ Count(One(k)) = 1
  <1>1. None \in Tally /\ Count(None) = 0
    BY DEF None, Tally, Kinds, Count
  <1>2. ASSUME NEW k \in Teams PROVE One(k) \in Tally /\ Count(One(k)) = 1
    BY DEF None, One, Tally, Kinds, Count, Teams
  <1>3. QED
    BY <1>1, <1>2

\* What droptokens and leavegame keep.
LEMMA TrimmedKeeps ==
    ASSUME NEW f \in Tally, NEW team \in Teams, NEW friends \in Nat, NEW others \in Nat,
           NEW g \in Trimmed(f, team, friends, others)
    PROVE  g \in Tally /\ Count(g) <= friends + others
  <1>1. g \in Tally
    BY Counted DEF Trimmed, Tally
  <1>2. g[team] <= friends /\ Count(g) - g[team] <= others
    <2>1. Count(f) - f[team] \in Nat
      BY DEF Tally, Count, Kinds, Teams
    <2>2. f[team] \in Nat
      BY DEF Tally, Kinds, Teams
    <2>3. QED
      BY <2>1, <2>2 DEF Trimmed, Least
  <1>3. Count(g) \in Nat /\ g[team] \in Nat
    BY <1>1, Counted DEF Tally, Kinds, Teams
  <1>4. QED
    BY <1>1, <1>2, <1>3

LEMMA HeapKeeps ==
    ASSUME DroppersDiffer, BoundedInv, NEW d \in Droppers, NEW f \in Tally,
           heap' = [heap EXCEPT ![d] = f], Count(f) <= Limit(d)
    PROVE  heap' \in [Droppers -> Tally] /\ TokensBounded'
  <1>1. \A e \in Droppers : Count(heap'[e]) <= Limit(e)
    <2>1. \A e \in Droppers : heap'[e] = IF e = d THEN f ELSE heap[e]
      BY DEF BoundedInv
    <2>2. \A e \in Droppers : Count(heap[e]) <= Limit(e)
      BY LimitsHold DEF BoundedInv
    <2>3. QED
      BY <2>1, <2>2
  <1>2. heap' \in [Droppers -> Tally]
    BY DEF BoundedInv
  <1>3. TokensBounded'
    BY <1>1 DEF DroppersDiffer, TokensBounded, Limit, Droppers
  <1>4. QED
    BY <1>2, <1>3

\* droptokens: what is kept of the own kind and of the others leaves room for
\* what is dropped.
LEMMA RemainsKeep ==
    ASSUME Parameters, NEW f \in Tally, NEW team \in Teams,
           NEW carried \in 0 .. TOKENLIMIT, NEW g \in Remains(f, team, carried)
    PROVE  g \in Tally /\ Count(g) <= 2 * TOKENLIMIT
  <1> DEFINE dropped == [None EXCEPT ![team] = 1, ![-team] = carried]
  <1>1. PICK kept \in Trimmed(f, team, TOKENLIMIT - 1, Most(TOKENLIMIT - carried, 0)) :
            g = Plus(kept, dropped)
    BY DEF Remains
  <1>2. dropped \in Tally /\ Count(dropped) = 1 + carried
    BY DEF None, Tally, Kinds, Count, Teams, Parameters
  <1> HIDE DEF dropped
  <1>3. Most(TOKENLIMIT - carried, 0) = TOKENLIMIT - carried
    BY DEF Most, Parameters
  <1>4. kept \in Tally /\ Count(kept) <= (TOKENLIMIT - 1) + (TOKENLIMIT - carried)
    <2>1. TOKENLIMIT - 1 \in Nat /\ TOKENLIMIT - carried \in Nat
      BY DEF Parameters
    <2>2. QED
      BY <1>1, <1>3, <2>1, TrimmedKeeps
  <1>5. g \in Tally /\ Count(g) = Count(kept) + 1 + carried /\ Count(kept) \in Nat
    BY <1>1, <1>2, <1>4, Counted DEF Parameters
  <1>6. QED
    BY <1>4, <1>5 DEF Parameters

LEMMA DropKeeps ==
    ASSUME DroppersDiffer, Parameters, BoundedInv,
           NEW p \in Players, NEW penalty \in BOOLEAN, Die(p, penalty) \/ DieTwice(p)
    PROVE  heap' \in [Droppers -> Tally] /\ TokensBounded'
  <1>1. /\ p \in Droppers /\ heap[p] \in Tally /\ Limit(p) = 2 * TOKENLIMIT
        /\ player[p].team \in Teams /\ player[p].tokens \in 0 .. TOKENLIMIT
        /\ 0 \in 0 .. TOKENLIMIT
    BY DEF BoundedInv, CollectTypeOK, Parameters, Droppers, Limit
  <1>2. CASE UNCHANGED heap
    BY <1>2 DEF BoundedInv, TokensBounded
  <1>3. ASSUME NEW f, heap' = [heap EXCEPT ![p] = f],
               NEW g \in Tally, NEW team \in Teams, NEW carried \in 0 .. TOKENLIMIT,
               f \in Remains(g, team, carried)
        PROVE  heap' \in [Droppers -> Tally] /\ TokensBounded'
    <2>1. f \in Tally /\ Count(f) <= Limit(p)
      BY <1>1, <1>3, RemainsKeep
    <2>2. QED
      BY <1>1, <1>3, <2>1, HeapKeeps
  <1>4. CASE Die(p, penalty) /\ ~UNCHANGED heap
    <2> DEFINE carried == IF penalty THEN 0 ELSE player[p].tokens
    <2>1. PICK f \in Remains(heap[p], player[p].team, carried) : heap' = [heap EXCEPT ![p] = f]
      BY <1>4 DEF Die, DropTokens
    <2>2. carried \in 0 .. TOKENLIMIT
      BY <1>1
    <2> HIDE DEF carried
    <2>3. QED
      BY <1>1, <1>3, <2>1, <2>2
  <1>5. CASE DieTwice(p) /\ ~UNCHANGED heap
    <2>1. PICK first \in Remains(heap[p], player[p].team, 0) :
             \E second \in Remains(first, 3 - player[p].team, 0) :
                heap' = [heap EXCEPT ![p] = second]
      BY <1>5 DEF DieTwice
    <2>2. first \in Tally
      BY <1>1, <2>1, RemainsKeep
    <2>3. 3 - player[p].team \in Teams
      BY <1>1 DEF Teams
    <2>4. QED
      BY <1>1, <1>3, <2>1, <2>2, <2>3
  <1>6. QED
    BY <1>2, <1>4, <1>5

\* leavegame of somebody who disconnects.
LEMMA DisownKeeps ==
    ASSUME DroppersDiffer, Parameters, BoundedInv, NEW p \in Players, Disown(p)
    PROVE  heap' \in [Droppers -> Tally] /\ TokensBounded'
  <1>1. PICK left \in Trimmed(Plus(heap[p], heap[Unowned]), player[p].team,
                              UNOWNEDTOKENLIMIT, UNOWNEDTOKENLIMIT) :
            heap' = [heap EXCEPT ![p] = None, ![Unowned] = left]
    BY DEF Disown
  <1>2. left \in Tally /\ Count(left) <= UNOWNEDTOKENLIMIT + UNOWNEDTOKENLIMIT
    <2>1. Plus(heap[p], heap[Unowned]) \in Tally
      BY Counted DEF BoundedInv, Droppers
    <2>2. player[p].team \in Teams
      BY DEF BoundedInv, CollectTypeOK
    <2>3. QED
      BY <1>1, <2>1, <2>2, TrimmedKeeps DEF Parameters
  <1>3. \A e \in Droppers : heap'[e] = IF e = Unowned THEN left ELSE IF e = p THEN None ELSE heap[e]
    BY <1>1 DEF BoundedInv, Droppers
  <1>4. heap' \in [Droppers -> Tally]
    BY <1>1, <1>2, OneCounts DEF BoundedInv
  <1>5. \A e \in Droppers : Count(heap'[e]) <= Limit(e)
    <2>1. \A e \in Droppers : Count(heap[e]) <= Limit(e)
      BY LimitsHold DEF BoundedInv
    <2>2. Count(left) <= Limit(Unowned)
      BY <1>2, Counted DEF Limit, Parameters, DroppersDiffer
    <2>3. Count(None) <= Limit(p)
      BY OneCounts DEF Limit, Parameters
    <2>4. QED
      BY <1>3, <2>1, <2>2, <2>3
  <1>6. QED
    BY <1>4, <1>5 DEF DroppersDiffer, TokensBounded, Limit, Droppers

LEMMA StealBounded ==
    ASSUME DroppersDiffer, Parameters, BoundedInv, NEW p \in Players, NEW b \in Bases, Steal(p, b)
    PROVE  heap' \in [Droppers -> Tally] /\ TokensBounded'
  <1> DEFINE f == Plus(heap[b], One(player[p].team))
  <1>1. heap' = [heap EXCEPT ![b] = f] /\ Count(heap[b]) < TOKENLIMIT
    BY DEF Steal, BoundedInv, Droppers
  <1>2. heap[b] \in Tally /\ player[p].team \in Teams /\ b \in Droppers
    BY DEF BoundedInv, Droppers, CollectTypeOK
  <1>3. f \in Tally /\ Count(f) = Count(heap[b]) + 1
    BY <1>2, Counted, OneCounts
  <1> HIDE DEF f
  <1>4. Count(f) <= Limit(b)
    BY <1>1, <1>2, <1>3, Counted DEF Limit, DroppersDiffer, Parameters
  <1>5. QED
    BY <1>1, <1>2, <1>3, <1>4, HeapKeeps

LEMMA ExpireBounded ==
    ASSUME DroppersDiffer, Parameters, BoundedInv,
           NEW d \in Droppers, NEW k \in Kinds, Expire(d, k)
    PROVE  heap' \in [Droppers -> Tally] /\ TokensBounded'
  <1> DEFINE f == [heap[d] EXCEPT ![k] = @ - 1]
  <1>1. heap' = [heap EXCEPT ![d] = f] /\ heap[d][k] > 0
    BY DEF Expire, BoundedInv
  <1>2. heap[d] \in Tally /\ Count(heap[d]) <= Limit(d)
    BY LimitsHold DEF BoundedInv
  <1>3. f \in Tally /\ Count(f) = Count(heap[d]) - 1
    BY <1>1, <1>2 DEF Tally, Kinds, Count
  <1> HIDE DEF f
  <1>4. Count(f) <= Limit(d)
    BY <1>2, <1>3, Counted DEF Limit, Parameters
  <1>5. QED
    BY <1>1, <1>3, <1>4, HeapKeeps

Carrier == [state : States, team : Teams, tokens : 0 .. TOKENLIMIT]

\* The types of what is not a token.
RestTyped ==
    /\ player \in [Players -> Carrier]
    /\ scores \in [Teams -> 0 .. MaxScore]
    /\ stealable \subseteq Bases
    /\ notgotbases \in BOOLEAN /\ over \in BOOLEAN

LEMMA EmptyHanded ==
    ASSUME Parameters, NEW q \in Carrier, NEW s \in States
    PROVE  [q EXCEPT !.state = s, !.tokens = 0] \in Carrier
  <1> DEFINE p == [q EXCEPT !.state = s]
  <1>1. p \in Carrier
    BY DEF Carrier
  <1>2. [q EXCEPT !.state = s, !.tokens = 0] = [p EXCEPT !.tokens = 0]
    BY DEF Carrier
  <1> HIDE DEF p
  <1>3. [p EXCEPT !.tokens = 0] \in Carrier
    BY <1>1 DEF Carrier, Parameters
  <1>4. QED
    BY <1>2, <1>3

LEMMA RestKeeps ==
    ASSUME Parameters, RestTyped, CollectNext
    PROVE  RestTyped'
  <1>1. ASSUME NEW p \in Players, NEW t \in Teams, Join(p, t) PROVE RestTyped'
    BY <1>1 DEF Join, RestTyped, Carrier, States, Parameters
  <1>2. ASSUME NEW p \in Players, NEW penalty \in BOOLEAN, Die(p, penalty) PROVE RestTyped'
    <2>1. player' = [player EXCEPT ![p] = [player[p] EXCEPT !.state = "idle", !.tokens = 0]]
      BY <1>2 DEF Die, RestTyped
    <2>2. [player[p] EXCEPT !.state = "idle", !.tokens = 0] \in Carrier
      BY EmptyHanded DEF RestTyped, States
    <2>3. player' \in [Players -> Carrier]
      BY <2>1, <2>2 DEF RestTyped
    <2>4. QED
      BY <1>2, <2>3 DEF Die, RestTyped
  <1>2a. ASSUME NEW p \in Players, DieTwice(p) PROVE RestTyped'
    <2> DEFINE r == [player[p] EXCEPT !.state = "idle", !.tokens = 0]
    <2>1. player[p] \in Carrier /\ r \in Carrier
      BY EmptyHanded DEF RestTyped, States
    <2>2. player' = [player EXCEPT ![p] = [r EXCEPT !.team = 3 - @]]
      BY <1>2a, <2>1 DEF DieTwice, RestTyped, Carrier
    <2> HIDE DEF r
    <2>3. [r EXCEPT !.team = 3 - @] \in Carrier
      BY <2>1 DEF Carrier, Teams
    <2>4. player' \in [Players -> Carrier]
      BY <2>2, <2>3 DEF RestTyped
    <2>5. QED
      BY <1>2a, <2>4 DEF DieTwice, RestTyped
  <1>3. ASSUME NEW p \in Players, Spawn(p) \/ Watch(p) PROVE RestTyped'
    <2>1. PICK s \in {"idle", "alive"} :
              player' = [player EXCEPT ![p] = [player[p] EXCEPT !.state = s, !.tokens = 0]]
      BY <1>3 DEF Spawn, Watch, RestTyped
    <2>2. [player[p] EXCEPT !.state = s, !.tokens = 0] \in Carrier
      BY EmptyHanded DEF RestTyped, States
    <2>3. player' \in [Players -> Carrier]
      BY <2>1, <2>2 DEF RestTyped
    <2>4. QED
      BY <1>3, <2>3 DEF Spawn, Watch, RestTyped
  <1>4. ASSUME NEW p \in Players, Leave(p) PROVE RestTyped'
    BY <1>4 DEF Leave, RestTyped, Carrier, States, Parameters, Teams
  <1>5. ASSUME NEW p \in Players, ChangeTeam(p) PROVE RestTyped'
    BY <1>5 DEF ChangeTeam, RestTyped, Carrier, Teams
  <1>6. ASSUME NEW p \in Players, NEW d \in Droppers, NEW k \in Kinds, TakeToken(p, d, k)
        PROVE RestTyped'
    BY <1>6 DEF TakeToken, RestTyped, Carrier, Parameters
  <1>7. ASSUME NEW p \in Players, NEW b \in Bases, Deposit(p, b) PROVE RestTyped'
    BY <1>7 DEF Deposit, RestTyped, Carrier, Parameters, Least
  <1>8. ASSUME NEW p \in Players, NEW b \in Bases, Steal(p, b) PROVE RestTyped'
    BY <1>8 DEF Steal, RestTyped, Parameters
  <1>9. ASSUME NEW d \in Droppers, NEW k \in Kinds, Expire(d, k) PROVE RestTyped'
    BY <1>9 DEF Expire, RestTyped
  <1>10. ASSUME NEW b \in Bases, StealTime(b) PROVE RestTyped'
    BY <1>10 DEF StealTime, RestTyped
  <1>11. CASE EndOfTime \/ Reopen \/ ParseBases
    BY <1>11 DEF EndOfTime, Reopen, ParseBases, RestTyped
  <1>12. CASE ChangeMap
    <2>1. ASSUME NEW p \in Players PROVE player'[p] \in Carrier
      <3> DEFINE s == IF player[p].state = "alive" THEN "idle" ELSE player[p].state
      <3>1. player[p] \in Carrier /\ s \in States
        BY DEF RestTyped, Carrier, States
      <3>2. player'[p] = [player[p] EXCEPT !.state = s, !.tokens = 0]
        BY <1>12 DEF ChangeMap
      <3> HIDE DEF s
      <3>3. QED
        BY <3>1, <3>2, EmptyHanded
    <2>2. player' = [p \in Players |-> player'[p]]
      BY <1>12 DEF ChangeMap
    <2>3. player' \in [Players -> Carrier]
      BY <2>1, <2>2
    <2>4. scores' \in [Teams -> 0 .. MaxScore]
      <3>1. 0 \in 0 .. MaxScore
        BY DEF Parameters
      <3>2. QED
        BY <1>12, <3>1 DEF ChangeMap
    <2>5. stealable' \subseteq Bases /\ notgotbases' \in BOOLEAN /\ over' \in BOOLEAN
      BY <1>12 DEF ChangeMap
    <2>6. QED
      BY <2>3, <2>4, <2>5 DEF RestTyped
  <1>13. QED
    BY <1>1, <1>2, <1>3, <1>4, <1>5, <1>6, <1>7, <1>8, <1>9, <1>10, <1>11, <1>12, <1>2a DEF CollectNext

LEMMA BoundedNext ==
    DroppersDiffer /\ Parameters /\ BoundedInv /\ [CollectNext]_kvars => BoundedInv'
  <1> SUFFICES ASSUME DroppersDiffer, Parameters, BoundedInv, [CollectNext]_kvars
               PROVE  BoundedInv'
    OBVIOUS
  <1>1. CASE UNCHANGED kvars
    BY <1>1 DEF kvars, BoundedInv, CollectTypeOK, TokensBounded
  <1>2. CASE CollectNext
    <2>1. heap' \in [Droppers -> Tally] /\ TokensBounded'
      <3>1. CASE UNCHANGED heap
        BY <3>1 DEF BoundedInv, TokensBounded
      <3>2. CASE ChangeMap
        <4>1. heap' = [d \in Droppers |-> None]
          BY <3>2 DEF ChangeMap
        <4>2. heap' \in [Droppers -> Tally]
          BY <4>1, OneCounts
        <4>3. TokensBounded'
          BY <4>1, OneCounts DEF TokensBounded, Droppers, Parameters
        <4>4. QED
          BY <4>2, <4>3
      <3>3. ASSUME NEW p \in Players, NEW penalty \in BOOLEAN, Die(p, penalty) \/ DieTwice(p)
            PROVE  heap' \in [Droppers -> Tally] /\ TokensBounded'
        BY <3>3, DropKeeps
      <3>4. ASSUME NEW p \in Players, Leave(p)
            PROVE  heap' \in [Droppers -> Tally] /\ TokensBounded'
        BY <3>4, DisownKeeps DEF Leave
      <3>5. \/ UNCHANGED heap
            \/ ChangeMap
            \/ \E p \in Players : \/ \E penalty \in BOOLEAN : Die(p, penalty) \/ DieTwice(p)
                                  \/ Leave(p)
                                  \/ \E b \in Bases : Steal(p, b)
            \/ \E d \in Droppers, k \in Kinds : Expire(d, k)
        <4>1. ASSUME NEW p \in Players, \E t \in Teams : Join(p, t) PROVE UNCHANGED heap
          BY <4>1 DEF Join
        <4>2. ASSUME NEW p \in Players, Spawn(p) \/ Watch(p) \/ ChangeTeam(p) PROVE UNCHANGED heap
          BY <4>2 DEF Spawn, Watch, ChangeTeam
        <4>3. ASSUME NEW p \in Players, \E d \in Droppers, k \in Kinds : TakeToken(p, d, k)
              PROVE  UNCHANGED heap
          BY <4>3 DEF TakeToken
        <4>4. ASSUME NEW p \in Players, NEW b \in Bases, Deposit(p, b) PROVE UNCHANGED heap
          BY <4>4 DEF Deposit
        <4>5. ASSUME (\E b \in Bases : StealTime(b)) \/ EndOfTime \/ Reopen \/ ParseBases
              PROVE  UNCHANGED heap
          BY <4>5 DEF StealTime, EndOfTime, Reopen, ParseBases
        <4>6. QED
          BY <1>2, <4>1, <4>2, <4>3, <4>4, <4>5 DEF CollectNext
      <3>6. QED
        BY <3>1, <3>2, <3>3, <3>4, <3>5, StealBounded, ExpireBounded
    <2>2. RestTyped'
      <3>1. RestTyped
        BY DEF BoundedInv, CollectTypeOK, RestTyped, Carrier, States
      <3>2. QED
        BY <1>2, <3>1, RestKeeps
    <2>3. CollectTypeOK'
      BY <2>1, <2>2 DEF CollectTypeOK, RestTyped, Carrier, States, Tally
    <2>4. QED
      BY <2>1, <2>3 DEF BoundedInv
  <1>3. QED
    BY <1>1, <1>2

LEMMA BoundedInit == Parameters /\ CollectInit => BoundedInv
  <1> SUFFICES ASSUME Parameters, CollectInit PROVE BoundedInv
    OBVIOUS
  <1>1. heap = [d \in Droppers |-> None]
    BY DEF CollectInit
  <1>2. heap \in [Droppers -> Tally]
    BY <1>1, OneCounts
  <1>3. TokensBounded
    BY <1>1, OneCounts DEF TokensBounded, Droppers, Parameters
  <1>4. CollectTypeOK
    <2>1. [state |-> "gone", team |-> 1, tokens |-> 0] \in Carrier
      BY DEF Carrier, States, Teams, Parameters
    <2>2. player \in [Players -> Carrier]
      BY <2>1 DEF CollectInit
    <2>3. scores \in [Teams -> 0 .. MaxScore]
      <3>1. 0 \in 0 .. MaxScore
        BY DEF Parameters
      <3>2. QED
        BY <3>1 DEF CollectInit
    <2>4. QED
      BY <1>2, <2>2, <2>3 DEF CollectInit, CollectTypeOK, Carrier, States, Tally
  <1>5. QED
    BY <1>2, <1>3, <1>4 DEF BoundedInv

\* However players die, change teams, steal and leave, no dropper is remembered
\* by more tokens than its limit: droptokens makes room relative to the team of
\* the moment before it drops, and leavegame trims what becomes nobody's.
THEOREM TokensAreBounded ==
    ASSUME DroppersDiffer, Parameters
    PROVE  CollectSpec => []TokensBounded
  <1>1. CollectInit => BoundedInv
    BY BoundedInit
  <1>2. BoundedInv /\ [CollectNext]_kvars => BoundedInv'
    BY BoundedNext
  <1>3. BoundedInv => TokensBounded
    BY DEF BoundedInv
  <1>4. QED
    BY <1>1, <1>2, <1>3, PTL DEF CollectSpec

\* Nobody ever carries more than TOKENLIMIT (taketoken), no score leaves its
\* range and no dropper has less than no token of a kind.
THEOREM CollectTyped ==
    ASSUME DroppersDiffer, Parameters
    PROVE  CollectSpec => []CollectTypeOK
  <1>1. CollectInit => BoundedInv
    BY BoundedInit
  <1>2. BoundedInv /\ [CollectNext]_kvars => BoundedInv'
    BY BoundedNext
  <1>3. BoundedInv => CollectTypeOK
    BY DEF BoundedInv
  <1>4. QED
    BY <1>1, <1>2, <1>3, PTL DEF CollectSpec

-----------------------------------------------------------------------------
(* The play: privileges, bots, protect and collect side by side            *)

LEMMA PlaySteps ==
    [PlayNext]_playvars => /\ [MastermodeNext]_pvars /\ [AiNext]_aivars
                           /\ [CtfNext]_ctfvars /\ [CollectNext]_kvars
  <1> SUFFICES ASSUME [PlayNext]_playvars
               PROVE  /\ [MastermodeNext]_pvars /\ [AiNext]_aivars
                      /\ [CtfNext]_ctfvars /\ [CollectNext]_kvars
    OBVIOUS
  <1>1. CASE UNCHANGED playvars
    BY <1>1 DEF playvars
  <1>2. CASE PlayNext
    BY <1>2, Zenon DEF PlayNext
  <1>3. QED
    BY <1>1, <1>2

\* PlayIsEachPart: what the run play explores implements the whole of the four
\* components: what is proved of each of them holds there.
THEOREM PlayIsEachPart ==
    PlaySpec => MastermodeSpec /\ AiSpec /\ CtfSpec /\ CollectSpec
  <1>1. PlayInit => MastermodeInit /\ AiInit /\ CtfInit /\ CollectInit
    BY DEF PlayInit
  <1>2. QED
    BY <1>1, PlaySteps, PTL DEF PlaySpec, MastermodeSpec, AiSpec, CtfSpec, CollectSpec

\* PlayIsTyped: side by side, too, privileges, bots, flags and tokens have the
\* values that the handlers store. What is assumed is about collect alone.
THEOREM PlayIsTyped ==
    ASSUME DroppersDiffer, Parameters
    PROVE  PlaySpec => []PlayTypeOK
  <1>1. MastermodeTypeOK /\ AiTypeOK /\ CtfTypeOK /\ CollectTypeOK => PlayTypeOK
    BY DEF PlayTypeOK
  <1>2. QED
    BY <1>1, PlayIsEachPart, PrivilegesTyped, AiTyped, CtfTyped, CollectTyped, PTL
\* PlayIsSafe: all that the run play checks, for any clients, bots, flags and
\* bases: no mode or pause outlives who set it, bots are run by the owners they
\* name and teams are evened, nobody carries two flags and tokens are bounded
\* and forget who left. Each assumption is one that one of the parts needs.
THEOREM PlayIsSafe ==
    ASSUME ~Spies, ~RestrictPause, ~Reuse, ~Unsetting, ~Rugby,
           DroppersDiffer, Parameters
    PROVE  PlaySpec => /\ [](MasterlessIsReset /\ PauseIsRevocable)
                       /\ []OwnersRun /\ TeamsEvened
                       /\ []OneFlagEach
                       /\ [](TokensBounded /\ DroppersPresent)
  BY PlayIsEachPart, ModesAreReset, PausesAreRevocable, OwnersRunTheirBots, TeamsAreEvened,
     NobodyCarriesTwo, TokensAreBounded, DroppersArePresent, PTL
=============================================================================
