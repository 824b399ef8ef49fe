------------------------------ MODULE Collect ------------------------------
(***************************************************************************)
(* The collect mode (collectservmode in src/src/fpsgame/collect.h): who is *)
(* fragged drops skulls ("tokens"), others take them and deposit them in   *)
(* the enemy's base.  A token knows who dropped it by a client number, a   *)
(* base that it was stolen from, or nobody any more.                       *)
(*                                                                         *)
(* Tokens of one dropper and one team differ in nothing but their ids and  *)
(* places, so that tokens are counted.  A token expires when it is old.    *)
(***************************************************************************)
EXTENDS Integers

CONSTANTS
    Players,        \* client numbers, of clients and bots
    Bases,
    BaseTeam,       \* of each base: 1 or 2
    Unowned,        \* dropper = INT_MIN
    TOKENLIMIT,
    UNOWNEDTOKENLIMIT,
    SCORELIMIT,
    MaxScore        \* bound: deposits go on when the game is over

Teams == {1, 2}
Kinds == {1, 2, -1, -2}     \* token::team: a skull of a team, or one it carried
Droppers == Players \cup Bases \cup {Unowned}

VARIABLES
    player,         \* state: "gone", "idle" (dead or watching), "alive"; team; tokens
    heap,           \* tokens: how many there are of each dropper and kind
    scores,
    stealable,      \* bases with gamemillis >= laststeal + STEALTOKENTIME
    notgotbases,
    over            \* gamemillis >= gamelimit

kvars == <<player, heap, scores, stealable, notgotbases, over>>

None == [k \in Kinds |-> 0]
One(kind) == [None EXCEPT ![kind] = 1]
Plus(f, g) == [k \in Kinds |-> f[k] + g[k]]
Count(f) == f[1] + f[2] + f[-1] + f[-2]

Least(m, n) == IF m < n THEN m ELSE n
Most(m, n)  == IF m > n THEN m ELSE n

CollectTypeOK ==
    /\ player \in [Players -> [state : {"gone", "idle", "alive"}, team : Teams,
                               tokens : 0 .. TOKENLIMIT]]
    /\ \A d \in Droppers : heap[d] \in [Kinds -> Nat]
    /\ scores \in [Teams -> 0 .. MaxScore]
    /\ stealable \subseteq Bases
    /\ notgotbases \in BOOLEAN /\ over \in BOOLEAN

CollectInit ==
    /\ player = [p \in Players |-> [state |-> "gone", team |-> 1, tokens |-> 0]]
    /\ heap = [d \in Droppers |-> None]
    /\ scores = [t \in Teams |-> 0]
    /\ stealable = Bases
    /\ notgotbases \in BOOLEAN
    /\ over = FALSE

-----------------------------------------------------------------------------
(* Dropping                                                                *)

\* What may be left of some tokens when at most friends of the kind of a team
\* are kept, and at most others of the other kinds.  The order of the vector
\* tokens, which removals stir, decides which.
Trimmed(f, team, friends, others) ==
    {g \in [Kinds -> 0 .. Count(f)] :
        /\ \A k \in Kinds : g[k] <= f[k]
        /\ g[team] = Least(f[team], friends)
        /\ Count(g) - g[team] = Least(Count(f) - f[team], others)}

\* Mutant of DropTokens: old tokens of the dropper stay.
DropTokens_KeepsOld(p, penalty) ==
    IF notgotbases THEN UNCHANGED heap
    ELSE LET carried == IF penalty THEN 0 ELSE player[p].tokens
             team    == player[p].team
             dropped == [None EXCEPT ![team] = 1, ![-team] = carried]
         IN  heap' = [heap EXCEPT ![p] = Plus(@, dropped)]

\* What may be left of the tokens f of a dropper after droptokens: room is made
\* for what is dropped, a skull of the dropper's team and what it carried.
Remains(f, team, carried) ==
    {Plus(kept, [None EXCEPT ![team] = 1, ![-team] = carried]) :
        kept \in Trimmed(f, team, TOKENLIMIT - 1, Most(TOKENLIMIT - carried, 0))}

\* droptokens: the penalty is that nothing carried is dropped.
DropTokens(p, penalty) ==
    IF notgotbases THEN UNCHANGED heap
    ELSE \E f \in Remains(heap[p], player[p].team, IF penalty THEN 0 ELSE player[p].tokens) :
            heap' = [heap EXCEPT ![p] = f]

-----------------------------------------------------------------------------
(* Players                                                                 *)

Join(p, team) ==
    /\ player[p].state = "gone"
    /\ player' = [player EXCEPT ![p] = [state |-> "idle", team |-> team, tokens |-> 0]]
    /\ UNCHANGED <<heap, scores, stealable, notgotbases, over>>

\* N_SPAWN, after respawn.
Spawn(p) ==
    /\ player[p].state = "idle"
    /\ player' = [player EXCEPT ![p].state = "alive", ![p].tokens = 0]
    /\ UNCHANGED <<heap, scores, stealable, notgotbases, over>>

\* died.  penalty: a suicide, or a frag by the own team.
Die(p, penalty) ==
    /\ player[p].state = "alive"
    /\ DropTokens(p, penalty)
    /\ player' = [player EXCEPT ![p].state = "idle", ![p].tokens = 0]
    /\ UNCHANGED <<scores, stealable, notgotbases, over>>

\* A listener of the frag changes the team of who is dying (dodamage): it commits
\* suicide before, and then its death drops a skull for the new team.
DieTwice(p) ==
    /\ player[p].state = "alive"
    /\ IF notgotbases THEN UNCHANGED heap
       ELSE \E first \in Remains(heap[p], player[p].team, 0) :
            \E second \in Remains(first, 3 - player[p].team, 0) :
               heap' = [heap EXCEPT ![p] = second]
    /\ player' = [player EXCEPT ![p].state = "idle", ![p].tokens = 0, ![p].team = 3 - @]
    /\ UNCHANGED <<scores, stealable, notgotbases, over>>

\* setspectator: leavegame of somebody who stays keeps the tokens it dropped.
Watch(p) ==
    /\ player[p].state = "alive"
    /\ player' = [player EXCEPT ![p].state = "idle", ![p].tokens = 0]
    /\ UNCHANGED <<heap, scores, stealable, notgotbases, over>>

\* Mutant of Disown: the next client with the number has dropped them.
Disown_Forgets(p) == UNCHANGED heap

\* leavegame of somebody who disconnects: its tokens are nobody's any more.
Disown(p) ==
    \E left \in Trimmed(Plus(heap[p], heap[Unowned]), player[p].team,
                        UNOWNEDTOKENLIMIT, UNOWNEDTOKENLIMIT) :
        heap' = [heap EXCEPT ![p] = None, ![Unowned] = left]

\* clientdisconnect and deleteai
Leave(p) ==
    /\ player[p].state # "gone"
    /\ Disown(p)
    /\ player' = [player EXCEPT ![p] = [state |-> "gone", team |-> 1, tokens |-> 0]]
    /\ UNCHANGED <<scores, stealable, notgotbases, over>>

\* A dead player changes the team, or balanceteams moves a bot, which keeps
\* what it carries.  Who is alive commits suicide first.
ChangeTeam(p) ==
    /\ player[p].state # "gone"
    /\ player' = [player EXCEPT ![p].team = 3 - @]
    /\ UNCHANGED <<heap, scores, stealable, notgotbases, over>>

\* taketoken: the token stays where it is; only clients take it away.
TakeToken(p, d, k) ==
    /\ player[p].state = "alive" /\ ~notgotbases
    /\ heap[d][k] > 0
    /\ LET team == player[p].team
       IN  /\ k # team
           /\ k > 0 \/ -k = team
    /\ player[p].tokens < TOKENLIMIT
    /\ player' = [player EXCEPT ![p].tokens = @ + 1]
    /\ UNCHANGED <<heap, scores, stealable, notgotbases, over>>

\* deposittokens, with something to deposit: also when the game is over.
Deposit(p, b) ==
    /\ player[p].state = "alive" /\ ~notgotbases
    /\ BaseTeam[b] # player[p].team
    /\ player[p].tokens > 0
    /\ LET score == Least(scores[player[p].team] + player[p].tokens, MaxScore)
       IN  /\ scores' = [scores EXCEPT ![player[p].team] = score]
           /\ over' = (over \/ score >= SCORELIMIT)
    /\ stealable' = stealable \ {b}
    /\ player' = [player EXCEPT ![p].tokens = 0]
    /\ UNCHANGED <<heap, notgotbases>>

\* deposittokens, with empty hands: a skull is stolen from the base.
Steal(p, b) ==
    /\ player[p].state = "alive" /\ ~notgotbases
    /\ BaseTeam[b] # player[p].team
    /\ player[p].tokens = 0
    /\ b \in stealable
    /\ scores[BaseTeam[b]] > 0
    /\ Count(heap[b]) < TOKENLIMIT
    /\ stealable' = stealable \ {b}
    /\ scores' = [scores EXCEPT ![BaseTeam[b]] = @ - 1]
    /\ heap' = [heap EXCEPT ![b] = Plus(@, One(player[p].team))]
    /\ UNCHANGED <<player, notgotbases, over>>

-----------------------------------------------------------------------------
(* Time                                                                    *)

\* update: a token is old.
Expire(d, k) ==
    /\ ~over /\ ~notgotbases
    /\ heap[d][k] > 0
    /\ heap' = [heap EXCEPT ![d][k] = @ - 1]
    /\ UNCHANGED <<player, scores, stealable, notgotbases, over>>

\* STEALTOKENTIME has passed.
StealTime(b) ==
    /\ b \notin stealable
    /\ stealable' = stealable \cup {b}
    /\ UNCHANGED <<player, heap, scores, notgotbases, over>>

EndOfTime == ~over /\ over' = TRUE /\ UNCHANGED <<player, heap, scores, stealable, notgotbases>>

\* changetime gives a game whose time was up more of it.
Reopen == over /\ over' = FALSE /\ UNCHANGED <<player, heap, scores, stealable, notgotbases>>

\* changemap: setup, with the bases if the server could load the map.
ChangeMap ==
    /\ player' = [p \in Players |->
                    [player[p] EXCEPT !.state = IF @ = "alive" THEN "idle" ELSE @,
                                      !.tokens = 0]]
    /\ heap' = [d \in Droppers |-> None]
    /\ scores' = [t \in Teams |-> 0]
    /\ stealable' = Bases
    /\ notgotbases' \in BOOLEAN
    /\ over' = FALSE

\* parsebases
ParseBases ==
    /\ notgotbases
    /\ notgotbases' = FALSE
    /\ UNCHANGED <<player, heap, scores, stealable, over>>

CollectNext ==
    \/ \E p \in Players : \/ \E t \in Teams : Join(p, t)
                          \/ \E penalty \in BOOLEAN : Die(p, penalty)
                          \/ Spawn(p) \/ DieTwice(p) \/ Watch(p) \/ Leave(p) \/ ChangeTeam(p)
                          \/ \E d \in Droppers, k \in Kinds : TakeToken(p, d, k)
                          \/ \E b \in Bases : Deposit(p, b) \/ Steal(p, b)
    \/ \E d \in Droppers, k \in Kinds : Expire(d, k)
    \/ \E b \in Bases : StealTime(b)
    \/ EndOfTime \/ Reopen \/ ChangeMap \/ ParseBases

CollectSpec == CollectInit /\ [][CollectNext]_kvars

-----------------------------------------------------------------------------
(* Properties                                                              *)

\* However players die, change teams and leave, the tokens of each dropper are
\* bounded, and with them the vector that each newcomer is told: the
\* limits of droptokens are relative to the team of the moment, those of
\* leavegame to the team of the last client that left.
TokensBounded ==
    /\ \A p \in Players : Count(heap[p]) <= 2 * TOKENLIMIT
    /\ \A b \in Bases : Count(heap[b]) <= TOKENLIMIT
    /\ Count(heap[Unowned]) <= 2 * UNOWNEDTOKENLIMIT

\* A client number that is free has dropped nothing: the limits of the next
\* client with that number are its own (leavegame with disconnecting).
DroppersPresent == \A p \in Players : player[p].state = "gone" => heap[p] = None
=============================================================================
