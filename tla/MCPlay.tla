------------------------------- MODULE MCPlay -------------------------------
(* Privileges, bots in teams, the protect mode and the tokens of the        *)
(* collect mode, each checked for itself.  Who is there and whether the     *)
(* time is up each of them has for itself, and changes in all ways.         *)
EXTENDS Mastermode, Collect, AiManager, Ctf, TLC

VARIABLE part

playvars == <<part, pvars, aivars, ctfvars, kvars>>

\* The one base of collect is that of the first team; the two flags of protect
\* are those of one team.
RedBase  == "r" :> 1
TwoFlags == 1 .. 2
BothGood == 1 :> "good" @@ 2 :> "good"

PlayInit ==
    /\ part \in {"privileges", "bots", "protect", "collect"}
    /\ MastermodeInit /\ AiInit /\ CtfInit /\ CollectInit

\* botlimit is MAXBOTS here, so that a master may do what an admin may.
PlayNext ==
    \/ part = "privileges" /\ MastermodeNext
       /\ UNCHANGED <<part, aivars, ctfvars, kvars>>
    \/ part = "bots" /\ AiNext /\ (\A h \in Humans : human'[h].priv # "master")
       /\ UNCHANGED <<part, pvars, ctfvars, kvars>>
    \/ part = "protect" /\ CtfNext
       /\ UNCHANGED <<part, pvars, aivars, kvars>>
    \/ part = "collect" /\ CollectNext
       /\ UNCHANGED <<part, pvars, aivars, ctfvars>>

PlaySpec == PlayInit /\ [][PlayNext]_playvars

Symmetry == Permutations(Clients)

PlayTypeOK == MastermodeTypeOK /\ AiTypeOK /\ CtfTypeOK /\ CollectTypeOK
=============================================================================
