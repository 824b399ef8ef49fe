------------------------------ MODULE MCSlots -------------------------------
(* The slots of the clients, the world states, and shots and spawns, each   *)
(* checked for itself, with all ways to come and to go.  The same values    *)
(* are the sessions of the first and the clients of the second, so that one *)
(* symmetry serves both.                                                    *)
EXTENDS MCAdmission, WorldState, Combat

VARIABLE part

OneBuffer == {1}

SlotsInit == /\ part \in {"slots", "worldstate", "combat"}
             /\ Init /\ WorldStateInit /\ CombatInit

\* Three clients at a time, the first, the last and one in the middle.
SlotsNext ==
    \/ part = "slots" /\ Next /\ UNCHANGED <<part, wvars, fvars>>
    \/ /\ part = "worldstate" /\ WorldStateNext /\ Len(clients') <= 3
       /\ UNCHANGED <<part, vars, fvars>>
    \/ part = "combat" /\ CombatNext /\ UNCHANGED <<part, vars, wvars>>

SlotsSpec == SlotsInit /\ [][SlotsNext]_<<part, vars, wvars, fvars>>

ServerTypeOK == WorldStateTypeOK /\ CombatTypeOK
=============================================================================
