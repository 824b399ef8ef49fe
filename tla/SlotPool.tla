------------------------------- MODULE SlotPool -------------------------------
(***************************************************************************)
(* What the configuration promises about the places of the server: anybody *)
(* may come while fewer than MaxClients are inside; a client with the      *)
(* right password may come at any time as long as fewer than ReservedSlots *)
(* of its kind are inside; a client that was refused may still be let in   *)
(* by an authentication domain.  No counter is kept beside the sets.       *)
(***************************************************************************)
EXTENDS Naturals, FiniteSets

CONSTANTS Slots, MaxClients, ReservedSlots

VARIABLES
    inside,     \* who plays
    holders,    \* which of them hold a reserved place
    referred    \* who was refused and waits for an authentication domain

poolvars == <<inside, holders, referred>>

PoolInit == inside = {} /\ holders = {} /\ referred = {}

OrdinaryJoin(c) ==
    /\ c \notin inside \cup referred
    /\ Cardinality(inside) < MaxClients
    /\ inside' = inside \cup {c}
    /\ UNCHANGED <<holders, referred>>

ReservedJoin(c) ==
    /\ c \notin inside \cup referred
    /\ Cardinality(holders) < ReservedSlots
    /\ inside' = inside \cup {c}
    /\ holders' = holders \cup {c}
    /\ UNCHANGED referred

Refer(c) ==
    /\ c \notin inside
    /\ referred' = referred \cup {c}
    /\ UNCHANGED <<inside, holders>>

AuthorizedJoin(c) ==
    /\ c \in referred
    /\ inside' = inside \cup {c}
    /\ referred' = referred \ {c}
    /\ UNCHANGED holders

Depart(c) ==
    /\ c \in inside \cup referred
    /\ inside' = inside \ {c}
    /\ holders' = holders \ {c}
    /\ referred' = referred \ {c}

PoolNext == \E c \in Slots : \/ OrdinaryJoin(c) \/ ReservedJoin(c) \/ Refer(c)
                             \/ AuthorizedJoin(c) \/ Depart(c)

PoolSpec == PoolInit /\ [][PoolNext]_poolvars
=============================================================================
