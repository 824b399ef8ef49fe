----------------------------- MODULE WorldState -----------------------------
(***************************************************************************)
(* The positions and messages that clients send are collected and passed   *)
(* on to the others (src/src/fpsgame/server.cpp, buildworldstate).  What   *)
(* was collected is written twice, one copy after the other, so that the   *)
(* packet of each client is a window of it that leaves out what the client *)
(* sent itself.  The packets share the buffer; a count of uses says when   *)
(* ENet has freed the last of them.                                        *)
(*                                                                         *)
(* The unit of data is one position, or one message with its header.       *)
(***************************************************************************)
EXTENDS Integers, Sequences, FiniteSets, SequencesExt

CONSTANTS
    Humans,     \* clients that are no bots
    Bots,
    Nobody,     \* ownernum of a bot that nobody computes
    Mtu,        \* getservermtu() - 100
    MaxMsgs,    \* bound: messages of a client between two world states
    Buffers     \* buffers of world states: a bound on how many are in use

VARIABLES
    clients,        \* vector "clients" without the bots
    owner,          \* of each bot: whose list "bots" it is in
    position,       \* who has a position to pass on
    messages,       \* of each client: how many messages it has to pass on
    worldstates,    \* vector "worldstates": the uses of each buffer, 0 when it
                    \* is not in the vector
    packets         \* how many packets on each buffer ENet holds for a peer

wvars == <<clients, owner, position, messages, worldstates, packets>>

Senders == Humans \cup Bots
Present == ToSet(clients)

WorldStateTypeOK ==
    /\ clients \in Seq(Humans) /\ IsInjective(clients)
    /\ owner \in [Bots -> Humans \cup {Nobody}]
    /\ position \subseteq Senders
    /\ messages \in [Senders -> 0 .. MaxMsgs]
    /\ worldstates \in [Buffers -> Nat]
    /\ packets \in [Buffers -> [Humans -> Nat]]

WorldStateInit ==
    /\ clients = <<>>
    /\ owner = [b \in Bots |-> Nobody]
    /\ position = {}
    /\ messages = [s \in Senders |-> 0]
    /\ worldstates = [n \in Buffers |-> 0]
    /\ packets = [n \in Buffers |-> [h \in Humans |-> 0]]

-----------------------------------------------------------------------------
(* One buffer                                                              *)

\* Who fills the buffer, in the order of addposition and addmessages: each
\* client, then its bots.
Fillers ==
    LET filled[k \in 0 .. Len(clients)] ==
            IF k = 0 THEN <<>>
            ELSE (filled[k - 1] \o <<clients[k]>>)
                 \o SetToSeq({b \in Bots : owner[b] = clients[k]})
    IN  filled[Len(clients)]

\* For whom something counts as its own.
Owner(s) == IF s \in Bots THEN owner[s] ELSE s

\* What a sender adds to the buffer, as one piece.
Piece(chan, s) ==
    IF chan = 0 THEN IF s \in position THEN <<<<0, s, 1>>>> ELSE <<>>
    ELSE [n \in 1 .. messages[s] |-> <<1, s, n>>]

\* addposition, addmessages: a piece that does not fit any more goes into the
\* next part of the buffer.
Added(parts, piece) ==
    IF piece = <<>> THEN parts
    ELSE IF parts = <<>> \/ Len(parts[Len(parts)]) + Len(piece) > Mtu
    THEN Append(parts, piece)
    ELSE [parts EXCEPT ![Len(parts)] = @ \o piece]

\* The parts of the buffer, each of which sendpositions or sendmessages sends.
Parts(chan) ==
    LET order == Fillers
        parts[k \in 0 .. Len(order)] ==
            IF k = 0 THEN <<>> ELSE Added(parts[k - 1], Piece(chan, order[k]))
    IN  parts[Len(order)]

\* wsbuf.put(wsbuf.buf, wslen)
Doubled(part) == part \o part

\* wsdata and wslen: the first of the client's own units, and how many.
Own(part, h) == {i \in DOMAIN part : Owner(part[i][2]) = h}

\* Mutant of WsData: every piece that is added moves it.
WsData_Moves(part, h) == CHOOSE i \in Own(part, h) : \A j \in Own(part, h) : i >= j

WsData(part, h) == CHOOSE i \in Own(part, h) : \A j \in Own(part, h) : i <= j

\* The window that the client's packet shows.
Window(part, h) ==
    LET mine  == Cardinality(Own(part, h))
        first == IF mine = 0 THEN 1 ELSE WsData(part, h) + mine
    IN  SubSeq(Doubled(part), first, first + Len(part) - mine - 1)

-----------------------------------------------------------------------------
(* The handlers                                                            *)

\* N_POS: only the last position counts.
Move(s) ==
    /\ Owner(s) \in Present
    /\ position' = position \cup {s}
    /\ UNCHANGED <<clients, owner, messages, worldstates, packets>>

\* QUEUE_MSG
Say(s) ==
    /\ Owner(s) \in Present
    /\ messages[s] < MaxMsgs
    /\ messages' = [messages EXCEPT ![s] = @ + 1]
    /\ UNCHANGED <<clients, owner, position, worldstates, packets>>

Arrive(h) ==
    /\ h \notin Present
    /\ clients' = Append(clients, h)
    /\ UNCHANGED <<owner, position, messages, worldstates, packets>>

\* aiman: a bot gets another owner, or none.
Shift(b, h) ==
    /\ h \in Present \cup {Nobody} /\ h # owner[b]
    /\ owner' = [owner EXCEPT ![b] = h]
    /\ UNCHANGED <<clients, position, messages, worldstates, packets>>

\* How many packets there are, f[h] of them for h.
Uses(f) == Cardinality(UNION {{h} \X (1 .. f[h]) : h \in Humans})

\* Mutant of Release: the buffer goes with the first packet that is freed.
Release_AtOnce(freed) ==
    [n \in Buffers |-> IF freed[n] > 0 THEN 0 ELSE worldstates[n]]

\* cleanworldstate for each packet that ENet frees: the buffer is found by the
\* address of the data, and deleted with its last use.
Release(freed) ==
    [n \in Buffers |-> IF worldstates[n] > freed[n] THEN worldstates[n] - freed[n] ELSE 0]

\* The peer acknowledges a packet, or ENet gives it up.
Free(n, h) ==
    /\ packets[n][h] > 0
    /\ packets' = [packets EXCEPT ![n][h] = @ - 1]
    /\ worldstates' = Release([m \in Buffers |-> IF m = n THEN 1 ELSE 0])
    /\ UNCHANGED <<clients, owner, position, messages>>

\* clientdisconnect, which gives its bots away; ENet drops what it had for the
\* peer when the peer is reset.
Depart(h) ==
    /\ \E i \in DOMAIN clients : clients[i] = h /\ clients' = RemoveAt(clients, i)
    /\ \E heir \in (Present \ {h}) \cup {Nobody} :
          owner' = [b \in Bots |-> IF owner[b] = h THEN heir ELSE owner[b]]
    /\ position' = position \ {h}
    /\ messages' = [messages EXCEPT ![h] = 0]
    /\ packets' = [n \in Buffers |-> [packets[n] EXCEPT ![h] = 0]]
    /\ worldstates' = Release([n \in Buffers |-> packets[n][h]])

\* buildworldstate with sendpositions and sendmessages: a client gets a packet
\* for each part that shows it something.  ENet may refuse the packets of a
\* client (its peer is about to go): those are destroyed at once, unused.
BuildWorldState(refused) ==
    LET parts   == Parts(0) \o Parts(1)
        sent(h) == IF h \in Present \ refused
                   THEN Cardinality({n \in DOMAIN parts : Window(parts[n], h) # <<>>})
                   ELSE 0
    IN  /\ parts # <<>>
        /\ \E n \in Buffers :
              /\ worldstates[n] = 0 /\ \A m \in Buffers : m < n => worldstates[m] > 0
              /\ packets' = [packets EXCEPT ![n] = [h \in Humans |-> sent(h)]]
              /\ worldstates' = [worldstates EXCEPT ![n] = Uses([h \in Humans |-> sent(h)])]
        /\ position' = position \ ToSet(Fillers)
        /\ messages' = [s \in Senders |-> IF s \in ToSet(Fillers) THEN 0 ELSE messages[s]]
        /\ UNCHANGED <<clients, owner>>

WorldStateNext ==
    \/ \E s \in Senders : Move(s) \/ Say(s)
    \/ \E h \in Humans : Arrive(h) \/ Depart(h)
    \/ \E b \in Bots, h \in Humans \cup {Nobody} : Shift(b, h)
    \/ \E n \in Buffers, h \in Humans : Free(n, h)
    \/ \E refused \in SUBSET Present : BuildWorldState(refused)

WorldStateSpec == WorldStateInit /\ [][WorldStateNext]_wvars

-----------------------------------------------------------------------------
(* Properties                                                              *)

\* What a world state built now shows a client, packet after packet.
Shown(h) ==
    LET parts == Parts(0) \o Parts(1)
    IN  [n \in DOMAIN parts |-> Window(parts[n], h)]

\* Of one sender: positions before messages, messages in the order of their numbers.
Before(u, v) == u[1] < v[1] \/ (u[1] = v[1] /\ u[3] < v[3])

\* Each client is passed on everything that the others sent, once and in the
\* order of each sender, and nothing of its own or of its bots, whoever joined
\* or left in between and however the data was split at the size of a packet
\* (the windows of sendpositions and sendmessages).
EverybodyElse ==
    \A h \in Present :
        LET shown  == Shown(h)
            others == {s \in ToSet(Fillers) : Owner(s) # h}
        IN  /\ UNION {ToSet(shown[n]) : n \in DOMAIN shown}
                  = UNION {ToSet(Piece(0, s)) \cup ToSet(Piece(1, s)) : s \in others}
            /\ \A n, m \in DOMAIN shown : \A i \in DOMAIN shown[n], j \in DOMAIN shown[m] :
                  (n < m \/ (n = m /\ i < j)) /\ shown[n][i][2] = shown[m][j][2]
                      => Before(shown[n][i], shown[m][j])

\* A buffer lives as long as a packet shows it and no longer, however clients
\* leave and packets are freed in between (cleanworldstate).
BuffersShared ==
    \A n \in Buffers : worldstates[n] = Uses(packets[n])
=============================================================================
