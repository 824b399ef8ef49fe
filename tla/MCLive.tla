------------------------------- MODULE MCLive -------------------------------
(* What must come about with the bots and in the admission of clients, each *)
(* checked for itself, with all ways to come and to go.                     *)
EXTENDS MCAiManager, Admission

VARIABLE part

livevars == <<part, aivars, vars>>

LiveInit == part \in {"admission", "bots"} /\ Init /\ AiInit

\* botbalance is looked at in modes with teams only; a master may do here what
\* an admin may, for botlimit is MAXBOTS.
LiveNext ==
    \/ part = "admission" /\ Next /\ UNCHANGED <<part, aivars>>
    \/ /\ part = "bots" /\ AiNext /\ botbalance'
       /\ \A h \in Humans : human'[h].priv = "admin" => human'[h].spy
       /\ UNCHANGED <<part, vars>>

\* Fairness of Admission and of AiManager, each where its part is studied.
LiveFairness ==
    /\ \A c \in Slots :
          /\ WF_vars(part = "admission" /\ GrowLate(c))
          /\ WF_vars(part = "admission" /\ ConnectTimeout(c))
    /\ WF_vars(part = "admission" /\ ExecuteDisconnect)
    /\ WF_aivars(part = "bots" /\ CheckAi)

LiveSpec == LiveInit /\ [][LiveNext]_livevars /\ LiveFairness
=============================================================================
