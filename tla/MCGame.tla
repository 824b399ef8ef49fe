------------------------------- MODULE MCGame -------------------------------
(* A match and the capture mode, each checked for itself.  What they share *)
(* in the code is the clock: over is the match's gamemillis >= gamelimit,  *)
(* and here it turns both ways at any time, whatever the match could do.   *)
EXTENDS Match, Capture, TLC

CONSTANTS
    Second,        \* the client that comes to vote, where votes are studied
    MaxGhosts      \* bound: ghosts, of one team in one base

VARIABLE part

gamevars == <<part, mvars, cvars>>

GameInit ==
    /\ part \in {"votes", "delay", "capture"}
    /\ MatchInit /\ (part = "capture" => named)
    /\ CaptureInit /\ (part # "capture" => ~notgotbases)

FewGhosts ==
    \E b \in Bases, team \in Teams, n \in 0 .. MaxGhosts :
        ghosts = [NoGhost EXCEPT ![b][team] = n]

\* Votes need two clients and no delay; the delay needs one client.
GameNext ==
    \/ /\ part = "votes" /\ MatchNext /\ spectator_delay' = 0
       /\ UNCHANGED <<part, cvars>>
    \/ /\ part = "delay" /\ MatchNext /\ standing'[Second] = "absent"
       /\ UNCHANGED <<part, cvars>>
    \/ part = "capture" /\ CaptureNext /\ FewGhosts' /\ UNCHANGED <<part, mvars>>

\* MatchFairness and CaptureFairness, each where its part is studied.
GameFairness ==
    /\ WF_mvars(part # "capture" /\ UpdateServer(1))
    /\ WF_cvars(part = "capture" /\ Update)
    /\ \A p \in Players :
          WF_cvars(part = "capture" /\ Move(p, life[p].at, life[p].gameclip))

GameSpec == GameInit /\ [][GameNext]_gamevars /\ GameFairness

GameTypeOK == MatchTypeOK /\ CaptureTypeOK
=============================================================================
