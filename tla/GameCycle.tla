----------------------------- MODULE GameCycle -----------------------------
(***************************************************************************)
(* What the match promises: games and intermissions alternate.  A game is  *)
(* played until its time is up, is followed by one intermission of at      *)
(* least IntermTime, and then by the next game or by nothing ("over": the  *)
(* rotation gave no map).  Only a new game, whose clock starts at 0, takes *)
(* the server out of an intermission early or out of "over".               *)
(***************************************************************************)
EXTENDS Naturals

CONSTANT IntermTime     \* how long an intermission lasts at least

VARIABLES
    phase,  \* "play", "intermission" or "over"
    clock   \* time since the game began; in an intermission, since that began

cvars == <<phase, clock>>

CycleInit == phase = "play" /\ clock = 0

NewGame == phase' = "play" /\ clock' = 0

PlayOn == phase = "play" /\ phase' = "play" /\ clock' = clock + 1

TimeUp == phase = "play" /\ phase' = "intermission" /\ clock' = 0

Linger == phase = "intermission" /\ phase' = phase /\ clock' = clock + 1

Close == /\ phase = "intermission"
         /\ clock >= IntermTime
         /\ phase' = "over"
         /\ clock' = 0

CycleNext == NewGame \/ PlayOn \/ TimeUp \/ Linger \/ Close

CycleSpec == CycleInit /\ [][CycleNext]_cvars
=============================================================================
