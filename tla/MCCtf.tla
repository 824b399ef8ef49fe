------------------------------- MODULE MCCtf -------------------------------
(* Instances of Ctf for TLC.                                               *)
EXTENDS Ctf, TLC

OneFlag == {1}
Good    == 1 :> "good"

TwoFlags    == 1 .. 2
GoodAndEvil == 1 :> "good" @@ 2 :> "evil"
=============================================================================
