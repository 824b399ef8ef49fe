---------------------------- MODULE MCAiManager ----------------------------
(* The bots on small instances.                                            *)
EXTENDS AiManager, TLC

HumanSymmetry == Permutations(Humans)

OneTeam == {"good"}
FfaOnly == {"ffa"}
=============================================================================
