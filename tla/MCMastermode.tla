---------------------------- MODULE MCMastermode ----------------------------
(* Instances of Mastermode for TLC.                                        *)
EXTENDS Mastermode, TLC

ClientSymmetry == Permutations(Clients)
=============================================================================
