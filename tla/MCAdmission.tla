---------------------------- MODULE MCAdmission ----------------------------
(* Admission on small instances.                                           *)
EXTENDS Admission, TLC

SessionSymmetry == Permutations(SessionIds)

PlainAndAdmin == {"plain", "admin"}
SpyLogins     == {"plain", "spy", "serverpass"}
=============================================================================
