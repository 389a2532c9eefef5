------------------------------ MODULE MCRounds ------------------------------
(* Small instances of Rounds for TLC.                                      *)
EXTENDS Rounds, TLC

Symmetry == Permutations(Slots) \cup Permutations(Owners)
=============================================================================
