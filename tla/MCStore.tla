------------------------------ MODULE MCStore -------------------------------
(***************************************************************************)
(* Store with one match file in which every player scores.                 *)
(***************************************************************************)
EXTENDS Store, TLC

ScoringMatch == {[p \in PlayerIDs |-> 1]}

Symmetry == Permutations(Users) \cup Permutations(TeamNames)
              \cup Permutations(PlayerIDs)
=============================================================================
