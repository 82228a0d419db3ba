------------------------------ MODULE MCSeason ------------------------------
(***************************************************************************)
(* One match file with a different score for every player, so that a point *)
(* given to the wrong player or team shows in the sums.                    *)
(***************************************************************************)
EXTENDS Season, TLC

CONSTANTS p0, p1

OneMatch == {(p0 :> 1) @@ (p1 :> 2)}

Symmetry == Permutations(Users) \cup Permutations(TeamNames)
=============================================================================
