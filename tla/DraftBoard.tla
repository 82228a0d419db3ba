----------------------------- MODULE DraftBoard ----------------------------
(***************************************************************************)
(* What a draft promises: the teams take turns, Rounds times in the same   *)
(* order, each turn gives the team one player nobody has taken, and the    *)
(* draft ends when every team has had its turns.  A turn may be wasted,    *)
(* and a wasted turn may cost an earlier one its player: the price of an   *)
(* ID that nobody checks.                                                  *)
(***************************************************************************)
EXTENDS Integers, Sequences

CONSTANTS BoardTeams,    \* the number of teams
          BoardPlayers,
          BoardRounds,
          Nobody         \* what a wasted turn takes

VARIABLES board,  \* the players taken, in order
          over    \* the draft has ended

BoardInit == board = << >> /\ over = FALSE

TurnsLeft == Len(board) < BoardTeams * BoardRounds

Take(p) ==
  /\ TurnsLeft
  /\ \A i \in 1 .. Len(board) : board[i] # p
  /\ board' = Append(board, p)
  /\ UNCHANGED over

Waste ==
  /\ TurnsLeft
  /\ \/ board' = Append(board, Nobody)
     \/ \E i \in 1 .. Len(board) :
          board' = Append([board EXCEPT ![i] = Nobody], Nobody)
  /\ UNCHANGED over

EndDraft ==
  /\ ~ TurnsLeft
  /\ over' = TRUE
  /\ UNCHANGED board

BoardNext == EndDraft \/ Waste \/ \E p \in BoardPlayers : Take(p)

BoardSpec == BoardInit /\ [][BoardNext]_<<board, over>>

=============================================================================
