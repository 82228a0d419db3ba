------------------------------- MODULE Market -------------------------------
(***************************************************************************)
(* What the handlers of League promise about the players of a league,      *)
(* seen from the players: each has one holder, a team or nobody; a free    *)
(* player may be picked by a team; after that players only change hands in *)
(* exchanges of two, so that nobody's roster grows or shrinks any more.    *)
(***************************************************************************)
EXTENDS Integers

CONSTANTS
  MarketLeagues, MarketTeams, MarketPlayers,
  Free  \* the holder of a player no team has

VARIABLE holder   \* league -> player -> the team that has the player, or Free

MarketTypeOK ==
  holder \in [MarketLeagues -> [MarketPlayers -> MarketTeams \cup {Free}]]

MarketInit == holder = [l \in MarketLeagues |-> [p \in MarketPlayers |-> Free]]

\* A team gets a player nobody has.
PickFree(l, p, t) ==
  /\ holder[l][p] = Free
  /\ holder' = [holder EXCEPT ![l][p] = t]

\* Two players change hands; one of them may be nobody's.
Exchange(l, p, q) ==
  /\ holder[l][p] # holder[l][q]
  /\ holder' = [holder EXCEPT ![l][p] = holder[l][q], ![l][q] = holder[l][p]]

MarketNext ==
  \E l \in MarketLeagues, p \in MarketPlayers :
    \/ \E t \in MarketTeams : PickFree(l, p, t)
    \/ \E q \in MarketPlayers : Exchange(l, p, q)

MarketSpec == MarketInit /\ [][MarketNext]_holder
=============================================================================
