------------------------------ MODULE Outcomes ------------------------------
(* What a fixture's result decides: the two markets a member may pick from, *)
(* their selections, and a settlement of them as a provider or an operator  *)
(* states it.                                                               *)
EXTENDS Integers

Selections == {"HOME", "DRAW", "AWAY", "YES", "NO"}
MarketOf(o) == IF o \in {"YES", "NO"} THEN "BOTH_TEAMS_TO_SCORE" ELSE "MATCH_ODDS"
Markets == {MarketOf(o) : o \in Selections}

(* Which markets have settled, which selections won, and which vanished     *)
(* from a market that settled.                                              *)
Unsettled == [void |-> FALSE, markets |-> {}, won |-> {}, absent |-> {}]
Voided == [Unsettled EXCEPT !.void = TRUE]

Winners(score) ==
    {IF score[1] > score[2] THEN "HOME" ELSE IF score[1] < score[2] THEN "AWAY" ELSE "DRAW",
     IF score[1] > 0 /\ score[2] > 0 THEN "YES" ELSE "NO"}
FromScore(score) == [Unsettled EXCEPT !.markets = Markets, !.won = Winners(score)]
=============================================================================
