----------------------------- MODULE MCLandGrab -----------------------------
(* Two members on a two-game card, up to two submissions, one sweep and one *)
(* operator at a time; the league's windows lock the round at tick 1 or 2,  *)
(* and results come a tick after the latest deadline.                       *)
EXTENDS LandGrab, TLC

MCPeriods == {[opens |-> 0, locks |-> 1], [opens |-> 1, locks |-> 2]}

MCOnePeriod == {[opens |-> 0, locks |-> 1]}

BetsInUse == {requests[q].bet : q \in InFlight} \cup {picks[m].bet : m \in Holders}

SettlingHasBegun == now >= ResultsFrom \/ \E s \in Settlers : settling[s] # NoSettlement

(* Claims race over a slate and a deadline that move, with two bets on a    *)
(* game; settlements race over a round that stands, with one bet in use and *)
(* then one rule, the two meaning the same of a single bet.                 *)
OneRaceAtATime ==
    SettlingHasBegun' => /\ scope' = "fixture"
                         /\ period'.opens = 0
                         /\ card' = Fixtures
                         /\ Cardinality(BetsInUse') =< 1

Interchangeable ==
    Permutations(Members) \cup Permutations(Requests)
        \cup Permutations(Fixtures) \cup Permutations(Bets)
=============================================================================
