-------------------------------- MODULE Coupon --------------------------------
(* The coupon of one round as the rest of the league sees it, in single     *)
(* steps: who is in the league, who has picked, and whether the round still *)
(* takes picks.  How a pick is fought for is LandGrab's, and who tells the  *)
(* league that the coupon is full RoundCompletion's; both move this coupon, *)
(* and in no other way but for the one race LandGrab names: the commit of a *)
(* cleared submission whose member is outside the league.                   *)
CONSTANT Members

VARIABLES
    roster,    \* active members
    picked,    \* members holding a pick in the round
    claimable  \* the round's deadline is ahead

(* A submission that was cleared in time lands even if the deadline passes  *)
(* meanwhile.                                                               *)
Pick(m) ==
    /\ m \in roster
    /\ picked' = picked \cup {m}
    /\ UNCHANGED <<roster, claimable>>

(* A departure takes the pick along for as long as it may be given up.      *)
Depart(m) ==
    /\ m \in roster
    /\ roster' = roster \ {m}
    /\ picked' = IF claimable THEN picked \ {m} ELSE picked
    /\ UNCHANGED claimable

Join(m) ==
    /\ m \notin roster
    /\ roster' = roster \cup {m}
    /\ UNCHANGED <<picked, claimable>>

(* A fixture is called off and the picks on it go back.                     *)
Return(S) ==
    /\ claimable
    /\ picked' = picked \ S
    /\ UNCHANGED <<roster, claimable>>

Lock ==
    /\ claimable
    /\ claimable' = FALSE
    /\ UNCHANGED <<roster, picked>>

CouponInit == roster \subseteq Members /\ picked = {} /\ claimable = TRUE

CouponNext ==
    \/ Lock
    \/ \E m \in Members : Pick(m) \/ Depart(m) \/ Join(m)
    \/ \E S \in SUBSET Members : Return(S)

CouponSpec == CouponInit /\ [][CouponNext]_<<roster, picked, claimable>>
=============================================================================
