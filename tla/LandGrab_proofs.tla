--------------------------- MODULE LandGrab_proofs ---------------------------
(* Theorems about LandGrab for every league: any number of members,         *)
(* submissions, fixtures and bets, and any claim periods.                   *)
EXTENDS LandGrab, TLAPS

(* A round starts with every column of its type.                            *)
LEMMA TypeInit == Init => TypeOK
  BY ClockAssumption, PeriodAssumption DEF Init, TypeOK, Scopes, NoSettlement, Settlement

(* The row of a member who has one.                                         *)
LEMMA PickFields ==
    ASSUME TypeOK, NEW m \in Holders
    PROVE  /\ m \in Members /\ picks[m] \in PickRow
           /\ picks[m].fixture \in Fixtures /\ picks[m].bet \in Bets
           /\ picks[m].stamp \in Scopes /\ picks[m].state \in {"pending", "scored"}
  BY DEF TypeOK, Holders, PickRow

(* A slot in flight holds a submission.                                     *)
LEMMA RequestFields ==
    ASSUME TypeOK, NEW q \in InFlight
    PROVE  /\ q \in Requests /\ requests[q] \in Submission
           /\ requests[q].member \in Members /\ requests[q].period \in Periods
           /\ requests[q].fixture \in Fixtures /\ requests[q].bet \in Bets
           /\ requests[q].scope \in Scopes
  BY DEF TypeOK, InFlight, Submission

(* A settler's transaction is idle or one of its steps.                     *)
LEMMA SettlementFields ==
    ASSUME TypeOK, NEW s \in Settlers
    PROVE  /\ settling[s] \in Settlement
           /\ settling[s].rows \in SUBSET Members /\ settling[s].flips \in BOOLEAN
  BY DEF TypeOK, Settlement

(* What a commit writes is a row: a fresh one pending, an old one in the    *)
(* state it was in.                                                         *)
LEMMA WrittenIsARow ==
    ASSUME TypeOK, NEW q \in InFlight,
           NEW st \in {"pending", "scored"}
    PROVE  Written(requests[q], st) \in PickRow
  BY RequestFields DEF Written, PickRow

(* Every column holds a value of its type in every reachable state.         *)
THEOREM TypeInvariant == Spec => []TypeOK
<1>1. Init => TypeOK
  BY TypeInit
<1>2. TypeOK /\ [Next]_vars => TypeOK'
  <2> SUFFICES ASSUME TypeOK, [Next]_vars PROVE TypeOK'
    OBVIOUS
  <2> USE DEF TypeOK, round
  <2>1. CASE Tick
    BY <2>1, ClockAssumption DEF Tick
  <2>2. CASE OpenDueGameweeks
    BY <2>2 DEF OpenDueGameweeks
  <2>3. CASE LockDueGameweeks
    BY <2>3 DEF LockDueGameweeks
  <2>4. ASSUME NEW s \in Settlers, SettleCommits(s) PROVE TypeOK'
    <3>1. picks' \in [Members -> PickRow \cup {NoPick}]
      <4> SUFFICES ASSUME NEW m \in Members PROVE picks'[m] \in PickRow \cup {NoPick}
        BY <2>4 DEF SettleCommits
      <4>1. CASE m \in settling[s].rows \cap Holders
        <5>1. [picks[m] EXCEPT !.state = "scored"] \in PickRow
          BY <4>1, PickFields DEF PickRow
        <5> QED BY <4>1, <5>1, <2>4 DEF SettleCommits
      <4>2. CASE m \notin settling[s].rows \cap Holders
        BY <4>2, <2>4 DEF SettleCommits
      <4> QED BY <4>1, <4>2
    <3>2. settling' \in [Settlers -> Settlement]
      BY <2>4 DEF SettleCommits, NoSettlement, Settlement
    <3>3. status' \in {"scheduled", "open", "locked", "settled"}
      BY <2>4 DEF SettleCommits
    <3> QED BY <2>4, <3>1, <3>2, <3>3 DEF SettleCommits
  <2>5. ASSUME NEW s \in Settlers, SweepBegins(s) \/ OperatorBegins(s) PROVE TypeOK'
    <3>1. [settling[s] EXCEPT !.pc = "begun"] \in Settlement
      BY SettlementFields DEF Settlement
    <3>2. settling' = [settling EXCEPT ![s] = [settling[s] EXCEPT !.pc = "begun"]]
      BY <2>5 DEF SweepBegins, OperatorBegins
    <3> QED BY <2>5, <3>1, <3>2 DEF SweepBegins, OperatorBegins
  <2>6. ASSUME NEW s \in Settlers, NEW R \in SUBSET Fixtures, SettleSelects(s, R) PROVE TypeOK'
    <3> DEFINE S == {m \in Pending : picks[m].fixture \in R}
    <3>1. S \in SUBSET Members
      BY DEF Pending, Holders
    <3>2. settling' = [settling EXCEPT ![s] = [settling[s] EXCEPT !.pc = "selected", !.rows = S]]
      BY <2>6 DEF SettleSelects
    <3> HIDE DEF S
    <3>3. [settling[s] EXCEPT !.pc = "selected", !.rows = S] \in Settlement
      BY <3>1, SettlementFields DEF Settlement
    <3> QED BY <2>6, <3>2, <3>3 DEF SettleSelects
  <2>20. ASSUME NEW s \in Settlers, SettleCounts(s) PROVE TypeOK'
    <3> DEFINE fl == Pending \subseteq settling[s].rows
    <3>1. fl \in BOOLEAN
      OBVIOUS
    <3>2. \/ settling' = [settling EXCEPT ![s] = [settling[s] EXCEPT !.pc = "counted", !.flips = fl]]
          \/ settling' = [settling EXCEPT ![s] = NoSettlement]
      BY <2>20 DEF SettleCounts
    <3> HIDE DEF fl
    <3>3. [settling[s] EXCEPT !.pc = "counted", !.flips = fl] \in Settlement
      BY <3>1, SettlementFields DEF Settlement
    <3>4. NoSettlement \in Settlement
      BY DEF NoSettlement, Settlement
    <3>5. settling' \in [Settlers -> Settlement]
      BY <3>2, <3>3, <3>4
    <3> QED BY <2>20, <3>5 DEF SettleCounts
  <2>7. CASE Restart
    BY <2>7 DEF Restart, NoSettlement, Settlement
  <2>8. ASSUME NEW q \in Requests, Refuse(q) PROVE TypeOK'
    BY <2>8 DEF Refuse
  <2>9. ASSUME NEW q \in Requests, Clear(q) PROVE TypeOK'
    <3> DEFINE mv == requests[q].member \in Holders
    <3>1. mv \in BOOLEAN
      OBVIOUS
    <3>2. requests[q] \in Submission
      BY <2>9, RequestFields DEF Clear
    <3>3. requests' = [requests EXCEPT ![q] = [requests[q] EXCEPT !.pc = "cleared", !.moves = mv]]
      BY <2>9 DEF Clear
    <3> HIDE DEF mv
    <3>4. [requests[q] EXCEPT !.pc = "cleared", !.moves = mv] \in Submission
      BY <3>1, <3>2 DEF Submission
    <3> QED BY <2>9, <3>3, <3>4 DEF Clear
  <2>10. ASSUME NEW q \in Requests, Commit(q) PROVE TypeOK'
    <3> DEFINE r == requests[q]
               m == r.member
               new == Written(r, IF m \in Holders THEN picks[m].state ELSE "pending")
    <3>1. q \in InFlight /\ m \in Members
      BY <2>10, RequestFields DEF Commit, Cleared
    <3>2. new \in PickRow
      BY <3>1, WrittenIsARow, PickFields
    <3>3. picks' = [picks EXCEPT ![m] = new] \/ picks' = picks
      BY <2>10 DEF Commit
    <3>4. picks' \in [Members -> PickRow \cup {NoPick}]
      BY <3>1, <3>2, <3>3
    <3> QED BY <2>10, <3>4 DEF Commit
  <2>11. ASSUME NEW q \in Requests, NEW m \in Members, NEW f \in Fixtures, NEW b \in Bets,
                Submit(q, m, f, b)
         PROVE  TypeOK'
    <3>1. [pc |-> "fetching", member |-> m, fixture |-> f, bet |-> b,
           scope |-> scope, period |-> period, moves |-> FALSE] \in Submission
      BY DEF Submission
    <3> QED BY <2>11, <3>1 DEF Submit
  <2>12. ASSUME NEW f \in Fixtures, Result(f) PROVE TypeOK'
    BY <2>12 DEF Result
  <2>13. ASSUME NEW f \in Fixtures, LinkFixture(f) PROVE TypeOK'
    BY <2>13 DEF LinkFixture
  <2>14. ASSUME NEW f \in Fixtures, DropVoidedFixture(f) PROVE TypeOK'
    BY <2>14 DEF DropVoidedFixture, Without
  <2>15. ASSUME NEW s \in Scopes, ApplyPickScopeChange(s) PROVE TypeOK'
    <3>1. picks' \in [Members -> PickRow \cup {NoPick}]
      <4> SUFFICES ASSUME NEW m \in Members PROVE picks'[m] \in PickRow \cup {NoPick}
        BY <2>15 DEF ApplyPickScopeChange
      <4>1. CASE m \in Pending
        <5>1. [picks[m] EXCEPT !.stamp = s] \in PickRow
          BY <4>1, PickFields DEF Pending, PickRow
        <5> QED BY <5>1, <2>15 DEF ApplyPickScopeChange
      <4>2. CASE m \notin Pending
        BY <4>2, <2>15 DEF ApplyPickScopeChange
      <4> QED BY <4>1, <4>2
    <3> QED BY <2>15, <3>1 DEF ApplyPickScopeChange
  <2>16. ASSUME NEW p \in Periods, RederiveClaimPeriods(p) PROVE TypeOK'
    BY <2>16 DEF RederiveClaimPeriods
  <2>17. ASSUME NEW m \in Members, Leave(m) PROVE TypeOK'
    BY <2>17 DEF Leave, Without
  <2>18. ASSUME NEW m \in Members, Join(m) PROVE TypeOK'
    BY <2>18 DEF Join
  <2>19. CASE UNCHANGED vars
    BY <2>19 DEF vars
  <2>21. ASSUME NEW s \in Sweepers, SweepBegins(s) \/ SettleSelects(s, results) PROVE TypeOK'
    BY <2>5, <2>6, <2>21 DEF Settlers
  <2>22. ASSUME NEW s \in Operators,
                OperatorBegins(s) \/ \E R \in SUBSET Fixtures : SettleSelects(s, R)
         PROVE  TypeOK'
    BY <2>5, <2>6, <2>22 DEF Settlers
  <2> HIDE DEF TypeOK
  <2> QED BY <2>1, <2>2, <2>3, <2>4, <2>7, <2>8, <2>9, <2>10, <2>11, <2>12, <2>13, <2>14, <2>15,
             <2>16, <2>17, <2>18, <2>19, <2>20, <2>21, <2>22 DEF Next
<1> QED BY <1>1, <1>2, PTL DEF Spec

----------------------------------------------------------------------------
(* A commit either writes one row that violates no key, or nothing.         *)
LEMMA CommitWrites ==
    ASSUME TypeOK, NEW q \in Requests, Commit(q)
    PROVE  \/ picks' = picks
           \/ \E m \in Members, new \in PickRow :
                 /\ m = requests[q].member
                 /\ new.fixture = requests[q].fixture /\ new.bet = requests[q].bet
                 /\ new.stamp = requests[q].scope
                 /\ ~ViolatesKey(m, new)
                 /\ picks' = [picks EXCEPT ![m] = new]
  <1> DEFINE m == requests[q].member
             new == Written(requests[q], IF m \in Holders THEN picks[m].state ELSE "pending")
  <1>1. q \in InFlight /\ m \in Members
    BY RequestFields DEF Commit, Cleared
  <1>2. new \in PickRow
    BY <1>1, WrittenIsARow, PickFields
  <1>3. /\ new.fixture = requests[q].fixture /\ new.bet = requests[q].bet
        /\ new.stamp = requests[q].scope
    BY DEF Written
  <1>4. picks' = picks \/ (~ViolatesKey(m, new) /\ picks' = [picks EXCEPT ![m] = new])
    BY DEF Commit
  <1> QED BY <1>1, <1>2, <1>3, <1>4

(* Every step but a commit leaves each row where it was, or removes it, or  *)
(* rewrites only its stamp and its state.                                   *)
LEMMA OtherStepsKeepClaims ==
    ASSUME TypeOK, [Next]_vars, \A q \in Requests : ~Commit(q)
    PROVE  \A m \in Members :
              \/ picks'[m] = NoPick
              \/ /\ m \in Holders
                 /\ picks'[m].fixture = picks[m].fixture
                 /\ picks'[m].bet = picks[m].bet
  <1> SUFFICES ASSUME NEW m \in Members, m \in Holders, picks'[m] # NoPick
               PROVE  picks'[m].fixture = picks[m].fixture /\ picks'[m].bet = picks[m].bet
    <2>1. ASSUME NEW m \in Members, m \notin Holders PROVE picks'[m] = NoPick
      <3>1. picks[m] = NoPick /\ m \notin Pending
        BY <2>1 DEF Holders, Pending
      <3>2. ASSUME NEW s, \/ SweepBegins(s) \/ OperatorBegins(s) \/ SettleCounts(s)
                          \/ SettleCommits(s) \/ \E R : SettleSelects(s, R)
            PROVE  picks'[m] = NoPick
        BY <2>1, <3>1, <3>2
        DEF SweepBegins, OperatorBegins, SettleSelects, SettleCounts, SettleCommits
      <3> QED BY <3>1, <3>2 DEF Next, vars, Tick, OpenDueGameweeks, LockDueGameweeks, Restart,
                     Refuse, Clear, Submit, Result, LinkFixture,
                     DropVoidedFixture, ApplyPickScopeChange, RederiveClaimPeriods, Leave, Join,
                     Without
    <2> QED BY <2>1
  <1>0. picks[m] \in PickRow
    BY PickFields
  <1>1. ASSUME NEW s, SettleCommits(s)
        PROVE  picks'[m].fixture = picks[m].fixture /\ picks'[m].bet = picks[m].bet
    BY <1>0, <1>1 DEF SettleCommits, PickRow
  <1>2. ASSUME NEW s \in Scopes, ApplyPickScopeChange(s)
        PROVE  picks'[m].fixture = picks[m].fixture /\ picks'[m].bet = picks[m].bet
    BY <1>0, <1>2 DEF ApplyPickScopeChange, PickRow
  <1>3. ASSUME NEW f, DropVoidedFixture(f)
        PROVE  picks'[m].fixture = picks[m].fixture /\ picks'[m].bet = picks[m].bet
    BY <1>3 DEF DropVoidedFixture, Without
  <1>4. ASSUME NEW o, Leave(o)
        PROVE  picks'[m].fixture = picks[m].fixture /\ picks'[m].bet = picks[m].bet
    BY <1>4 DEF Leave, Without
  <1> QED BY <1>1, <1>2, <1>3, <1>4
         DEF Next, vars, Tick, OpenDueGameweeks, LockDueGameweeks, Restart, Refuse, Clear,
             Submit, SweepBegins, OperatorBegins, SettleSelects, SettleCounts, Result, LinkFixture,
             RederiveClaimPeriods, Join

(* However submissions race, no two members hold the same selection.        *)
THEOREM LandGrabIsExclusive == Spec => []DistinctSelections
<1>1. Init => DistinctSelections
  BY DEF Init, DistinctSelections, Holders
<1>2. TypeOK /\ TypeOK' /\ DistinctSelections /\ [Next]_vars => DistinctSelections'
  <2> SUFFICES ASSUME TypeOK, TypeOK', DistinctSelections, [Next]_vars,
                      NEW m \in Holders', NEW o \in Holders', m # o
               PROVE  picks'[m].fixture # picks'[o].fixture \/ picks'[m].bet # picks'[o].bet
    BY DEF DistinctSelections
  <2>1. m \in Members /\ o \in Members /\ picks'[m] # NoPick /\ picks'[o] # NoPick
    BY DEF Holders
  <2>2. CASE \A q \in Requests : ~Commit(q)
    BY <2>1, <2>2, OtherStepsKeepClaims DEF DistinctSelections
  <2>3. ASSUME NEW q \in Requests, Commit(q)
        PROVE  picks'[m].fixture # picks'[o].fixture \/ picks'[m].bet # picks'[o].bet
    <3>1. CASE picks' = picks
      BY <3>1, <2>1 DEF DistinctSelections, Holders
    <3>2. ASSUME NEW w \in Members, NEW new \in PickRow, ~ViolatesKey(w, new),
                 picks' = [picks EXCEPT ![w] = new]
          PROVE  picks'[m].fixture # picks'[o].fixture \/ picks'[m].bet # picks'[o].bet
      <4>1. \A x \in Members : x # w => picks'[x] = picks[x]
        BY <3>2 DEF TypeOK
      <4>2. picks'[w] = new
        BY <3>2 DEF TypeOK
      <4> QED BY <2>1, <3>2, <4>1, <4>2 DEF ViolatesKey, DistinctSelections, Holders
    <3> QED BY <2>3, <3>1, <3>2, CommitWrites
  <2> QED BY <2>2, <2>3
<1> QED BY <1>1, <1>2, TypeInvariant, PTL DEF Spec

----------------------------------------------------------------------------
(* The deadline argument.  Results are hours after the latest deadline the  *)
(* window can derive, a cleared submission is written before they come, and *)
(* so nothing is settled or scored while a write is still on its way.       *)
Timely ==
    /\ \A q \in Cleared : now < ResultsFrom
    /\ status = "settled" => ResultsFrom <= now
    /\ \A m \in Holders : picks[m].state = "scored" => ResultsFrom <= now

(* A settlement in flight was begun once the results were in, and one that  *)
(* counted nothing left still has every pending row among its own, however  *)
(* many others have committed since: nobody adds a pending row any more.    *)
CountsStand ==
    \A s \in Settlers :
        /\ settling[s].pc # "idle" => ResultsFrom <= now
        /\ settling[s].pc = "counted" /\ settling[s].flips => Pending \subseteq settling[s].rows

(* The inductive strengthening of SettledRoundIsDecided.                    *)
DeadlineInv == TypeOK /\ Timely /\ CountsStand /\ SettledRoundIsDecided

(* A new round is not settled and has no rows.                              *)
LEMMA DeadlineInit == Init => DeadlineInv
  BY TypeInit DEF Init, DeadlineInv, Timely, SettledRoundIsDecided, Pending, Holders,
                  Cleared, InFlight, CountsStand, NoSettlement

(* A round that is not locked is hours away from its results.               *)
LEMMA UnlockedIsEarly ==
    ASSUME TypeOK, Unlocked(status, period, now)
    PROVE  now < ResultsFrom /\ status # "settled"
  BY PeriodAssumption, ClockAssumption DEF TypeOK, Unlocked, Pickable

(* Only a commit of a submission adds a pending row.                        *)
LEMMA OtherStepsAddNoPending ==
    ASSUME TypeOK, [Next]_vars, \A q \in Requests : ~Commit(q)
    PROVE  Pending' \subseteq Pending
  <1> SUFFICES ASSUME NEW m \in Pending', m \notin Pending PROVE FALSE
    OBVIOUS
  <1>0. m \in Members /\ picks'[m] # NoPick /\ picks'[m].state = "pending" /\ m \in Holders
    BY OtherStepsKeepClaims DEF Pending, Holders
  <1>1. picks[m] \in PickRow /\ picks[m].state # "pending"
    BY <1>0, PickFields DEF Pending
  <1>2. ASSUME NEW s, SettleCommits(s) PROVE FALSE
    BY <1>0, <1>1, <1>2 DEF SettleCommits, PickRow
  <1>3. ASSUME NEW f, DropVoidedFixture(f) PROVE FALSE
    BY <1>0, <1>1, <1>3 DEF DropVoidedFixture, Without
  <1>4. ASSUME NEW o, Leave(o) PROVE FALSE
    BY <1>0, <1>1, <1>4 DEF Leave, Without
  <1>5. ASSUME NEW s \in Scopes, ApplyPickScopeChange(s) PROVE FALSE
    BY <1>0, <1>1, <1>5 DEF ApplyPickScopeChange
  <1> QED BY <1>0, <1>1, <1>2, <1>3, <1>4, <1>5
         DEF Next, vars, Tick, OpenDueGameweeks, LockDueGameweeks, Restart, Refuse, Clear, Submit,
             SweepBegins, OperatorBegins, SettleSelects, SettleCounts, Result, LinkFixture,
             RederiveClaimPeriods, Join

(* The clock never runs back.                                               *)
LEMMA ClockRunsOn ==
    ASSUME TypeOK, TypeOK', [Next]_vars
    PROVE  now \in Nat /\ now' \in Nat /\ now <= now'
  <1>1. now \in Nat /\ now' \in Nat
    BY ClockAssumption DEF TypeOK
  <1>2. now' = now \/ now' = now + 1
    BY DEF Next, vars, Tick, OpenDueGameweeks, LockDueGameweeks, Restart, Refuse, Clear, Submit,
           Commit, SweepBegins, OperatorBegins, SettleSelects, SettleCounts, SettleCommits, Result,
           LinkFixture, DropVoidedFixture, ApplyPickScopeChange, RederiveClaimPeriods, Leave, Join
  <1> QED BY <1>1, <1>2

(* A step of one settlement leaves the others where they are.               *)
LEMMA CountsStep ==
    ASSUME "early" \notin Disturbances, DeadlineInv, TypeOK', [Next]_vars
    PROVE  CountsStand'
  <1> USE DEF DeadlineInv
  <1>a. now \in Nat /\ now' \in Nat /\ now <= now' /\ ResultsFrom \in Nat
    BY ClockRunsOn, ClockAssumption
  <1>b. SUFFICES ASSUME NEW t \in Settlers, settling'[t].pc # "idle"
                 PROVE  /\ ResultsFrom <= now'
                        /\ settling'[t].pc = "counted" /\ settling'[t].flips
                               => Pending' \subseteq settling'[t].rows
    BY DEF CountsStand
  <1>c. ASSUME ResultsFrom <= now PROVE Pending' \subseteq Pending
    <2>1. ASSUME NEW q \in Requests, Commit(q) PROVE FALSE
      BY <1>a, <1>c, <2>1 DEF Commit, Timely
    <2> QED BY <2>1, OtherStepsAddNoPending
  <1>1. CASE settling'[t] = settling[t]
    BY <1>1, <1>a, <1>b, <1>c DEF CountsStand
  <1>2. ASSUME NEW s \in Settlers, SweepBegins(s) \/ OperatorBegins(s), settling'[t] # settling[t]
        PROVE  ResultsFrom <= now' /\ settling'[t].pc = "begun"
    <2>1. ResultsFrom <= now /\ now' = now
      BY <1>2 DEF SweepBegins, OperatorBegins, Played
    <2>2. settling' = [settling EXCEPT ![s].pc = "begun"]
      BY <1>2 DEF SweepBegins, OperatorBegins
    <2>3. t = s
      BY <1>2, <2>2 DEF TypeOK
    <2> QED BY <2>1, <2>2, <2>3, SettlementFields DEF TypeOK, Settlement
  <1>3. ASSUME NEW s \in Settlers, NEW R, SettleSelects(s, R), settling'[t] # settling[t]
        PROVE  ResultsFrom <= now' /\ settling'[t].pc = "selected"
    <2>1. t = s
      BY <1>3 DEF SettleSelects, TypeOK
    <2>2. now' = now /\ settling[s].pc = "begun"
      BY <1>3 DEF SettleSelects
    <2>3. settling'[s].pc = "selected"
      <3>1. settling[s] \in Settlement /\ settling \in [Settlers -> Settlement]
        BY SettlementFields DEF TypeOK
      <3> QED BY <1>3, <3>1 DEF SettleSelects, Settlement
    <2> QED BY <1>a, <2>1, <2>2, <2>3 DEF CountsStand
  <1>4. ASSUME NEW s \in Settlers, SettleCounts(s), settling'[t] # settling[t]
        PROVE  ResultsFrom <= now'
                 /\ (settling'[t].pc = "counted" /\ settling'[t].flips
                        => Pending' \subseteq settling'[t].rows)
    <2>1. t = s
      BY <1>4 DEF SettleCounts, TypeOK
    <2>2. now' = now /\ picks' = picks /\ settling[s].pc = "selected"
      BY <1>4 DEF SettleCounts
    <2> DEFINE fl == Pending \subseteq settling[s].rows
    <2>3. settling' = [settling EXCEPT ![s] = [settling[s] EXCEPT !.pc = "counted", !.flips = fl]]
      BY <1>4, <1>b, <2>1 DEF SettleCounts, NoSettlement, TypeOK
    <2> HIDE DEF fl
    <2>5. settling'[s].rows = settling[s].rows /\ settling'[s].flips = fl
      BY <2>3, SettlementFields DEF TypeOK, Settlement
    <2>4. /\ settling'[s].rows = settling[s].rows
          /\ settling'[s].flips = (Pending \subseteq settling[s].rows)
      BY <2>5 DEF fl
    <2> QED BY <1>a, <2>1, <2>2, <2>4 DEF CountsStand, Pending, Holders
  <1>5. ASSUME NEW s \in Settlers, SettleCommits(s) PROVE settling'[t] = settling[t]
    <2>1. settling' = [settling EXCEPT ![s] = NoSettlement]
      BY <1>5 DEF SettleCommits
    <2>2. t # s
      BY <1>b, <2>1 DEF NoSettlement, TypeOK
    <2> QED BY <2>1, <2>2 DEF TypeOK
  <1>6. CASE Restart
    BY <1>6, <1>b DEF Restart, NoSettlement
  <1> QED BY <1>1, <1>2, <1>3, <1>4, <1>5, <1>6
         DEF Next, vars, Settlers, Tick, OpenDueGameweeks, LockDueGameweeks, Refuse, Clear, Submit,
             Commit, Result, LinkFixture, DropVoidedFixture, ApplyPickScopeChange,
             RederiveClaimPeriods, Leave, Join

(* While nothing early is settled, a step never touches a scored row, and   *)
(* the inductive invariant is preserved.                                    *)
LEMMA DeadlineStep ==
    ASSUME "early" \notin Disturbances, DeadlineInv, TypeOK', [Next]_vars
    PROVE  /\ DeadlineInv'
           /\ \A m \in Holders : picks[m].state = "scored" => picks'[m] = picks[m]
  <1> USE DEF DeadlineInv
  <1> DEFINE Stands == \A m \in Holders : picks[m].state = "scored" => picks'[m] = picks[m]
  <1>a. now \in Nat /\ ResultsFrom \in Nat
    BY ClockAssumption DEF TypeOK
  <1>1. ASSUME UNCHANGED <<status, picks>>, now' = now,
               \A q \in Cleared' : q \in Cleared \/ now < ResultsFrom
        PROVE  Timely' /\ SettledRoundIsDecided' /\ Stands
    BY <1>1 DEF Timely, SettledRoundIsDecided, Pending, Holders
  <1>2. ASSUME Tick
        PROVE  Timely' /\ SettledRoundIsDecided' /\ Stands
    <2>1. Cleared' = Cleared /\ Holders' = Holders /\ Pending' = Pending
      BY <1>2 DEF Tick, Cleared, InFlight, Holders, Pending
    <2> QED BY <1>2, <1>a, <2>1 DEF Tick, Timely, SettledRoundIsDecided, round
  <1>3. ASSUME OpenDueGameweeks \/ LockDueGameweeks
        PROVE  Timely' /\ SettledRoundIsDecided' /\ Stands
    <2>1. Cleared' = Cleared /\ Holders' = Holders /\ Pending' = Pending
      BY <1>3 DEF OpenDueGameweeks, LockDueGameweeks, Cleared, InFlight, Holders, Pending
    <2> QED BY <1>3, <2>1 DEF OpenDueGameweeks, LockDueGameweeks, Timely, SettledRoundIsDecided
  <1>4. ASSUME NEW s \in Settlers, SettleCommits(s)
        PROVE  Timely' /\ SettledRoundIsDecided' /\ Stands
    <2>1. Cleared' = Cleared /\ now' = now
      BY <1>4 DEF SettleCommits, Cleared, InFlight
    <2>2. Stands
      <3> SUFFICES ASSUME NEW m \in Holders, picks[m].state = "scored" PROVE picks'[m] = picks[m]
        OBVIOUS
      <3>1. m \in Members /\ picks[m] \in PickRow
        BY PickFields
      <3> QED BY <1>4, <3>1 DEF SettleCommits, PickRow
    <2>3. ResultsFrom <= now
      BY <1>4 DEF SettleCommits, CountsStand
    <2>4. Pending' \subseteq Pending
      <3>1. \A q \in Requests : ~Commit(q)
        BY <1>a, <2>3 DEF Commit, Timely
      <3> QED BY <3>1, OtherStepsAddNoPending
    <2>5. ASSUME status' = "settled", NEW m \in Pending' PROVE FALSE
      <3>1. m \in Pending
        BY <2>4
      <3>2. settling[s].flips
        BY <1>4, <2>5, <3>1 DEF SettleCommits, SettledRoundIsDecided
      <3>3. m \in settling[s].rows \cap Holders /\ m \in Members
        BY <1>4, <3>1, <3>2 DEF SettleCommits, CountsStand, Pending, Holders
      <3>4. picks'[m] = [picks[m] EXCEPT !.state = "scored"]
        BY <1>4, <3>3 DEF SettleCommits
      <3>5. picks[m] \in PickRow /\ picks'[m].state = "pending"
        BY <3>3, PickFields DEF Pending
      <3> QED BY <3>4, <3>5 DEF PickRow
    <2> QED BY <2>1, <2>2, <2>3, <2>5 DEF Timely, SettledRoundIsDecided
  <1>5. ASSUME NEW s \in Settlers,
               \/ SweepBegins(s) \/ OperatorBegins(s) \/ SettleCounts(s)
               \/ \E R : SettleSelects(s, R)
        PROVE  Timely' /\ SettledRoundIsDecided' /\ Stands
    BY <1>5, <1>1 DEF SweepBegins, OperatorBegins, SettleCounts, SettleSelects, round, Cleared,
                      InFlight
  <1>7. ASSUME Restart
        PROVE  Timely' /\ SettledRoundIsDecided' /\ Stands
    BY <1>7, <1>1 DEF Restart, round, Cleared, InFlight
  <1>8. ASSUME NEW q \in Requests, Refuse(q)
        PROVE  Timely' /\ SettledRoundIsDecided' /\ Stands
    BY <1>8, <1>1 DEF Refuse, round, Cleared, InFlight, TypeOK
  <1>9. ASSUME NEW q \in Requests, Clear(q)
        PROVE  Timely' /\ SettledRoundIsDecided' /\ Stands
    <2>1. now < ResultsFrom
      <3>1. requests[q].period \in Periods /\ now < requests[q].period.locks
        BY <1>9, <1>a, RequestFields, PeriodAssumption DEF Clear, Refused, Pickable
      <3> QED BY <3>1, <1>a, PeriodAssumption
    <2> QED BY <1>9, <2>1, <1>1 DEF Clear, round
  <1>10. ASSUME NEW q \in Requests, Commit(q)
         PROVE  Timely' /\ SettledRoundIsDecided' /\ Stands
    <2>1. now < ResultsFrom
      BY <1>10 DEF Commit, Timely
    <2>2. status # "settled" /\ \A m \in Holders : picks[m].state # "scored"
      BY <2>1, <1>a DEF Timely
    <2>3. now' = now /\ status' = status /\ Cleared' \subseteq Cleared
      BY <1>10 DEF Commit, round, Cleared, InFlight, TypeOK
    <2>4. \A m \in Holders' : picks'[m].state # "scored"
      <3> DEFINE w == requests[q].member
                 new == Written(requests[q], IF w \in Holders THEN picks[w].state ELSE "pending")
      <3>1. new.state # "scored"
        BY <2>2 DEF Written
      <3>2. picks' = picks \/ picks' = [picks EXCEPT ![w] = new]
        BY <1>10 DEF Commit
      <3> HIDE DEF new
      <3> QED BY <2>2, <3>1, <3>2 DEF Holders, TypeOK
    <2> QED BY <2>1, <2>2, <2>3, <2>4 DEF Timely, SettledRoundIsDecided
  <1>11. ASSUME NEW q \in Requests, NEW m \in Members, NEW f \in Fixtures, NEW b \in Bets,
                Submit(q, m, f, b)
         PROVE  Timely' /\ SettledRoundIsDecided' /\ Stands
    BY <1>11, <1>1 DEF Submit, round, Cleared, InFlight, TypeOK
  <1>12. ASSUME NEW f \in Fixtures, Result(f) \/ LinkFixture(f)
         PROVE  Timely' /\ SettledRoundIsDecided' /\ Stands
    BY <1>12, <1>1 DEF Result, LinkFixture, round, Cleared, InFlight
  <1>13. ASSUME UNCHANGED <<now, status, requests>>, Unlocked(status, period, now),
                NEW S, picks' = Without(S)
         PROVE  Timely' /\ SettledRoundIsDecided' /\ Stands
    <2>1. now < ResultsFrom /\ status # "settled"
      BY <1>13, UnlockedIsEarly
    <2>2. \A m \in Holders : picks[m].state # "scored"
      BY <2>1, <1>a DEF Timely
    <2>3. \A m \in Holders' : picks'[m].state # "scored"
      BY <1>13, <2>2 DEF Holders, Without
    <2> QED BY <1>13, <2>1, <2>2, <2>3 DEF Timely, SettledRoundIsDecided, Cleared, InFlight
  <1>14. ASSUME NEW f \in Fixtures, DropVoidedFixture(f)
         PROVE  Timely' /\ SettledRoundIsDecided' /\ Stands
    BY <1>14, <1>13 DEF DropVoidedFixture
  <1>15. ASSUME NEW s \in Scopes, ApplyPickScopeChange(s)
         PROVE  Timely' /\ SettledRoundIsDecided' /\ Stands
    <2>1. \A m \in Members : m \notin Pending => picks'[m] = picks[m]
      BY <1>15 DEF ApplyPickScopeChange
    <2>2. \A m \in Pending : picks'[m] # NoPick /\ picks'[m].state = "pending"
      BY <1>15, PickFields, NullAssumption DEF ApplyPickScopeChange, Pending, Holders, PickRow,
                                                TypeOK
    <2>3. Pending' = Pending /\ Stands
      BY <2>1, <2>2 DEF Pending, Holders
    <2>4. \A m \in Holders' : picks'[m].state = "scored" =>
              m \in Holders /\ picks[m].state = "scored"
      BY <2>1, <2>2 DEF Pending, Holders
    <2> QED BY <1>15, <2>3, <2>4
           DEF ApplyPickScopeChange, Timely, SettledRoundIsDecided, Cleared, InFlight
  <1>16. ASSUME NEW p \in Periods, RederiveClaimPeriods(p)
         PROVE  Timely' /\ SettledRoundIsDecided' /\ Stands
    <2>1. status # "settled" /\ status' # "settled"
      BY <1>16, UnlockedIsEarly DEF RederiveClaimPeriods
    <2> QED BY <1>16, <2>1 DEF RederiveClaimPeriods, Timely, SettledRoundIsDecided, Cleared,
                               InFlight, Holders
  <1>17. ASSUME NEW m \in Members, Leave(m)
         PROVE  Timely' /\ SettledRoundIsDecided' /\ Stands
    <2>1. CASE Unlocked(status, period, now)
      BY <1>17, <2>1, <1>13 DEF Leave
    <2>2. CASE ~Unlocked(status, period, now)
      BY <1>17, <2>2, <1>1 DEF Leave, Cleared, InFlight
    <2> QED BY <2>1, <2>2
  <1>18. ASSUME NEW m \in Members, Join(m)
         PROVE  Timely' /\ SettledRoundIsDecided' /\ Stands
    BY <1>18, <1>1 DEF Join, Cleared, InFlight
  <1>19. ASSUME UNCHANGED vars
        PROVE  Timely' /\ SettledRoundIsDecided' /\ Stands
    BY <1>19, <1>1 DEF vars, Cleared, InFlight
  <1>20. Timely' /\ SettledRoundIsDecided' /\ Stands
    BY <1>2, <1>3, <1>4, <1>5, <1>7, <1>8, <1>9, <1>10, <1>11, <1>12, <1>14, <1>15, <1>16, <1>17,
       <1>18, <1>19 DEF Next, Settlers
  <1> QED BY <1>20, CountsStep

(* Outside early hand settlement, a settled round holds no pending pick:    *)
(* nobody's pick is left behind by a round that will never settle again.    *)
THEOREM SettledMeansDecided ==
    "early" \notin Disturbances => (Spec => []SettledRoundIsDecided)
<1> SUFFICES ASSUME "early" \notin Disturbances PROVE Spec => []SettledRoundIsDecided
  OBVIOUS
<1>1. Init => DeadlineInv
  BY DeadlineInit
<1>2. TypeOK' /\ DeadlineInv /\ [Next]_vars => DeadlineInv'
  BY DeadlineStep
<1>3. DeadlineInv => SettledRoundIsDecided
  BY DEF DeadlineInv
<1> QED BY <1>1, <1>2, <1>3, TypeInvariant, PTL DEF Spec

(* Outside early hand settlement, a scored pick is never moved, unscored or *)
(* removed by any later step.                                               *)
THEOREM ScoredMeansFinal ==
    "early" \notin Disturbances => (Spec => ScoredPicksStand)
<1> SUFFICES ASSUME "early" \notin Disturbances PROVE Spec => ScoredPicksStand
  OBVIOUS
<1>1. Init => DeadlineInv
  BY DeadlineInit
<1>2. TypeOK' /\ DeadlineInv /\ [Next]_vars => DeadlineInv'
  BY DeadlineStep
<1>3. TypeOK' /\ DeadlineInv /\ [Next]_vars
          => [\A m \in Holders : picks[m].state = "scored" => picks'[m] = picks[m]]_vars
  BY DeadlineStep
<1> QED BY <1>1, <1>2, <1>3, TypeInvariant, PTL DEF Spec, ScoredPicksStand

----------------------------------------------------------------------------
(* The sweep takes up the rounds something is pending on and, since         *)
(* CORR-23, the rounds nobody picked on.  Between the two no round is left  *)
(* out as long as settlements do not overlap: the one that leaves the round *)
(* open has counted a pending row that is nobody else's to score, and such  *)
(* a row can be neither moved nor released any more.                        *)
OneAtATime ==
    /\ \A s, t \in Writing : s = t
    /\ \A s \in Settlers :
           settling[s].pc = "counted" /\ ~settling[s].flips => ~(Pending \subseteq settling[s].rows)

(* One settlement at a time writes, and its count holds until it commits.   *)
LEMMA OneAtATimeStep ==
    ASSUME "early" \notin Disturbances, "overlap" \notin Disturbances, DeadlineInv, TypeOK',
           OneAtATime, [Next]_vars
    PROVE  OneAtATime'
  <1> USE DEF DeadlineInv
  <1>1. CASE UNCHANGED settling
    <2>1. Writing' = Writing
      BY <1>1 DEF Writing
    <2>2. ASSUME NEW s \in Settlers, settling[s].pc = "counted", ~settling[s].flips
          PROVE  ~(Pending' \subseteq settling[s].rows)
      <3>1. ResultsFrom <= now /\ now \in Nat /\ ResultsFrom \in Nat
        BY <2>2, ClockAssumption DEF CountsStand, TypeOK
      <3>2. ~Unlocked(status, period, now)
        BY <3>1, UnlockedIsEarly
      <3>3. ASSUME NEW q \in Requests, Commit(q) PROVE FALSE
        BY <3>1, <3>3 DEF Commit, Timely
      <3>4. ASSUME NEW u \in Settlers, SettleCommits(u) PROVE FALSE
        BY <1>1, <3>4 DEF SettleCommits, NoSettlement, TypeOK
      <3>5. Pending' = Pending
        <4>1. CASE UNCHANGED picks
          BY <4>1 DEF Pending, Holders
        <4>2. ASSUME NEW c \in Scopes, ApplyPickScopeChange(c) PROVE Pending' = Pending
          <5>1. \A m \in Members : m \notin Pending => picks'[m] = picks[m]
            BY <4>2 DEF ApplyPickScopeChange
          <5>2. \A m \in Pending : picks'[m] # NoPick /\ picks'[m].state = "pending"
            BY <4>2, PickFields, NullAssumption DEF ApplyPickScopeChange, Pending, Holders,
                                                    PickRow, TypeOK
          <5> QED BY <5>1, <5>2 DEF Pending, Holders
        <4> QED BY <3>2, <3>3, <3>4, <4>1, <4>2
               DEF Next, vars, Settlers, Tick, OpenDueGameweeks, LockDueGameweeks, Restart, Refuse,
                   Clear, Submit, SweepBegins, OperatorBegins, SettleSelects, SettleCounts, Result,
                   LinkFixture, DropVoidedFixture, RederiveClaimPeriods, Leave, Join
      <3> QED BY <2>2, <3>5 DEF OneAtATime
    <2> QED BY <1>1, <2>1, <2>2 DEF OneAtATime
  <1>2. ASSUME NEW s \in Settlers, SweepBegins(s) \/ OperatorBegins(s) PROVE OneAtATime'
    <2>1. settling' = [settling EXCEPT ![s].pc = "begun"] /\ picks' = picks
      BY <1>2 DEF SweepBegins, OperatorBegins
    <2>2. settling'[s].pc = "begun" /\ \A t \in Settlers \ {s} : settling'[t] = settling[t]
      BY <2>1, SettlementFields DEF TypeOK, Settlement
    <2> QED BY <2>1, <2>2 DEF OneAtATime, Writing, Pending, Holders
  <1>3. ASSUME NEW s \in Settlers, NEW R, SettleSelects(s, R) PROVE OneAtATime'
    <2>1. picks' = picks /\ Writing = {}
      BY <1>3 DEF SettleSelects
    <2>2. settling'[s].pc = "selected" /\ \A t \in Settlers \ {s} : settling'[t] = settling[t]
      BY <1>3, SettlementFields DEF SettleSelects, TypeOK, Settlement
    <2> QED BY <2>1, <2>2 DEF OneAtATime, Writing, Pending, Holders
  <1>4. ASSUME NEW s \in Settlers, SettleCounts(s) PROVE OneAtATime'
    <2>1. picks' = picks /\ s \in Writing /\ \A t \in Settlers \ {s} : settling'[t] = settling[t]
      BY <1>4 DEF SettleCounts, Writing, TypeOK
    <2>2. Writing' \subseteq Writing
      BY <2>1 DEF Writing
    <2>3. ASSUME settling'[s].pc = "counted", ~settling'[s].flips
          PROVE  ~(Pending \subseteq settling'[s].rows)
      <3> DEFINE fl == Pending \subseteq settling[s].rows
                 row == [settling[s] EXCEPT !.pc = "counted", !.flips = fl]
      <3>1. settling' = [settling EXCEPT ![s] = row]
        BY <1>4, <2>3 DEF SettleCounts, NoSettlement, TypeOK
      <3>2. fl \in BOOLEAN
        OBVIOUS
      <3>3. settling'[s] = row
        <4> HIDE DEF row
        <4> QED BY <3>1 DEF TypeOK
      <3>4. row.rows = settling[s].rows /\ row.flips = fl
        <4> HIDE DEF fl
        <4> QED BY <3>2, SettlementFields DEF Settlement
      <3> QED BY <2>3, <3>3, <3>4
    <2> QED BY <2>1, <2>2, <2>3 DEF OneAtATime, Pending, Holders
  <1>5. ASSUME NEW s \in Settlers, SettleCommits(s) PROVE OneAtATime'
    <2>1. s \in Writing
      BY <1>5 DEF SettleCommits, Writing
    <2>2. settling'[s].pc = "idle" /\ \A t \in Settlers \ {s} : settling'[t] = settling[t]
      BY <1>5 DEF SettleCommits, NoSettlement, TypeOK
    <2> QED BY <2>1, <2>2 DEF OneAtATime, Writing
  <1>6. CASE Restart
    BY <1>6 DEF Restart, NoSettlement, OneAtATime, Writing
  <1> QED BY <1>1, <1>2, <1>3, <1>4, <1>5, <1>6
         DEF Next, vars, Settlers, Tick, OpenDueGameweeks, LockDueGameweeks, Refuse, Clear, Submit,
             Commit, Result, LinkFixture, DropVoidedFixture, ApplyPickScopeChange,
             RederiveClaimPeriods, Leave, Join

(* Once the results are in, only a settlement writes to the picks, and one  *)
(* that leaves the round open leaves a row pending.                         *)
LEMMA ReachStep ==
    ASSUME "early" \notin Disturbances, DeadlineInv, DeadlineInv', OneAtATime,
           SweepReachesEveryRound, [Next]_vars
    PROVE  SweepReachesEveryRound'
  <1> USE DEF DeadlineInv
  <1>a. now \in Nat /\ now' \in Nat /\ ResultsFrom \in Nat
    BY ClockAssumption DEF TypeOK
  <1>b. SUFFICES ASSUME status' # "settled", ~(now' < ResultsFrom)
                 PROVE  Pending' # {} \/ Holders' = {}
    <2>1. CASE now' < ResultsFrom
      <3>1. now' \in Nat /\ \A m \in Holders' : picks'[m].state = "pending"
        BY <1>a, <2>1 DEF Timely, TypeOK, Holders, PickRow
      <3> QED BY <3>1 DEF SweepReachesEveryRound, Pending
    <2> QED BY <2>1 DEF SweepReachesEveryRound
  <1>1. CASE UNCHANGED picks /\ (status = "settled" => status' = "settled")
    BY <1>1, <1>b DEF SweepReachesEveryRound, Pending, Holders
  <1>2. CASE Tick \/ OpenDueGameweeks \/ LockDueGameweeks
    BY <1>1, <1>2 DEF Tick, OpenDueGameweeks, LockDueGameweeks, Pickable, round
  <1>3. ASSUME NEW s \in Settlers, SettleCommits(s) PROVE Pending' # {} \/ Holders' = {}
    <2>1. ~settling[s].flips /\ settling[s].pc = "counted"
      BY <1>b, <1>3 DEF SettleCommits
    <2>2. PICK m \in Pending : m \notin settling[s].rows
      BY <2>1 DEF OneAtATime
    <2>3. picks'[m] = picks[m]
      BY <1>3, <2>2 DEF SettleCommits, Pending, Holders
    <2> QED BY <2>2, <2>3 DEF Pending, Holders
  <1>4. ASSUME NEW s \in Settlers,
               \/ SweepBegins(s) \/ OperatorBegins(s) \/ SettleCounts(s)
               \/ \E R : SettleSelects(s, R)
        PROVE  Pending' # {} \/ Holders' = {}
    BY <1>1, <1>4 DEF SweepBegins, OperatorBegins, SettleCounts, SettleSelects, round
  <1>6. CASE now' = now
    <2>1. ~Unlocked(status, period, now)
      BY <1>6, <1>a, <1>b, UnlockedIsEarly
    <2>2. ASSUME NEW q \in Requests, Commit(q) PROVE FALSE
      BY <1>6, <1>a, <1>b, <2>2 DEF Commit, Timely
    <2>3. ASSUME NEW s \in Scopes, ApplyPickScopeChange(s)
          PROVE  Pending' # {} \/ Holders' = {}
      <3>1. \A m \in Members : m \notin Pending => picks'[m] = picks[m]
        BY <2>3 DEF ApplyPickScopeChange
      <3>2. \A m \in Pending : picks'[m] # NoPick /\ picks'[m].state = "pending"
        BY <2>3, PickFields, NullAssumption DEF ApplyPickScopeChange, Pending, Holders, PickRow,
                                                  TypeOK
      <3>3. Pending' = Pending /\ Holders' = Holders
        BY <3>1, <3>2 DEF Pending, Holders
      <3>4. status' = status
        BY <2>3 DEF ApplyPickScopeChange
      <3> QED BY <1>b, <3>3, <3>4 DEF SweepReachesEveryRound
    <2> QED BY <1>1, <1>2, <1>3, <1>4, <2>1, <2>2, <2>3
           DEF Next, vars, Settlers, round, Restart, Refuse, Clear, Submit, Result, LinkFixture,
               DropVoidedFixture, RederiveClaimPeriods, Leave, Join
  <1>7. CASE now' # now
    BY <1>2, <1>7 DEF Next, vars, SweepBegins, OperatorBegins, SettleSelects, SettleCounts,
                      SettleCommits, Restart, Refuse, Clear, Submit, Commit, Result, LinkFixture, DropVoidedFixture, ApplyPickScopeChange,
                      RederiveClaimPeriods, Leave, Join
  <1> QED BY <1>6, <1>7

(* Outside early hand settlement, and as long as no two settlements of the  *)
(* round overlap between select and commit, no open round ever falls        *)
(* between the sweep's two selections (pending_event_ids,                   *)
(* _settle_empty_rounds): it has a pick to be scored, or nobody picked on   *)
(* it.  RoundSettles is this once the clock, the results and the sweep are  *)
(* fair; the run settlements_overlap shows what an overlap does to it.      *)
THEOREM NoRoundIsLeftOut ==
    "early" \notin Disturbances /\ "overlap" \notin Disturbances
        => (Spec => []SweepReachesEveryRound)
<1> SUFFICES ASSUME "early" \notin Disturbances, "overlap" \notin Disturbances
             PROVE  Spec => []SweepReachesEveryRound
  OBVIOUS
<1>1. Init => DeadlineInv /\ OneAtATime /\ SweepReachesEveryRound
  <2>1. Init => OneAtATime
    BY DEF Init, OneAtATime, Writing, NoSettlement
  <2> QED BY <2>1, DeadlineInit DEF Init, SweepReachesEveryRound, Holders
<1>2. TypeOK' /\ DeadlineInv /\ [Next]_vars => DeadlineInv'
  BY DeadlineStep
<1>3. TypeOK' /\ DeadlineInv /\ OneAtATime /\ [Next]_vars => OneAtATime'
  BY OneAtATimeStep
<1>4. DeadlineInv' /\ DeadlineInv /\ OneAtATime /\ SweepReachesEveryRound /\ [Next]_vars
          => SweepReachesEveryRound'
  BY ReachStep
<1> QED BY <1>1, <1>2, <1>3, <1>4, TypeInvariant, PTL DEF Spec

----------------------------------------------------------------------------
(* While nobody edits the rule, every row and every submission in flight    *)
(* carries the league's scope, which is what the partial index reads.       *)
OneScope ==
    /\ \A m \in Holders : picks[m].stamp = scope
    /\ \A q \in InFlight : requests[q].scope = scope

FixtureInv == TypeOK /\ OneScope /\
    (scope = "fixture" =>
        \A m, o \in Holders : m # o => picks[m].fixture # picks[o].fixture)

(* A row that a step other than a commit leaves behind keeps its stamp.     *)
LEMMA OtherStepsKeepStamps ==
    ASSUME "scope" \notin Disturbances, TypeOK, [Next]_vars, \A q \in Requests : ~Commit(q)
    PROVE  scope' = scope /\ \A m \in Holders : picks'[m] = NoPick \/ picks'[m].stamp = picks[m].stamp
  <1>0. \A m \in Holders : picks[m] \in PickRow
    BY PickFields
  <1>1. ASSUME NEW s, SettleCommits(s)
        PROVE  scope' = scope /\ \A m \in Holders : picks'[m].stamp = picks[m].stamp
    BY <1>0, <1>1 DEF SettleCommits, PickRow, Holders
  <1>2. ASSUME NEW f, DropVoidedFixture(f)
        PROVE  scope' = scope
                 /\ \A m \in Holders : picks'[m] = NoPick \/ picks'[m].stamp = picks[m].stamp
    BY <1>2 DEF DropVoidedFixture, Without, Holders
  <1>3. ASSUME NEW o, Leave(o)
        PROVE  scope' = scope
                 /\ \A m \in Holders : picks'[m] = NoPick \/ picks'[m].stamp = picks[m].stamp
    BY <1>3 DEF Leave, Without, Holders
  <1> QED BY <1>1, <1>2, <1>3
         DEF Next, vars, round, Tick, OpenDueGameweeks, LockDueGameweeks, Restart, Refuse,
             Clear, Submit, SweepBegins, OperatorBegins, SettleSelects, SettleCounts, Result,
             LinkFixture, ApplyPickScopeChange, RederiveClaimPeriods, Join

(* A step leaves a submission's scope as it was read, and reads the         *)
(* league's for a new one.                                                  *)
LEMMA ScopesInFlight ==
    ASSUME TypeOK, [Next]_vars, NEW q \in InFlight'
    PROVE  \/ q \in InFlight /\ requests'[q].scope = requests[q].scope
           \/ requests'[q].scope = scope
  <1>1. ASSUME NEW p \in Requests, Clear(p) PROVE q \in InFlight /\ requests'[q].scope = requests[q].scope
    <2>1. requests[p] \in Submission
      BY <1>1, RequestFields DEF Clear
    <2> QED BY <1>1, <2>1 DEF Clear, InFlight, TypeOK, Submission
  <1>2. ASSUME NEW p \in Requests, NEW m \in Members, NEW f \in Fixtures, NEW b \in Bets,
               Submit(p, m, f, b)
        PROVE  \/ q \in InFlight /\ requests'[q].scope = requests[q].scope
               \/ requests'[q].scope = scope
    BY <1>2 DEF Submit, InFlight, TypeOK
  <1>3. ASSUME NEW p \in Requests, Refuse(p) \/ Commit(p)
        PROVE  q \in InFlight /\ requests'[q].scope = requests[q].scope
    BY <1>3 DEF Refuse, Commit, InFlight, TypeOK
  <1>4. CASE Restart
    BY <1>4 DEF Restart, InFlight
  <1>5. CASE UNCHANGED requests
    BY <1>5 DEF InFlight
  <1> QED BY <1>1, <1>2, <1>3, <1>4, <1>5
         DEF Next, vars, Tick, OpenDueGameweeks, LockDueGameweeks, SweepBegins, OperatorBegins,
             SettleSelects, SettleCounts, SettleCommits, Result, LinkFixture, DropVoidedFixture, ApplyPickScopeChange, RederiveClaimPeriods,
             Leave, Join

(* In a league that does not change its rule mid-round, the fixture rule    *)
(* holds however submissions race.                                          *)
THEOREM FixtureRuleHolds ==
    "scope" \notin Disturbances => (Spec => []FixtureRule)
<1> SUFFICES ASSUME "scope" \notin Disturbances PROVE Spec => []FixtureRule
  OBVIOUS
<1>1. Init => FixtureInv
  BY TypeInit DEF Init, FixtureInv, OneScope, Holders, InFlight
<1>2. TypeOK' /\ FixtureInv /\ [Next]_vars => FixtureInv'
  <2> SUFFICES ASSUME TypeOK', FixtureInv, [Next]_vars PROVE FixtureInv'
    OBVIOUS
  <2> USE DEF FixtureInv
  <2>1. CASE \A q \in Requests : ~Commit(q)
    <3>1. scope' = scope
      BY <2>1, OtherStepsKeepStamps
    <3>2. \A m \in Holders' : /\ m \in Holders
                              /\ picks'[m].stamp = picks[m].stamp
                              /\ picks'[m].fixture = picks[m].fixture
      BY <2>1, OtherStepsKeepStamps, OtherStepsKeepClaims DEF Holders
    <3>3. OneScope'
      BY <3>1, <3>2, ScopesInFlight DEF OneScope
    <3> QED BY <3>1, <3>2, <3>3
  <2>2. ASSUME NEW q \in Requests, Commit(q) PROVE FixtureInv'
    <3>1. scope' = scope /\ requests[q].scope = scope
      BY <2>2 DEF Commit, round, Cleared, OneScope
    <3>2. \A p \in InFlight' : requests'[p].scope = scope
      BY ScopesInFlight DEF OneScope
    <3>3. CASE picks' = picks
      BY <3>1, <3>2, <3>3 DEF OneScope, Holders
    <3>4. ASSUME NEW w \in Members, NEW new \in PickRow, ~ViolatesKey(w, new),
                 new.stamp = requests[q].scope, picks' = [picks EXCEPT ![w] = new]
          PROVE  FixtureInv'
      <4>1. \A x \in Members : x # w => picks'[x] = picks[x]
        BY <3>4 DEF TypeOK
      <4>2. picks'[w] = new
        BY <3>4 DEF TypeOK
      <4>3. OneScope'
        BY <3>1, <3>2, <3>4, <4>1, <4>2 DEF OneScope, Holders
      <4>4. scope = "fixture" =>
              \A m, o \in Holders' : m # o => picks'[m].fixture # picks'[o].fixture
        BY <3>1, <3>4, <4>1, <4>2 DEF OneScope, Holders, ViolatesKey
      <4> QED BY <3>1, <4>3, <4>4
    <3> QED BY <2>2, <3>3, <3>4, CommitWrites
  <2> QED BY <2>1, <2>2
<1>3. FixtureInv => FixtureRule
  BY DEF FixtureInv, FixtureRule, Pending
<1> QED BY <1>1, <1>2, <1>3, TypeInvariant, PTL DEF Spec

----------------------------------------------------------------------------
(* The refinement: the round implements the promise of Claims.              *)

(* A step that leaves every row's claim and the flip alone is a stutter.    *)
LEMMA SameClaimsStutter ==
    ASSUME (status' = "settled") = (status = "settled"),
           \A m \in Members : /\ (picks'[m] = NoPick) = (picks[m] = NoPick)
                              /\ picks[m] # NoPick => /\ picks'[m].fixture = picks[m].fixture
                                                      /\ picks'[m].bet = picks[m].bet
    PROVE  UNCHANGED <<HeldBar, DecidedBar>>
  BY DEF HeldBar, DecidedBar, Holders

(* Settling scores rows in place, and its flip decides the round.           *)
LEMMA SettlingRefines ==
    ASSUME TypeOK, NEW s \in Settlers, SettleCommits(s)
    PROVE  [Promise!ClaimsNext]_<<HeldBar, DecidedBar>>
  <1>1. HeldBar' = HeldBar
    <2>1. \A m \in Members : /\ (picks'[m] = NoPick) = (picks[m] = NoPick)
                             /\ picks[m] # NoPick => /\ picks'[m].fixture = picks[m].fixture
                                                     /\ picks'[m].bet = picks[m].bet
      <3> SUFFICES ASSUME NEW m \in Members
                   PROVE  /\ (picks'[m] = NoPick) = (picks[m] = NoPick)
                          /\ picks[m] # NoPick => /\ picks'[m].fixture = picks[m].fixture
                                                  /\ picks'[m].bet = picks[m].bet
        OBVIOUS
      <3>1. CASE m \in settling[s].rows \cap Holders
        <4>1. picks[m] \in PickRow /\ picks[m] # NoPick
          BY <3>1, PickFields DEF Holders
        <4>2. [picks[m] EXCEPT !.state = "scored"] \in PickRow
          BY <4>1 DEF PickRow
        <4> QED BY <3>1, <4>1, <4>2, NullAssumption DEF SettleCommits, PickRow
      <3>2. CASE m \notin settling[s].rows \cap Holders
        BY <3>2 DEF SettleCommits
      <3> QED BY <3>1, <3>2
    <2> QED BY <2>1 DEF HeldBar, Holders
  <1>2. CASE status' = "settled" /\ status # "settled"
    BY <1>1, <1>2 DEF DecidedBar, Promise!ClaimsNext, Promise!Decide
  <1>3. CASE status' # "settled" \/ status = "settled"
    BY <1>1, <1>3 DEF SettleCommits, DecidedBar
  <1> QED BY <1>2, <1>3

(* Removing the rows of a set of members gives their claims up.             *)
LEMMA RemovalRefines ==
    ASSUME TypeOK, Unlocked(status, period, now), status' = status,
           NEW S \in SUBSET Members, picks' = Without(S)
    PROVE  [Promise!ClaimsNext]_<<HeldBar, DecidedBar>>
  <1>1. Promise!GiveUp(S)
    BY UnlockedIsEarly DEF Promise!GiveUp, HeldBar, DecidedBar, Holders, Without
  <1> QED BY <1>1 DEF Promise!ClaimsNext

(* A commit grants one selection that nobody else holds.                    *)
LEMMA CommitRefines ==
    ASSUME DeadlineInv, NEW q \in Requests, Commit(q)
    PROVE  [Promise!ClaimsNext]_<<HeldBar, DecidedBar>>
  <1> USE DEF DeadlineInv
  <1>1. status' = status /\ status # "settled"
    <2>1. now < ResultsFrom
      BY DEF Commit, Timely
    <2> QED BY <2>1, ClockAssumption DEF Timely, TypeOK, Commit, round
  <1>2. CASE picks' = picks
    BY <1>1, <1>2 DEF HeldBar, DecidedBar, Holders
  <1>3. ASSUME NEW w \in Members, NEW new \in PickRow, ~ViolatesKey(w, new),
               picks' = [picks EXCEPT ![w] = new]
        PROVE  Promise!ClaimsNext
    <2> DEFINE c == <<new.fixture, new.bet>>
    <2>1. c \in Fixtures \X Bets /\ new # NoPick
      BY NullAssumption DEF PickRow
    <2>2. \A x \in Members : x # w => picks'[x] = picks[x]
      BY <1>3 DEF TypeOK
    <2>3. picks'[w] = new
      BY <1>3 DEF TypeOK
    <2>4. HeldBar' = [HeldBar EXCEPT ![w] = c]
      BY <2>1, <2>2, <2>3 DEF HeldBar, Holders
    <2>5. \A o \in Members \ {w} : HeldBar[o] # c
      BY <1>3, <2>1, NullAssumption DEF HeldBar, Holders, ViolatesKey
    <2>6. Promise!Grab(w, c)
      BY <1>1, <2>4, <2>5 DEF Promise!Grab, Promise!Free, DecidedBar
    <2> QED BY <2>1, <2>6 DEF Promise!ClaimsNext
  <1> QED BY <1>2, <1>3, CommitWrites

(* Every step of the round is a step of the promise, or a stutter.          *)
LEMMA PromiseStep ==
    ASSUME "early" \notin Disturbances, DeadlineInv, [Next]_vars
    PROVE  [Promise!ClaimsNext]_<<HeldBar, DecidedBar>>
  <1> USE DEF DeadlineInv
  <1>1. CASE UNCHANGED <<picks, status>>
    BY <1>1 DEF HeldBar, DecidedBar, Holders
  <1>2. CASE UNCHANGED picks /\ (status' = "settled") = (status = "settled")
    BY <1>2 DEF HeldBar, DecidedBar, Holders
  <1>3. CASE OpenDueGameweeks \/ LockDueGameweeks
    BY <1>2, <1>3 DEF OpenDueGameweeks, LockDueGameweeks, Pickable
  <1>4. ASSUME NEW s \in Settlers, SettleCommits(s)
        PROVE  [Promise!ClaimsNext]_<<HeldBar, DecidedBar>>
    BY <1>4, SettlingRefines
  <1>6. ASSUME NEW q \in Requests, Commit(q)
        PROVE  [Promise!ClaimsNext]_<<HeldBar, DecidedBar>>
    BY <1>6, CommitRefines
  <1>7. ASSUME NEW f \in Fixtures, DropVoidedFixture(f)
        PROVE  [Promise!ClaimsNext]_<<HeldBar, DecidedBar>>
    <2>1. {m \in Holders : picks[m].fixture = f} \in SUBSET Members
      BY DEF Holders
    <2> QED BY <1>7, <2>1, RemovalRefines DEF DropVoidedFixture
  <1>8. ASSUME NEW m \in Members, Leave(m)
        PROVE  [Promise!ClaimsNext]_<<HeldBar, DecidedBar>>
    <2>1. CASE Unlocked(status, period, now)
      BY <1>8, <2>1, RemovalRefines DEF Leave
    <2>2. CASE ~Unlocked(status, period, now)
      BY <1>1, <1>8, <2>2 DEF Leave
    <2> QED BY <2>1, <2>2
  <1>9. ASSUME NEW s \in Scopes, ApplyPickScopeChange(s)
        PROVE  [Promise!ClaimsNext]_<<HeldBar, DecidedBar>>
    <2>1. \A m \in Members : /\ (picks'[m] = NoPick) = (picks[m] = NoPick)
                             /\ picks[m] # NoPick => /\ picks'[m].fixture = picks[m].fixture
                                                     /\ picks'[m].bet = picks[m].bet
      <3> SUFFICES ASSUME NEW m \in Members
                   PROVE  /\ (picks'[m] = NoPick) = (picks[m] = NoPick)
                          /\ picks[m] # NoPick => /\ picks'[m].fixture = picks[m].fixture
                                                  /\ picks'[m].bet = picks[m].bet
        OBVIOUS
      <3>1. CASE m \in Pending
        <4>1. picks[m] \in PickRow /\ picks[m] # NoPick
          BY <3>1, PickFields DEF Pending, Holders
        <4>2. [picks[m] EXCEPT !.stamp = s] \in PickRow
          BY <4>1 DEF PickRow
        <4> QED BY <1>9, <3>1, <4>1, <4>2, NullAssumption DEF ApplyPickScopeChange, PickRow
      <3>2. CASE m \notin Pending
        BY <1>9, <3>2 DEF ApplyPickScopeChange
      <3> QED BY <3>1, <3>2
    <2> QED BY <1>9, <2>1, SameClaimsStutter DEF ApplyPickScopeChange
  <1>10. ASSUME NEW p \in Periods, RederiveClaimPeriods(p)
         PROVE  [Promise!ClaimsNext]_<<HeldBar, DecidedBar>>
    <2>1. status # "settled" /\ status' # "settled"
      BY <1>10, UnlockedIsEarly DEF RederiveClaimPeriods
    <2> QED BY <1>2, <1>10, <2>1 DEF RederiveClaimPeriods
  <1> QED BY <1>1, <1>3, <1>4, <1>6, <1>7, <1>8, <1>9, <1>10
         DEF Next, vars, Settlers, round, Tick, Restart, Refuse, Clear, Submit, SweepBegins,
             OperatorBegins, SettleSelects, SettleCounts, Result, LinkFixture, Join

(* The round keeps the promise of Claims for every league in which nobody   *)
(* settles a round before its fixtures can have been played.                *)
THEOREM RoundKeepsThePromise ==
    "early" \notin Disturbances => (Spec => KeepsThePromise)
<1> SUFFICES ASSUME "early" \notin Disturbances PROVE Spec => KeepsThePromise
  OBVIOUS
<1>1. Init => Promise!ClaimsInit /\ DeadlineInv
  BY DeadlineInit DEF Init, Promise!ClaimsInit, HeldBar, DecidedBar, Holders
<1>2. TypeOK' /\ DeadlineInv /\ [Next]_vars => DeadlineInv'
  BY DeadlineStep
<1>3. DeadlineInv /\ [Next]_vars => [Promise!ClaimsNext]_<<HeldBar, DecidedBar>>
  BY PromiseStep
<1> QED BY <1>1, <1>2, <1>3, TypeInvariant, PTL
        DEF Spec, KeepsThePromise, Promise!ClaimsSpec

----------------------------------------------------------------------------
(* The league around the round: what breaks "a member who leaves gives up   *)
(* their unlocked picks", and that nothing else does.                       *)

(* A row that is scored or takes a new stamp stays a row.                   *)
LEMMA RewritingKeepsHolders ==
    ASSUME TypeOK,
           \/ \E s \in Settlers : SettleCommits(s)
           \/ \E s \in Scopes : ApplyPickScopeChange(s)
    PROVE  Holders' = Holders
  <1> SUFFICES ASSUME NEW m \in Members PROVE picks'[m] = NoPick <=> picks[m] = NoPick
    BY DEF Holders
  <1>1. CASE m \in Holders
    <2>1. picks[m] \in PickRow /\ picks[m] # NoPick
      BY <1>1, PickFields DEF Holders
    <2>2. picks'[m] \in PickRow
      <3>1. [picks[m] EXCEPT !.state = "scored"] \in PickRow
        BY <2>1 DEF PickRow
      <3>2. \A s \in Scopes : [picks[m] EXCEPT !.stamp = s] \in PickRow
        BY <2>1 DEF PickRow
      <3> QED BY <1>1, <2>1, <3>1, <3>2 DEF SettleCommits, ApplyPickScopeChange
    <2> QED BY <2>1, <2>2, NullAssumption
  <1>2. CASE m \notin Holders
    BY <1>2 DEF SettleCommits, ApplyPickScopeChange, Pending
  <1> QED BY <1>1, <1>2

(* A step that moves nobody at most locks the coupon.                       *)
LEMMA QuietOrLocked ==
    ASSUME active' = active, Holders' = Holders,
           Unlocked(status, period, now)' => Unlocked(status, period, now)
    PROVE  [League!CouponNext]_<<active, Holders, Unlocked(status, period, now)>>
  <1>1. Unlocked(status, period, now) \in BOOLEAN /\ Unlocked(status, period, now)' \in BOOLEAN
    BY DEF Unlocked
  <1>2. CASE Unlocked(status, period, now)' = Unlocked(status, period, now)
    BY <1>2
  <1>3. CASE Unlocked(status, period, now)' # Unlocked(status, period, now)
    <2>1. Unlocked(status, period, now) /\ Unlocked(status, period, now)' = FALSE
      BY <1>1, <1>3
    <2> QED BY <2>1 DEF League!CouponNext, League!Lock
  <1> QED BY <1>2, <1>3

(* A step that is no commit moves the coupon as the league does.            *)
LEMMA OtherStepsMoveTheCoupon ==
    ASSUME TypeOK, [Next]_vars, \A q \in Requests : ~Commit(q)
    PROVE  [League!CouponNext]_<<active, Holders, Unlocked(status, period, now)>>
  <1> DEFINE Moves == [League!CouponNext]_<<active, Holders, Unlocked(status, period, now)>>
  <1>0. now \in Nat /\ period.locks \in Nat
    BY ClockAssumption, PeriodAssumption DEF TypeOK
  <1>1. ASSUME UNCHANGED <<now, status, period, active, picks>> PROVE Moves
    BY <1>1, QuietOrLocked DEF Unlocked, Holders
  <1>2. CASE Tick
    <2>1. Unlocked(status, period, now)' => Unlocked(status, period, now)
      BY <1>0, <1>2 DEF Tick, round, Unlocked
    <2> QED BY <1>2, <2>1, QuietOrLocked DEF Tick, round, Holders
  <1>3. CASE OpenDueGameweeks \/ LockDueGameweeks
    <2>1. Unlocked(status, period, now)' => Unlocked(status, period, now)
      BY <1>3 DEF OpenDueGameweeks, LockDueGameweeks, Unlocked, Pickable
    <2> QED BY <1>3, <2>1, QuietOrLocked DEF OpenDueGameweeks, LockDueGameweeks, Holders
  <1>4. ASSUME NEW s \in Settlers, SettleCommits(s) PROVE Moves
    <2>1. Unlocked(status, period, now)' => Unlocked(status, period, now)
      BY <1>4 DEF SettleCommits, Unlocked, Pickable
    <2>2. Holders' = Holders
      BY <1>4, RewritingKeepsHolders
    <2>3. active' = active
      BY <1>4 DEF SettleCommits
    <2> QED BY <2>1, <2>2, <2>3, QuietOrLocked
  <1>5. ASSUME NEW s \in Scopes, ApplyPickScopeChange(s) PROVE Moves
    <2>1. Holders' = Holders
      BY <1>5, RewritingKeepsHolders
    <2>2. UNCHANGED <<now, status, period, active>>
      BY <1>5 DEF ApplyPickScopeChange
    <2> QED BY <2>1, <2>2, QuietOrLocked DEF Unlocked
  <1>6. ASSUME NEW p \in Periods, RederiveClaimPeriods(p) PROVE Moves
    <2>1. Unlocked(status, period, now) /\ active' = active /\ picks' = picks
      BY <1>6 DEF RederiveClaimPeriods
    <2> QED BY <2>1, QuietOrLocked DEF Holders
  <1>7. ASSUME NEW f \in Fixtures, DropVoidedFixture(f) PROVE Moves
    <2> DEFINE S == {m \in Holders : picks[m].fixture = f}
    <2>1. S \in SUBSET Members
      BY DEF Holders
    <2>2. Holders' = Holders \ S
      BY <1>7 DEF DropVoidedFixture, Without, Holders
    <2>3. UNCHANGED <<now, status, period, active>> /\ Unlocked(status, period, now)
      BY <1>7 DEF DropVoidedFixture
    <2> HIDE DEF S
    <2>4. League!Return(S)
      BY <2>2, <2>3 DEF League!Return, Unlocked
    <2> QED BY <2>1, <2>4 DEF League!CouponNext
  <1>8. ASSUME NEW m \in Members, Leave(m) PROVE Moves
    <2>1. UNCHANGED <<now, status, period>> /\ m \in active /\ active' = active \ {m}
      BY <1>8 DEF Leave
    <2>2. Holders' = IF Unlocked(status, period, now) THEN Holders \ {m} ELSE Holders
      BY <1>8 DEF Leave, Without, Holders
    <2>3. League!Depart(m)
      BY <2>1, <2>2 DEF League!Depart, Unlocked
    <2> QED BY <2>3 DEF League!CouponNext
  <1>9. ASSUME NEW m \in Members, Join(m) PROVE Moves
    <2>1. League!Join(m)
      BY <1>9 DEF Join, League!Join, Unlocked, Holders
    <2> QED BY <2>1 DEF League!CouponNext
  <1> QED BY <1>1, <1>2, <1>3, <1>4, <1>5, <1>6, <1>7, <1>8, <1>9
         DEF Next, vars, Settlers, round, SweepBegins, OperatorBegins, SettleSelects, SettleCounts,
             Restart, Refuse, Clear, Submit, Result, LinkFixture

(* A commit is the pick of a member, or nothing to the coupon.              *)
LEMMA CommitMovesTheCoupon ==
    ASSUME TypeOK, NEW q \in Requests, Commit(q), requests[q].member \in active
    PROVE  [League!CouponNext]_<<active, Holders, Unlocked(status, period, now)>>
  <1>1. UNCHANGED <<now, status, period, active>>
    BY DEF Commit, round
  <1>2. CASE picks' = picks
    BY <1>1, <1>2 DEF Unlocked, Holders
  <1>3. ASSUME NEW m \in Members, NEW new \in PickRow, m = requests[q].member,
               picks' = [picks EXCEPT ![m] = new]
        PROVE  League!CouponNext
    <2>1. Holders' = Holders \cup {m}
      BY <1>3, NullAssumption DEF Holders, TypeOK
    <2>2. League!Pick(m)
      BY <1>1, <1>3, <2>1 DEF League!Pick, Unlocked
    <2> QED BY <2>2 DEF League!CouponNext
  <1> QED BY <1>2, <1>3, CommitWrites

(* No move of the coupon leaves a pick with somebody outside the league     *)
(* while picks are still taken.                                             *)
LEMMA TheCouponHasNoStrangers ==
    ASSUME LeaversHoldNoClaim,
           [League!CouponNext]_<<active, Holders, Unlocked(status, period, now)>>
    PROVE  LeaversHoldNoClaim'
  BY DEF LeaversHoldNoClaim, League!CouponNext, League!Pick, League!Depart, League!Join,
         League!Return, League!Lock

(* Whoever leaves gives up an unlocked pick, and no order of departures,    *)
(* returns, refreshes, edits and label jobs gives them one back: the rule   *)
(* is broken by the commit of a cleared submission whose member is not in   *)
(* the league (they belonged when it was accepted, and left while its price *)
(* was awaited or after its second look), and by nothing else.              *)
THEOREM OnlyALateCommitBreaksTheRule == Spec => BrokenByALateCommitOnly
<1>1. TypeOK /\ [Next]_vars =>
          [LeaversHoldNoClaim /\ ~LeaversHoldNoClaim'
               => \E q \in Cleared : requests[q].member \notin active /\ Commit(q)]_vars
  <2> SUFFICES ASSUME TypeOK, Next, LeaversHoldNoClaim, ~LeaversHoldNoClaim'
               PROVE  \E q \in Cleared : requests[q].member \notin active /\ Commit(q)
    OBVIOUS
  <2>1. PICK q \in Requests : Commit(q)
    BY OtherStepsMoveTheCoupon, TheCouponHasNoStrangers
  <2>2. requests[q].member \notin active
    BY <2>1, CommitMovesTheCoupon, TheCouponHasNoStrangers
  <2>3. q \in Cleared
    BY <2>1 DEF Commit
  <2> QED BY <2>1, <2>2, <2>3
<1> QED BY <1>1, TypeInvariant, PTL DEF Spec, BrokenByALateCommitOnly

(* As long as no cleared submission belongs to somebody outside the league, *)
(* the round moves the coupon as RoundCompletion takes it to be moved.  A   *)
(* member who leaves while their own price is awaited, or between their     *)
(* second look and their commit, is outside this premise.                   *)
THEOREM TheRoundIsACoupon == Spec => MovesTheCoupon
<1>1. Init => League!CouponInit
  BY PeriodAssumption DEF Init, League!CouponInit, Holders, Unlocked, Pickable
<1>2. TypeOK /\ NoStrangerIsCleared /\ [Next]_vars
          => [League!CouponNext]_<<active, Holders, Unlocked(status, period, now)>>
  BY OtherStepsMoveTheCoupon, CommitMovesTheCoupon DEF NoStrangerIsCleared, Commit
<1> QED BY <1>1, <1>2, TypeInvariant, PTL DEF Spec, MovesTheCoupon, League!CouponSpec

(* The rule itself: unless some cleared submission belongs to somebody      *)
(* outside the league, no claim does while picks are still taken            *)
(* (release_unlocked_picks).                                                *)
THEOREM LeaversGiveUp == Spec /\ []NoStrangerIsCleared => []LeaversHoldNoClaim
<1>1. Init => LeaversHoldNoClaim
  BY DEF Init, LeaversHoldNoClaim, Holders
<1>2. TypeOK /\ NoStrangerIsCleared /\ [Next]_vars /\ LeaversHoldNoClaim
          => LeaversHoldNoClaim'
  BY OtherStepsMoveTheCoupon, CommitMovesTheCoupon, TheCouponHasNoStrangers
  DEF NoStrangerIsCleared, Commit
<1> QED BY <1>1, <1>2, TypeInvariant, PTL DEF Spec
=============================================================================
