------------------------------ MODULE LandGrab ------------------------------
(* One round of one league: members race to claim selections.               *)
(*                                                                          *)
(* A submission is three steps, because submit_pick leaves the process in   *)
(* the middle: it checks the round and awaits the provider's price, then    *)
(* re-checks the clock and the other members' claims, and then writes under *)
(* the unique keys of the picks table.  What the handler read before the    *)
(* await (the league's pick_scope, the round's claim period) it still uses  *)
(* after it, so both travel in the submission's record.  Everything else in *)
(* the application runs between those steps: the clock and its two label    *)
(* jobs, the settlement sweep and the operator's hand settlement, the slate *)
(* refresh, the league's settings, and the roster.                          *)
(*                                                                          *)
(* A settlement is four: it is begun (a sweep then awaits the provider), it *)
(* selects the pending picks, it writes their scores and counts what is     *)
(* left, and its caller commits.  The database is READ COMMITTED: a select  *)
(* or a count sees what is committed and the settlement's own writes, and a *)
(* row somebody wrote and has not committed makes the next writer wait.     *)
EXTENDS Integers, FiniteSets

CONSTANTS
    Members,      \* the profiles that ever belong to the league
    Requests,     \* submissions that may be in flight at once
    Sweepers,     \* settlement jobs: the scheduler's, and one run by hand
    Operators,    \* admins who settle from results they type in
    Fixtures,     \* fixtures of the shared pool
    Bets,         \* the (market, outcome) pairs the league offers
    Periods,      \* claim periods the league's window settings can derive
    ResultsFrom,  \* the first tick at which a played fixture has a result
    LastTick,     \* bound on the clock
    Disturbances, \* which disturbances below may happen
    NoPick,       \* a member without a pick row
    NoRequest     \* a free request slot

(* "scope", "window", "roster", "slate": an edit of that kind while the     *)
(* round is claimable.  "early": an operator settles before any fixture of  *)
(* the round can have been played.  "overlap": a settlement selects its     *)
(* picks while another has selected its own and not committed yet.          *)
DisturbanceKinds == {"scope", "window", "roster", "slate", "early", "overlap"}

Settlers == Sweepers \cup Operators

Scopes == {"selection", "fixture"}

Pickable == {"scheduled", "open"}

PickRow == [fixture: Fixtures, bet: Bets, stamp: Scopes, state: {"pending", "scored"}]

Submission == [pc: {"fetching", "cleared"}, member: Members, fixture: Fixtures, bet: Bets,
               scope: Scopes, period: Periods, moves: BOOLEAN]

(* A settlement: the pending picks it selected, and whether it counted none *)
(* left beside them.                                                        *)
Settlement == [pc: {"idle", "begun", "selected", "counted"},
               rows: SUBSET Members, flips: BOOLEAN]

NoSettlement == [pc |-> "idle", rows |-> {}, flips |-> FALSE]

ASSUME ClockAssumption == /\ ResultsFrom \in Nat
                          /\ LastTick \in Nat
ASSUME PeriodAssumption ==
    \A p \in Periods : /\ p.opens \in Nat /\ p.locks \in Nat
                       /\ p.opens < p.locks
                       /\ p.locks < ResultsFrom
ASSUME DisturbanceAssumption == Disturbances \subseteq DisturbanceKinds
ASSUME NullAssumption == /\ NoPick \notin PickRow
                         /\ NoPick \notin Fixtures \X Bets
                         /\ NoRequest \notin Submission

VARIABLES
    now,      \* the clock, in ticks
    status,   \* gameweek.status
    period,   \* picks_open_at_utc and locks_at_utc
    card,     \* fixtures linked to the round
    scope,    \* league.pick_scope
    active,   \* members with an active membership
    picks,    \* the picks table, one row per member (the player key)
    results,  \* fixtures whose final result the provider holds
    requests, \* submissions in flight
    settling  \* settlements in flight

round == <<status, period, card, scope, active>>
vars == <<now, status, period, card, scope, active, picks, results, requests, settling>>

----------------------------------------------------------------------------
(* Helpers                                                                  *)

(* pick_refusal: the status is asked first, then the two ends of the claim  *)
(* period.                                                                  *)
Refused(s, p, t) == s \notin Pickable \/ t < p.opens \/ p.locks <= t

(* Mutant of Unlocked: trusts the label, which its job moves up to an hour  *)
(* after the deadline.                                                      *)
UnlockedByLabel(s, p, t) == s \in Pickable

(* A round whose deadline is still ahead, as the leaver's release, the      *)
(* re-derivation and the slate refresh ask it.                              *)
Unlocked(s, p, t) == s \in Pickable /\ t < p.locks

InFlight == {q \in Requests : requests[q] # NoRequest}
Cleared == {q \in InFlight : requests[q].pc = "cleared"}

Holders == {m \in Members : picks[m] # NoPick}
Pending == {m \in Holders : picks[m].state = "pending"}

(* _claim_conflict: another member's row on the fixture, or under selection *)
(* scope on the very selection.                                             *)
Conflict(r) ==
    \E m \in Holders \ {r.member} :
        /\ picks[m].fixture = r.fixture
        /\ r.scope = "selection" => picks[m].bet = r.bet

(* Mutants of ViolatesKey: one of the two keys is missing.                  *)
ViolatesFixtureKey(m, new) ==
    \E o \in Holders \ {m} :
        picks[o].fixture = new.fixture /\ picks[o].stamp = "fixture" /\ new.stamp = "fixture"

ViolatesSelectionKey(m, new) ==
    \E o \in Holders \ {m} : picks[o].fixture = new.fixture /\ picks[o].bet = new.bet

(* The unique keys of the picks table, as the database applies them to the  *)
(* row `new` of member m.                                                   *)
ViolatesKey(m, new) ==
    \E o \in Holders \ {m} :
        /\ picks[o].fixture = new.fixture
        /\ \/ picks[o].bet = new.bet
           \/ picks[o].stamp = "fixture" /\ new.stamp = "fixture"

(* _apply_selection writes the claim and the stamp; an update in place      *)
(* leaves the row's settlement columns as they are.                         *)
Written(r, state) ==
    [fixture |-> r.fixture, bet |-> r.bet, stamp |-> r.scope, state |-> state]

(* Rows a settlement has written and not committed: whoever writes one next *)
(* waits for its transaction.                                               *)
Locked == UNION {settling[s].rows : s \in {t \in Settlers : settling[t].pc = "counted"}}

(* Settlements past their select and before their commit.                   *)
Writing == {s \in Settlers : settling[s].pc \in {"selected", "counted"}}

Without(S) == [m \in Members |-> IF m \in S THEN NoPick ELSE picks[m]]

----------------------------------------------------------------------------
(* The clock and the label jobs                                             *)

(* The price is awaited for as long as the provider takes.  The few local   *)
(* statements between the second look at the clock and the commit are not:  *)
(* they are over before the hours after the deadline in which results come. *)
Tick ==
    /\ now < LastTick
    /\ now + 1 >= ResultsFrom => Cleared = {}
    /\ now' = now + 1
    /\ UNCHANGED <<round, picks, results, requests, settling>>

OpenDueGameweeks ==
    /\ status = "scheduled"
    /\ period.opens <= now
    /\ status' = "open"
    /\ UNCHANGED <<now, period, card, scope, active, picks, results, requests, settling>>

LockDueGameweeks ==
    /\ status \in Pickable
    /\ period.locks <= now
    /\ status' = "locked"
    /\ UNCHANGED <<now, period, card, scope, active, picks, results, requests, settling>>

----------------------------------------------------------------------------
(* submit_pick                                                              *)

(* Up to the await: membership, the fixture on this league's card, the      *)
(* claim period.                                                            *)
Submit(q, m, f, b) ==
    /\ requests[q] = NoRequest
    /\ m \in active
    /\ f \in card
    /\ ~Refused(status, period, now)
    /\ requests' = [requests EXCEPT ![q] =
           [pc |-> "fetching", member |-> m, fixture |-> f, bet |-> b,
            scope |-> scope, period |-> period, moves |-> FALSE]]
    /\ UNCHANGED <<now, round, picks, results, settling>>

(* The provider failed, the price moved or the selection is not priced; or  *)
(* the handler's second look refuses: the deadline it read has passed, or   *)
(* the claim is somebody else's.                                            *)
Refuse(q) ==
    /\ q \in InFlight
    /\ requests[q].pc = "fetching"
    /\ requests' = [requests EXCEPT ![q] = NoRequest]
    /\ UNCHANGED <<now, round, picks, results, settling>>

(* Mutant of Clear: the clock is not looked at again after the await.       *)
ClearUnclocked(q) ==
    /\ q \in InFlight
    /\ requests[q].pc = "fetching"
    /\ ~Conflict(requests[q])
    /\ requests' = [requests EXCEPT ![q].pc = "cleared",
                                    ![q].moves = requests[q].member \in Holders]
    /\ UNCHANGED <<now, round, picks, results, settling>>

(* The second look.  The status and the period are the ones read before the *)
(* await: the session never reloads the row.                                *)
Clear(q) ==
    /\ q \in InFlight
    /\ requests[q].pc = "fetching"
    /\ ~Refused("open", requests[q].period, now)
    /\ ~Conflict(requests[q])
    /\ requests' = [requests EXCEPT ![q].pc = "cleared",
                                    ![q].moves = requests[q].member \in Holders]
    /\ UNCHANGED <<now, round, picks, results, settling>>

(* The process restarts, or the connection drops: what is in flight is lost *)
(* and nothing of it was written.                                           *)
Restart ==
    /\ requests' = [q \in Requests |-> NoRequest]
    /\ settling' = [s \in Settlers |-> NoSettlement]
    /\ UNCHANGED <<now, round, picks, results>>

(* INSERT, or UPDATE of the row found a moment ago.  The insert fails when  *)
(* the member has a row by now, the update when the row is gone, and both   *)
(* when another row holds the key.                                          *)
Commit(q) ==
    /\ q \in Cleared
    /\ requests[q].member \notin Locked
    /\ LET r == requests[q]
           m == r.member
           new == Written(r, IF m \in Holders THEN picks[m].state ELSE "pending")
       IN IF (m \in Holders) = r.moves /\ ~ViolatesKey(m, new)
          THEN picks' = [picks EXCEPT ![m] = new]
          ELSE UNCHANGED picks
    /\ requests' = [requests EXCEPT ![q] = NoRequest]
    /\ UNCHANGED <<now, round, results, settling>>

----------------------------------------------------------------------------
(* Settlement                                                               *)

Played == ResultsFrom <= now \/ "early" \in Disturbances

(* The provider reports a fixture: played, or called off.                   *)
Result(f) ==
    /\ Played
    /\ f \notin results
    /\ results' = results \cup {f}
    /\ UNCHANGED <<now, round, picks, requests, settling>>

(* Mutant of SweepBegins: the round nobody picked on is never settled       *)
(* (CORR-23).                                                               *)
SweepBeginsPendingOnly(s) ==
    /\ settling[s].pc = "idle"
    /\ period.locks <= now
    /\ ResultsFrom <= now
    /\ status # "settled"
    /\ Pending # {}
    /\ settling' = [settling EXCEPT ![s].pc = "begun"]
    /\ UNCHANGED <<now, round, picks, results, requests>>

(* The evening sweep takes up rounds past their lock and not settled: those *)
(* something is pending on, to ask the provider about, and those nobody     *)
(* picked on.                                                               *)
SweepBegins(s) ==
    /\ settling[s].pc = "idle"
    /\ period.locks <= now
    /\ ResultsFrom <= now
    /\ status # "settled"
    /\ Pending # {} \/ Holders = {}
    /\ settling' = [settling EXCEPT ![s].pc = "begun"]
    /\ UNCHANGED <<now, round, picks, results, requests>>

(* An operator types results in.  Nothing in the handler asks the clock.    *)
OperatorBegins(s) ==
    /\ settling[s].pc = "idle"
    /\ Played
    /\ status # "settled"
    /\ settling' = [settling EXCEPT ![s].pc = "begun"]
    /\ UNCHANGED <<now, round, picks, results, requests>>

(* settle_gameweek selects the pending picks and scores those the results R *)
(* cover.  The round's status was read before and is not read again.        *)
SettleSelects(s, R) ==
    /\ settling[s].pc = "begun"
    /\ Writing = {} \/ "overlap" \in Disturbances
    /\ settling' = [settling EXCEPT ![s].pc = "selected",
                                    ![s].rows = {m \in Pending : picks[m].fixture \in R}]
    /\ UNCHANGED <<now, round, picks, results, requests>>

(* Mutant of SettleCounts: the round flips once anything was scored.        *)
SettleCountsNothing(s) ==
    /\ settling[s].pc = "selected"
    /\ settling[s].rows \cap Locked = {}
    /\ settling' = [settling EXCEPT ![s] =
           IF settling[s].rows \subseteq Holders
           THEN [@ EXCEPT !.pc = "counted", !.flips = Pending = {} \/ settling[s].rows # {}]
           ELSE NoSettlement]
    /\ UNCHANGED <<now, round, picks, results, requests>>

(* Mutant of SettleCounts: the count runs before the scores are flushed and *)
(* finds the settlement's own rows still pending.                           *)
SettleCountsUnflushed(s) ==
    /\ settling[s].pc = "selected"
    /\ settling[s].rows \cap Locked = {}
    /\ settling' = [settling EXCEPT ![s] =
           IF settling[s].rows \subseteq Holders
           THEN [@ EXCEPT !.pc = "counted", !.flips = Pending = {}]
           ELSE NoSettlement]
    /\ UNCHANGED <<now, round, picks, results, requests>>

(* The count flushes the scores first: the rows are written and locked, or  *)
(* one of them is gone and the transaction is rolled back.  It counts what  *)
(* is still pending, the settlement's own rows taken as scored and anybody  *)
(* else's as they were last committed.                                      *)
SettleCounts(s) ==
    /\ settling[s].pc = "selected"
    /\ settling[s].rows \cap Locked = {}
    /\ settling' = [settling EXCEPT ![s] =
           IF settling[s].rows \subseteq Holders
           THEN [@ EXCEPT !.pc = "counted", !.flips = Pending \subseteq settling[s].rows]
           ELSE NoSettlement]
    /\ UNCHANGED <<now, round, picks, results, requests>>

(* The caller commits: the rows are scored, and the round is settled if the *)
(* count found nothing left.                                                *)
SettleCommits(s) ==
    /\ settling[s].pc = "counted"
    /\ picks' = [m \in Members |->
           IF m \in settling[s].rows \cap Holders
           THEN [picks[m] EXCEPT !.state = "scored"] ELSE picks[m]]
    /\ status' = IF settling[s].flips THEN "settled" ELSE status
    /\ settling' = [settling EXCEPT ![s] = NoSettlement]
    /\ UNCHANGED <<now, period, card, scope, active, results, requests>>

----------------------------------------------------------------------------
(* What else may happen to the round                                        *)

(* update_league: tightening is refused over a clash, and pending rows take *)
(* the new stamp.                                                           *)
ApplyPickScopeChange(new) ==
    /\ "scope" \in Disturbances
    /\ new # scope
    /\ new = "fixture" =>
           \A m, o \in Pending : m # o => picks[m].fixture # picks[o].fixture
    /\ Pending \cap Locked = {}
    /\ scope' = new
    /\ picks' = [m \in Members |->
           IF m \in Pending THEN [picks[m] EXCEPT !.stamp = new] ELSE picks[m]]
    /\ UNCHANGED <<now, status, period, card, active, results, requests, settling>>

(* update_league, window settings: rederive_claim_periods on a round that   *)
(* has not locked; back to scheduled only if nobody has claimed.            *)
RederiveClaimPeriods(p) ==
    /\ "window" \in Disturbances
    /\ Unlocked(status, period, now)
    /\ p # period
    /\ period' = p
    /\ status' = IF status = "open" /\ now < p.opens /\ Holders = {} THEN "scheduled"
                 ELSE status
    /\ UNCHANGED <<now, card, scope, active, picks, results, requests, settling>>

(* A slate refresh lists a fixture as playable and links it.                *)
LinkFixture(f) ==
    /\ "slate" \in Disturbances
    /\ status \in Pickable
    /\ f \notin card
    /\ card' = card \cup {f}
    /\ UNCHANGED <<now, status, period, scope, active, picks, results, requests, settling>>

(* A slate refresh reports a fixture void before the lock: the picks on it  *)
(* go, then the link.                                                       *)
DropVoidedFixture(f) ==
    /\ "slate" \in Disturbances
    /\ Unlocked(status, period, now)
    /\ f \in card
    /\ \A m \in Locked : picks[m].fixture # f
    /\ picks' = Without({m \in Holders : picks[m].fixture = f})
    /\ card' = card \ {f}
    /\ UNCHANGED <<now, status, period, scope, active, results, requests, settling>>

(* Mutant of Leave: releases the picks of rounds labelled open, and a round *)
(* may take picks up to an hour before its job labels it.                   *)
LeaveTheOpen(m) ==
    /\ "roster" \in Disturbances
    /\ m \in active
    /\ Unlocked(status, period, now) => m \notin Locked
    /\ active' = active \ {m}
    /\ picks' = IF status = "open" /\ now < period.locks THEN Without({m}) ELSE picks
    /\ UNCHANGED <<now, status, period, card, scope, results, requests, settling>>

(* leave_league, remove_member and account erasure: the membership ends and *)
(* the picks of rounds not yet locked are released with it.                 *)
Leave(m) ==
    /\ "roster" \in Disturbances
    /\ m \in active
    /\ Unlocked(status, period, now) => m \notin Locked
    /\ active' = active \ {m}
    /\ picks' = IF Unlocked(status, period, now) THEN Without({m}) ELSE picks
    /\ UNCHANGED <<now, status, period, card, scope, results, requests, settling>>

Join(m) ==
    /\ "roster" \in Disturbances
    /\ m \notin active
    /\ active' = active \cup {m}
    /\ UNCHANGED <<now, status, period, card, scope, picks, results, requests, settling>>

----------------------------------------------------------------------------
Init ==
    /\ now = 0
    /\ period \in Periods
    /\ status = IF now < period.opens THEN "scheduled" ELSE "open"
    /\ card = Fixtures
    /\ scope \in Scopes
    /\ active = Members
    /\ picks = [m \in Members |-> NoPick]
    /\ results = {}
    /\ requests = [q \in Requests |-> NoRequest]
    /\ settling = [s \in Settlers |-> NoSettlement]

Next ==
    \/ Tick \/ OpenDueGameweeks \/ LockDueGameweeks \/ Restart
    \/ \E q \in Requests : \/ Refuse(q) \/ Clear(q) \/ Commit(q)
                           \/ \E m \in Members, f \in Fixtures, b \in Bets : Submit(q, m, f, b)
    \/ \E s \in Sweepers : SweepBegins(s) \/ SettleSelects(s, results)
    \/ \E s \in Operators : \/ OperatorBegins(s)
                            \/ \E R \in SUBSET Fixtures : SettleSelects(s, R)
    \/ \E s \in Settlers : SettleCounts(s) \/ SettleCommits(s)
    \/ \E f \in Fixtures : Result(f) \/ LinkFixture(f) \/ DropVoidedFixture(f)
    \/ \E s \in Scopes : ApplyPickScopeChange(s)
    \/ \E p \in Periods : RederiveClaimPeriods(p)
    \/ \E m \in Members : Leave(m) \/ Join(m)

Spec == Init /\ [][Next]_vars

(* The scheduler runs every job again and again, the provider client has a  *)
(* timeout, every played fixture gets its result in the end, a transaction  *)
(* once begun is carried on, other settlements do not keep a sweep from its *)
(* select every time, and there is an end to restarts.                      *)
Fairness ==
    /\ WF_vars(Tick) /\ WF_vars(LockDueGameweeks)
    /\ \A f \in Fixtures : WF_vars(Result(f))
    /\ \A q \in Requests : WF_vars(Refuse(q) \/ Clear(q)) /\ WF_vars(Commit(q))
    /\ \A s \in Sweepers : WF_vars(SweepBegins(s)) /\ SF_vars(SettleSelects(s, results))
    /\ \A s \in Settlers : WF_vars(SettleCounts(s)) /\ WF_vars(SettleCommits(s))
    /\ <>[][~Restart]_vars

FairSpec == Spec /\ Fairness

----------------------------------------------------------------------------
(* Properties                                                               *)

(* Every column holds a value of its type, and a free slot nothing.         *)
TypeOK ==
    /\ now \in 0..LastTick
    /\ status \in {"scheduled", "open", "locked", "settled"}
    /\ period \in Periods
    /\ card \subseteq Fixtures
    /\ scope \in Scopes
    /\ active \subseteq Members
    /\ picks \in [Members -> PickRow \cup {NoPick}]
    /\ results \subseteq Fixtures
    /\ requests \in [Requests -> Submission \cup {NoRequest}]
    /\ settling \in [Settlers -> Settlement]

(* The land-grab: however submissions race, no two members ever hold the    *)
(* same selection of the round (models/pick.py, selection key).             *)
DistinctSelections ==
    \A m, o \in Holders :
        m # o => \/ picks[m].fixture # picks[o].fixture
                 \/ picks[m].bet # picks[o].bet

(* In a league on the fixture rule no two members hold the same game while  *)
(* it is being played for (models/pick.py, pick_scope).                     *)
FixtureRule ==
    scope = "fixture" =>
        \A m, o \in Pending : m # o => picks[m].fixture # picks[o].fixture

(* A round flips to settled once nothing is pending, and nothing is pending *)
(* on it afterwards: a pick that slipped in later would never be scored,    *)
(* since neither the sweep nor an operator may settle a settled round.      *)
SettledRoundIsDecided == status = "settled" => Pending = {}

(* A scored pick is history: no submission, leaver, refresh or later sweep  *)
(* moves, unscores or removes it.                                           *)
ScoredPicksStand ==
    [][\A m \in Holders : picks[m].state = "scored" => picks'[m] = picks[m]]_vars

(* "A member who leaves a league ... gives up their unlocked picks": a claim *)
(* on a round that has not locked belongs to a member                       *)
(* (release_unlocked_picks).                                                *)
LeaversHoldNoClaim == Unlocked(status, period, now) => Holders \subseteq active

(* The promise of Claims: a pick row read as the selection it claims.       *)
HeldBar == [m \in Members |->
    IF m \in Holders THEN <<picks[m].fixture, picks[m].bet>> ELSE NoPick]
DecidedBar == status = "settled"

Promise == INSTANCE Claims WITH
    Selections <- Fixtures \X Bets, Nothing <- NoPick, held <- HeldBar, decided <- DecidedBar

(* The round keeps the promise: every step grants one free selection, gives *)
(* claims up, decides the round, or changes no claim.                       *)
KeepsThePromise == Promise!ClaimsSpec

(* The league around the round: who is in it, who has picked, and whether   *)
(* picks are still taken.                                                   *)
League == INSTANCE Coupon WITH
    roster <- active, picked <- Holders, claimable <- Unlocked(status, period, now)

(* No submission that has passed its second look belongs to somebody        *)
(* outside the league.  The membership was checked when it was accepted and *)
(* is not checked again, so a departure at any moment from there to the     *)
(* commit breaks this, one during the await of the price too.               *)
NoStrangerIsCleared == \A q \in Cleared : requests[q].member \in active

(* Short of such a submission, the round moves the coupon as                *)
(* RoundCompletion takes it to be moved.                                    *)
MovesTheCoupon == []NoStrangerIsCleared => League!CouponSpec

(* The one way to a claim of somebody who left: a submission that was       *)
(* accepted while its member belonged, and cleared, is written after the    *)
(* departure, whether that came before its second look or after it.         *)
BrokenByALateCommitOnly ==
    [][LeaversHoldNoClaim /\ ~LeaversHoldNoClaim'
           => \E q \in Cleared : requests[q].member \notin active /\ Commit(q)]_vars

(* Once no pending picks remain, the round flips to settled: a sweep takes  *)
(* up the rounds something is pending on and the rounds nobody picked on    *)
(* (settle_gameweek, _settle_empty_rounds), and between the two no round is *)
(* left out, scored in part or in full.                                     *)
SweepReachesEveryRound == status # "settled" => Pending # {} \/ Holders = {}

(* Every round is settled in the end, the round nobody picked on included.  *)
RoundSettles == <>(status = "settled")
=============================================================================
