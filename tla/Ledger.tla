------------------------------- MODULE Ledger -------------------------------
(* Pay to pick: what the members of one league owe for its rounds.          *)
(*                                                                          *)
(* Rounds are numbered by date.  Entries are never changed, so what a       *)
(* member's entries on a round come to is kept as two numbers: the due as   *)
(* it was charged, and what of it still stands after the reversals.         *)
(* Payments, adjustments and cash-outs meet in one credit per member.       *)
(* The opening of a round reads the roster before it writes the dues, and a *)
(* pick passes the gate long before it writes: what commits in between is   *)
(* what this module is about.                                               *)
EXTENDS Integers, FiniteSets, Functions

CONSTANTS
    Members,   \* profiles that may belong to the league
    Weeks,     \* the rounds are 1 .. Weeks, in date order
    Fees,      \* the fees a site admin may set
    Season,    \* the rounds of the season on show
    MaxCredit, \* bound on the credit of a member
    MaxFlights,\* bound on the jobs and requests in flight at a time
    MaxEdits   \* bound on the edits of the fee

ASSUME MembersAssumption == IsFiniteSet(Members)
ASSUME FeeAssumption == Fees \subseteq Nat \ {0}
ASSUME WeeksAssumption == Weeks \in Nat \ {0} /\ Season \subseteq 1 .. Weeks
ASSUME BoundAssumption == MaxCredit \in Nat /\ MaxFlights \in Nat /\ MaxEdits \in Nat

Rounds == 1 .. Weeks
NoFee == 0                \* leagues.entry_fee_pence is null
Charges == Fees \cup {NoFee}

VARIABLES
    fee,      \* the league's fee, or NoFee
    edits,    \* times it has been edited
    active,   \* active members
    former,   \* members whose membership ended
    label,    \* gameweeks.status of each round; "locked" covers settled by its results,
              \* and "void" is settled by hand, scoring nothing
    clock,    \* where the clock stands on each round
    due,      \* the round_due entry of each member on each round, 0 when there is none
    owed,     \* what stands of it, net of its reversals
    credit,   \* payments and adjustments, less cash-outs
    pick,     \* "none", "free", or "priced": the round carried a fee when it was made
    opening,  \* the opening in flight: what it charges on which rounds, and whom
    asked,    \* each member's submission between the gate and its write
    repaying, \* each member's cash-out between the balance read and its write
    excused   \* (history) pairs no opening or joining was in a position to charge, until
              \* the round locks

book == <<due, owed, credit>>
timetable == <<label, clock>>
flights == <<opening, asked, repaying>>
ledgerVars == <<fee, edits, active, former, label, clock, due, owed, credit, pick, opening, asked,
                repaying, excused>>

Pickable == {"scheduled", "open"}
NoOpening == [charge |-> <<>>, roster |-> {}]
NotAsked == [week |-> 0, fee |-> NoFee, label |-> "absent"]

----------------------------------------------------------------------------
(* Reading the ledger                                                       *)

(* _recorded_round_fee: the largest due anybody has on the round.           *)
Recorded(r) ==
    CHOOSE f \in {due[m][r] : m \in Members} \cup {NoFee} : \A m \in Members : due[m][r] =< f

(* round_fee: a due is fixed when the round opens; one still waiting to     *)
(* open will carry the league's fee.                                        *)
RoundFee(r, leagueFee, seen) ==
    IF leagueFee = NoFee THEN NoFee
    ELSE IF Recorded(r) # NoFee THEN Recorded(r)
    ELSE IF seen = "scheduled" THEN leagueFee ELSE NoFee

OwedThrough(m, last) ==
    LET sum[r \in 0 .. Weeks] == IF r = 0 THEN 0 ELSE sum[r - 1] + owed[m][r] IN sum[last]

Balance(m) == credit[m] - OwedThrough(m, Weeks)

(* fee_standings: while a round can be picked it counts at its fee,         *)
(* whatever the member's own entries say.                                   *)
DueHere(m, r) == IF label[r] \in Pickable THEN RoundFee(r, fee, label[r]) ELSE owed[m][r]

OwedToPick(m, r) ==
    LET through == OwedThrough(m, r - 1) + DueHere(m, r)
    IN  IF fee # NoFee /\ through > credit[m] THEN through - credit[m] ELSE 0

AtLeastZero(n) == IF n > 0 THEN n ELSE 0
Lesser(a, b) == IF a < b THEN a ELSE b

(* Mutant of Paid: every round is paid from the whole of the credit.        *)
PaidAfresh(m, r) == Lesser(owed[m][r], AtLeastZero(credit[m]))

(* allocate: credit clears the oldest dues first.                           *)
Paid(m, r) == Lesser(owed[m][r], AtLeastZero(AtLeastZero(credit[m]) - OwedThrough(m, r - 1)))

TotalOver(S, Amount(_, _)) ==
    SumFunction([pair \in Members \X S |-> Amount(pair[1], pair[2])])

SeasonPot == TotalOver(Season, Paid)

TotalToDate == LET Standing(m, r) == owed[m][r] IN TotalOver(Season, Standing)

----------------------------------------------------------------------------
(* Writing dues                                                             *)

(* ensure_round_due: the due itself the first time; afterwards an entry     *)
(* opposite to the reversal, for the amount of the due, if nothing stands.  *)
Owing(m, r, amount) ==
    IF due[m][r] = 0 THEN amount ELSE IF owed[m][r] > 0 THEN owed[m][r] ELSE due[m][r]

Charged(m, r, amount) == IF due[m][r] = 0 THEN amount ELSE due[m][r]

(* due and owed after each member has been made to owe what amounts[m][r]   *)
(* says, 0 being nothing.                                                   *)
Charge(amounts) ==
    /\ due' = [m \in Members |-> [r \in Rounds |->
                  IF amounts[m][r] = 0 THEN due[m][r] ELSE Charged(m, r, amounts[m][r])]]
    /\ owed' = [m \in Members |-> [r \in Rounds |->
                  IF amounts[m][r] = 0 THEN owed[m][r] ELSE Owing(m, r, amounts[m][r])]]

(* A reversal for whatever stands on the pairs of S.                        *)
Reverse(S) ==
    owed' = [m \in Members |-> [r \in Rounds |-> IF <<m, r>> \in S THEN 0 ELSE owed[m][r]]]

InFlight == Cardinality({m \in Members : asked[m] # NotAsked})
            + Cardinality({m \in Members : repaying[m] # 0})
            + (IF opening = NoOpening THEN 0 ELSE 1)

TakesOff == InFlight < MaxFlights

----------------------------------------------------------------------------
(* Rounds                                                                   *)

LedgerTick(r) ==
    /\ \/ /\ clock[r] = "ahead"
          /\ \A q \in 1 .. r - 1 : clock[q] # "ahead"
          /\ clock' = [clock EXCEPT ![r] = "playing"]
          /\ UNCHANGED excused
       \/ /\ clock[r] = "playing"
          /\ \A q \in 1 .. r - 1 : clock[q] = "past"
          /\ clock' = [clock EXCEPT ![r] = "past"]
          /\ excused' = excused \ (Members \X {r})
    /\ UNCHANGED <<fee, edits, active, former, label, book, pick, flights>>

(* sync_slate finds a round that announces its opening for later.           *)
Discover(r) ==
    /\ label[r] = "absent"
    /\ clock[r] = "ahead"
    /\ label' = [label EXCEPT ![r] = "scheduled"]
    /\ UNCHANGED <<fee, edits, active, former, clock, book, pick, flights, excused>>

(* Rounds an opening moves: announced ones whose hour has come, and those   *)
(* sync_slate discovers already open.                                       *)
DueToOpen == {r \in Rounds : label[r] \in {"absent", "scheduled"} /\ clock[r] = "playing"}

(* record_round_dues: the amount is the one recorded already if any is.     *)
OpeningReads ==
    /\ opening = NoOpening
    /\ TakesOff
    /\ DueToOpen # {}
    /\ opening' = [charge |-> [r \in DueToOpen |->
                       IF fee = NoFee THEN NoFee
                       ELSE IF Recorded(r) # NoFee THEN Recorded(r) ELSE fee],
                   roster |-> active]
    /\ UNCHANGED <<fee, edits, active, former, timetable, book, pick, asked, repaying, excused>>

(* The opening's transaction writes a due per member it read, and commits.  *)
OpeningCommits ==
    /\ opening # NoOpening
    /\ LET opened == DOMAIN opening.charge
           amounts == [m \in Members |-> [r \in Rounds |->
                          IF r \in opened /\ m \in opening.roster THEN opening.charge[r] ELSE 0]]
       IN  /\ label' = [r \in Rounds |-> IF r \in opened THEN "open" ELSE label[r]]
           /\ Charge(amounts)
           /\ excused' = excused \cup {p \in Members \X opened : amounts[p[1]][p[2]] = 0}
    /\ opening' = NoOpening
    /\ UNCHANGED <<fee, edits, active, former, clock, credit, pick, asked, repaying>>

(* The opening flushed its label before it read the roster: whoever else    *)
(* writes the row waits for it.                                             *)
RowFree(r) == r \notin DOMAIN opening.charge

LockLabel(r) ==
    /\ RowFree(r)
    /\ label[r] \in Pickable
    /\ clock[r] = "past"
    /\ label' = [label EXCEPT ![r] = "locked"]
    /\ UNCHANGED <<fee, edits, active, former, clock, book, pick, flights, excused>>

(* A site admin voids a round that has locked and cannot score.             *)
VoidRound(r) ==
    /\ RowFree(r)
    /\ label[r] \in Pickable \cup {"locked"}
    /\ clock[r] = "past"
    /\ Reverse(Members \X {r})
    /\ label' = [label EXCEPT ![r] = "void"]
    /\ UNCHANGED <<fee, edits, active, former, clock, due, credit, pick, flights, excused>>

(* retire_stranded_rounds: a round nobody has picked on is withdrawn.       *)
Withdraw(r) ==
    /\ RowFree(r)
    /\ label[r] \in Pickable
    /\ clock[r] # "past"
    /\ \A m \in Members : pick[m][r] = "none"
    /\ Reverse(Members \X {r})
    /\ label' = [label EXCEPT ![r] = "withdrawn"]
    /\ UNCHANGED <<fee, edits, active, former, clock, due, credit, pick, flights, excused>>

----------------------------------------------------------------------------
(* Membership                                                               *)

(* update_league: the fee is edited by a site admin.                        *)
EditFee(f) ==
    /\ f # fee
    /\ edits < MaxEdits
    /\ fee' = f
    /\ edits' = edits + 1
    /\ UNCHANGED <<active, former, timetable, book, pick, flights, excused>>

Labelled(r) == label[r] = "open" /\ clock[r] # "past"

(* charge_open_rounds_on_join                                               *)
JoinLeague(m) ==
    /\ m \notin active
    /\ active' = active \cup {m}
    /\ former' = former \ {m}
    /\ LET owes == {r \in Rounds : Labelled(r) /\ Recorded(r) # NoFee /\ fee # NoFee}
       IN  /\ Charge([[o \in Members |-> [r \in Rounds |-> 0]] EXCEPT
                         ![m] = [r \in Rounds |-> IF r \in owes THEN Recorded(r) ELSE 0]])
           /\ excused' = (excused \ ({m} \X owes)) \cup ({m} \X {r \in Rounds \ owes : Labelled(r)})
    /\ UNCHANGED <<fee, edits, timetable, credit, pick, flights>>

(* Mutant of Unlocked: rounds that still carry the label, clock or no clock.*)
StillLabelled == {r \in Rounds : label[r] \in Pickable}

(* Rounds whose dues and picks a departure gives up.                        *)
UnlockedRounds == {r \in Rounds : label[r] \in Pickable /\ clock[r] # "past"}

(* Mutant of LeaveLeague: dues go by the label, picks by the clock.         *)
LeaveByLabel(m) ==
    /\ m \in active
    /\ active' = active \ {m}
    /\ former' = former \cup {m}
    /\ Reverse({m} \X StillLabelled)
    /\ pick' = [pick EXCEPT ![m] = [r \in Rounds |-> IF r \in UnlockedRounds THEN "none" ELSE @[r]]]
    /\ UNCHANGED <<fee, edits, timetable, due, credit, flights, excused>>

(* release_unlocked_picks, with the dues first: the pick and the due go     *)
(* together.                                                                *)
LeaveLeague(m) ==
    /\ m \in active
    /\ active' = active \ {m}
    /\ former' = former \cup {m}
    /\ Reverse({m} \X UnlockedRounds)
    /\ pick' = [pick EXCEPT ![m] = [r \in Rounds |-> IF r \in UnlockedRounds THEN "none" ELSE @[r]]]
    /\ UNCHANGED <<fee, edits, timetable, due, credit, flights, excused>>

----------------------------------------------------------------------------
(* Picking                                                                  *)

(* submit_pick up to the provider call: the clock and the paid-up gate, on  *)
(* rows the session keeps.                                                  *)
AskToPick(m, r) ==
    /\ asked[m] = NotAsked
    /\ TakesOff
    /\ m \in active
    /\ label[r] \in Pickable
    /\ clock[r] = "playing"
    /\ OwedToPick(m, r) = 0
    /\ asked' = [asked EXCEPT ![m] = [week |-> r, fee |-> fee, label |-> label[r]]]
    /\ UNCHANGED <<fee, edits, active, former, timetable, book, pick, opening, repaying, excused>>

(* After the provider answered: record_due_on_pick and the pick commit      *)
(* together, unless the deadline passed or the round is gone.               *)
WritePick(m) ==
    /\ asked[m] # NotAsked
    /\ LET r == asked[m].week
           amount == RoundFee(r, asked[m].fee, asked[m].label)
       IN  IF clock[r] = "playing" /\ label[r] # "withdrawn"
           THEN /\ Charge([[o \in Members |-> [q \in Rounds |-> 0]] EXCEPT ![m][r] = amount])
                /\ pick' = [pick EXCEPT ![m][r] = IF amount # NoFee THEN "priced" ELSE "free"]
           ELSE UNCHANGED <<due, owed, pick>>
    /\ asked' = [asked EXCEPT ![m] = NotAsked]
    /\ UNCHANGED <<fee, edits, active, former, timetable, credit, opening, repaying, excused>>

----------------------------------------------------------------------------
(* Money                                                                    *)

(* Entries are for people who are, or were, members.                        *)
HasMemberRow(m) == m \in active \cup former

(* A payment through the link, cash, or an adjustment.                      *)
Record(m, amount) ==
    /\ HasMemberRow(m)
    /\ credit[m] + amount \in -1 .. MaxCredit
    /\ credit' = [credit EXCEPT ![m] = @ + amount]
    /\ UNCHANGED <<fee, edits, active, former, timetable, due, owed, pick, flights, excused>>

(* record_cash_out: the balance is read ...                                 *)
CashOutReads(m, amount) ==
    /\ repaying[m] = 0
    /\ TakesOff
    /\ HasMemberRow(m)
    /\ amount =< AtLeastZero(Balance(m))
    /\ repaying' = [repaying EXCEPT ![m] = amount]
    /\ UNCHANGED <<fee, edits, active, former, timetable, book, pick, opening, asked, excused>>

(* ... and the entry written, with nothing held in between.                 *)
CashOutWrites(m) ==
    /\ repaying[m] # 0
    /\ credit' = [credit EXCEPT ![m] = @ - repaying[m]]
    /\ repaying' = [repaying EXCEPT ![m] = 0]
    /\ UNCHANGED <<fee, edits, active, former, timetable, due, owed, pick, opening, asked, excused>>

----------------------------------------------------------------------------

LedgerInit ==
    /\ fee \in Charges /\ edits = 0
    /\ active \in SUBSET Members /\ former = {}
    /\ label = [r \in Rounds |-> "absent"]
    /\ clock = [r \in Rounds |-> "ahead"]
    /\ due = [m \in Members |-> [r \in Rounds |-> 0]]
    /\ owed = due
    /\ credit = [m \in Members |-> 0]
    /\ pick = [m \in Members |-> [r \in Rounds |-> "none"]]
    /\ opening = NoOpening
    /\ asked = [m \in Members |-> NotAsked]
    /\ repaying = [m \in Members |-> 0]
    /\ excused = {}

LedgerNext ==
    \/ OpeningReads
    \/ OpeningCommits
    \/ \E r \in Rounds : \/ LedgerTick(r)
                         \/ Discover(r)
                         \/ LockLabel(r)
                         \/ VoidRound(r)
                         \/ Withdraw(r)
    \/ \E f \in Charges : EditFee(f)
    \/ \E m \in Members : \/ JoinLeague(m)
                          \/ LeaveLeague(m)
                          \/ WritePick(m)
                          \/ CashOutWrites(m)
                          \/ \E r \in Rounds : AskToPick(m, r)
                          \/ \E amount \in {-1, 1} : Record(m, amount)
                          \/ \E amount \in 1 .. MaxCredit : CashOutReads(m, amount)

LedgerSpec == LedgerInit /\ [][LedgerNext]_ledgerVars

----------------------------------------------------------------------------
(* Nobody holds a pick the gate counted a fee for without owing it, until   *)
(* the round is voided: the pick and the due come and go together           *)
(* (record_due_on_pick, release_unlocked_picks).  And every active member   *)
(* owes a round that opened with a fee, whether they pick or not, save      *)
(* those neither the opening nor their own joining was in a position to     *)
(* charge (record_round_dues, charge_open_rounds_on_join).                  *)
DuesAreOwed ==
    \A m \in Members, r \in Rounds :
        /\ pick[m][r] = "priced" /\ label[r] # "void" => owed[m][r] > 0
        /\ m \in active /\ Labelled(r) /\ <<m, r>> \notin excused => owed[m][r] > 0

(* The pot shown to members never counts a penny twice: no member's rounds, *)
(* this season's and the arrears before it, are paid from more than that    *)
(* member's credit, and the pot is within what the season's rounds cost     *)
(* (allocate, season_pot, league_money).                                    *)
PotIsCovered ==
    /\ \A m \in Members : SumFunction([r \in Rounds |-> Paid(m, r)]) =< AtLeastZero(credit[m])
    /\ SeasonPot =< TotalToDate
=============================================================================
