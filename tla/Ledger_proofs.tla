---------------------------- MODULE Ledger_proofs ----------------------------
(* Dues are owed and the pot is covered, for any members, rounds, fees and  *)
(* requests in flight.                                                      *)
EXTENDS Ledger, FiniteSetTheorems, TLAPS

Labels == {"absent", "scheduled", "open", "locked", "void", "withdrawn"}
Amounts == [Members -> [Rounds -> Nat]]

LedgerTypeOK ==
    /\ fee \in Charges /\ edits \in Nat
    /\ active \in SUBSET Members /\ former \in SUBSET Members
    /\ label \in [Rounds -> Labels]
    /\ clock \in [Rounds -> {"ahead", "playing", "past"}]
    /\ due \in Amounts /\ owed \in Amounts
    /\ credit \in [Members -> Int]
    /\ pick \in [Members -> [Rounds -> {"none", "free", "priced"}]]
    /\ DOMAIN opening.charge \subseteq Rounds
    /\ \A r \in DOMAIN opening.charge : opening.charge[r] \in Nat
    /\ opening.roster \subseteq Members
    /\ asked \in [Members -> [week : Rounds \cup {0}, fee : Charges, label : Labels]]
    /\ \A m \in Members : asked[m] # NotAsked => asked[m].week \in Rounds
    /\ repaying \in [Members -> Nat]
    /\ excused \subseteq Members \X Rounds

(* Between its read and its commit an opening has its rounds to itself:     *)
(* none of them has opened.                                                 *)
OpeningHolds == \A r \in DOMAIN opening.charge : label[r] \in {"absent", "scheduled"}

----------------------------------------------------------------------------
(* The largest due on a round.                                              *)

LEMMA FiniteSetHasLargest ==
    ASSUME NEW S \in SUBSET Nat, IsFiniteSet(S), S # {}
    PROVE  \E x \in S : \A y \in S : y =< x
  <1> DEFINE Without == {U \in SUBSET S : U # {} /\ ~ \E x \in U : \A y \in U : y =< x}
  <1> SUFFICES ASSUME Without # {}
               PROVE  FALSE
    OBVIOUS
  <1>1. IsWellFoundedOn(StrictSubsetOrdering(S), SUBSET S)
    BY FS_StrictSubsetOrderingWellFounded, FS_FiniteSubsetsOfFinite
  <1>2. PICK U \in Without : \A V \in Without : <<V, U>> \notin StrictSubsetOrdering(S)
    BY <1>1, WFMin
  <1>3. PICK u \in U : TRUE
    OBVIOUS
  <1>4. U \ {u} # {}
    BY <1>3
  <1>5. <<U \ {u}, U>> \in StrictSubsetOrdering(S)
    BY <1>3 DEF StrictSubsetOrdering
  <1>6. U \ {u} \notin Without
    BY <1>2, <1>5
  <1>7. PICK v \in U \ {u} : \A y \in U \ {u} : y =< v
    BY <1>4, <1>6
  <1>8. \E x \in U : \A y \in U : y =< x
    <2>1. u \in Nat /\ v \in Nat /\ U \subseteq Nat
      BY <1>3
    <2>2. CASE u =< v
      BY <1>7, <2>1, <2>2
    <2>3. CASE v =< u
      BY <1>3, <1>7, <2>1, <2>3
    <2> QED
      BY <2>1, <2>2, <2>3
  <1> QED
    BY <1>8

LEMMA RecordedIsLargest ==
    ASSUME LedgerTypeOK, NEW r \in Rounds
    PROVE  /\ Recorded(r) \in Nat
           /\ \A m \in Members : due[m][r] =< Recorded(r)
  <1> DEFINE dues == {due[m][r] : m \in Members}
             f == [m \in Members |-> due[m][r]]
  <1>1. dues \in SUBSET Nat
    BY DEF LedgerTypeOK, Amounts
  <1>2. f \in Surjection(Members, dues)
    BY DEF Surjection
  <1>3. IsFiniteSet(dues \cup {NoFee})
    <2> HIDE DEF f, dues
    <2>1. IsFiniteSet(dues)
      BY <1>2, FS_Surjection, MembersAssumption
    <2> QED
      BY <2>1, FS_AddElement
  <1>4. dues \cup {NoFee} \in SUBSET Nat /\ dues \cup {NoFee} # {}
    BY <1>1 DEF NoFee
  <1>5. \E x \in dues \cup {NoFee} : \A y \in dues \cup {NoFee} : y =< x
    <2> HIDE DEF f, dues
    <2> QED
      BY <1>3, <1>4, FiniteSetHasLargest
  <1>6. \E x \in dues \cup {NoFee} : \A m \in Members : due[m][r] =< x
    BY <1>5
  <1> QED
    BY <1>4, <1>6 DEF Recorded

LEMMA RoundFeeIsFee ==
    ASSUME LedgerTypeOK, NEW r \in Rounds, NEW f \in Charges, NEW l
    PROVE  RoundFee(r, f, l) \in Nat
  BY RecordedIsLargest, FeeAssumption DEF RoundFee, Charges, NoFee

----------------------------------------------------------------------------
(* Charging and reversing.                                                  *)

(* What is made to be owed is owed; whatever is not is left alone.          *)
LEMMA ChargeOwes ==
    ASSUME LedgerTypeOK, NEW amounts \in Amounts, Charge(amounts)
    PROVE  /\ due' \in Amounts /\ owed' \in Amounts
           /\ \A m \in Members, r \in Rounds :
                  /\ amounts[m][r] > 0 => owed'[m][r] > 0
                  /\ owed[m][r] > 0 => owed'[m][r] > 0
  <1>1. /\ due' = [m \in Members |-> [r \in Rounds |->
                  IF amounts[m][r] = 0 THEN due[m][r] ELSE Charged(m, r, amounts[m][r])]]
        /\ owed' = [m \in Members |-> [r \in Rounds |->
                  IF amounts[m][r] = 0 THEN owed[m][r] ELSE Owing(m, r, amounts[m][r])]]
    BY DEF Charge
  <1>2. \A m \in Members, r \in Rounds :
            /\ amounts[m][r] \in Nat /\ due[m][r] \in Nat /\ owed[m][r] \in Nat
            /\ Charged(m, r, amounts[m][r]) \in Nat
            /\ Owing(m, r, amounts[m][r]) \in Nat
            /\ amounts[m][r] # 0 => Owing(m, r, amounts[m][r]) > 0
    BY DEF LedgerTypeOK, Amounts, Charged, Owing
  <1>3. due' \in Amounts /\ owed' \in Amounts
    BY <1>1, <1>2 DEF Amounts
  <1>4. ASSUME NEW m \in Members, NEW r \in Rounds
        PROVE  /\ amounts[m][r] > 0 => owed'[m][r] > 0
               /\ owed[m][r] > 0 => owed'[m][r] > 0
    BY <1>1, <1>2
  <1> QED
    BY <1>3, <1>4

LEMMA ReverseGivesUp ==
    ASSUME LedgerTypeOK, NEW S, Reverse(S)
    PROVE  /\ owed' \in Amounts
           /\ \A m \in Members, r \in Rounds : <<m, r>> \notin S => owed'[m][r] = owed[m][r]
  BY DEF LedgerTypeOK, Amounts, Reverse

(* The one due of a pick, the dues of one who joins, those of an opening.   *)
LEMMA AmountsCharged ==
    ASSUME LedgerTypeOK
    PROVE  /\ \A m \in Members, r \in Rounds, n \in Nat :
                  LET amounts == [[o \in Members |-> [q \in Rounds |-> 0]] EXCEPT ![m][r] = n]
                  IN  amounts \in Amounts /\ amounts[m][r] = n
           /\ \A m \in Members, S \in SUBSET Rounds :
                  LET amounts == [[o \in Members |-> [r \in Rounds |-> 0]] EXCEPT
                                     ![m] = [r \in Rounds |-> IF r \in S THEN Recorded(r) ELSE 0]]
                  IN  amounts \in Amounts /\ \A r \in S : amounts[m][r] = Recorded(r)
           /\ [m \in Members |-> [r \in Rounds |->
                  IF r \in DOMAIN opening.charge /\ m \in opening.roster
                  THEN opening.charge[r] ELSE 0]] \in Amounts
  BY RecordedIsLargest DEF LedgerTypeOK, Amounts

----------------------------------------------------------------------------
(* Types.                                                                   *)

LEMMA LedgerInitInv == LedgerInit => LedgerTypeOK /\ OpeningHolds /\ DuesAreOwed
  <1> SUFFICES ASSUME LedgerInit
               PROVE  LedgerTypeOK /\ OpeningHolds /\ DuesAreOwed
    OBVIOUS
  <1>1. opening.charge = <<>> /\ opening.roster = {} /\ DOMAIN opening.charge = {}
    BY DEF LedgerInit, NoOpening
  <1>2. asked \in [Members -> [week : Rounds \cup {0}, fee : Charges, label : Labels]]
    BY DEF LedgerInit, NotAsked, Charges, NoFee, Labels
  <1>3. due \in Amounts /\ owed \in Amounts
    BY DEF LedgerInit, Amounts
  <1>4. LedgerTypeOK
    BY <1>1, <1>2, <1>3 DEF LedgerInit, LedgerTypeOK, Charges, Labels
  <1> QED
    BY <1>1, <1>4 DEF LedgerInit, OpeningHolds, DuesAreOwed, Labelled

LEMMA LedgerTypeStep ==
    ASSUME LedgerTypeOK, [LedgerNext]_ledgerVars
    PROVE  LedgerTypeOK'
  <1> USE DEF LedgerTypeOK, book, timetable, flights
  <1>1. NoOpening.charge = <<>> /\ NoOpening.roster = {} /\ DOMAIN NoOpening.charge = {}
    BY DEF NoOpening
  <1>2. NotAsked \in [week : Rounds \cup {0}, fee : Charges, label : Labels]
    BY DEF NotAsked, Charges, NoFee, Labels
  <1>3. CASE OpeningReads
    <2>1. opening'.charge = [r \in DueToOpen |-> IF fee = NoFee THEN NoFee
                                ELSE IF Recorded(r) # NoFee THEN Recorded(r) ELSE fee]
          /\ opening'.roster = active
      BY <1>3 DEF OpeningReads
    <2>2. DueToOpen \subseteq Rounds
      BY DEF DueToOpen
    <2>3. fee \in Nat /\ NoFee \in Nat /\ \A r \in DueToOpen : Recorded(r) \in Nat
      BY <2>2, RecordedIsLargest, FeeAssumption DEF Charges, NoFee
    <2>4. /\ DOMAIN opening'.charge \subseteq Rounds
          /\ \A r \in DOMAIN opening'.charge : opening'.charge[r] \in Nat
          /\ opening'.roster \subseteq Members
      BY <2>1, <2>2, <2>3
    <2> QED
      BY <1>3, <2>4 DEF OpeningReads
  <1>4. CASE OpeningCommits
    <2> DEFINE opened == DOMAIN opening.charge
               amounts == [m \in Members |-> [r \in Rounds |->
                              IF r \in opened /\ m \in opening.roster
                              THEN opening.charge[r] ELSE 0]]
    <2>1. Charge(amounts) /\ amounts \in Amounts
      BY <1>4, AmountsCharged DEF OpeningCommits
    <2>2. due' \in Amounts /\ owed' \in Amounts
      <3> HIDE DEF amounts
      <3> QED
        BY <2>1, ChargeOwes
    <2>3. label' \in [Rounds -> Labels]
      BY <1>4 DEF OpeningCommits, Labels
    <2>4. excused' \subseteq Members \X Rounds
      BY <1>4 DEF OpeningCommits
    <2>5. opening' = NoOpening
      BY <1>4 DEF OpeningCommits
    <2>6. UNCHANGED <<fee, edits, active, former, clock, credit, pick, asked, repaying>>
      BY <1>4 DEF OpeningCommits
    <2> QED
      BY <1>1, <2>2, <2>3, <2>4, <2>5, <2>6
  <1>5. ASSUME NEW r \in Rounds, LedgerTick(r) \/ Discover(r) \/ LockLabel(r)
        PROVE  LedgerTypeOK'
    <2>1. label' \in [Rounds -> Labels]
      BY <1>5 DEF LedgerTick, Discover, LockLabel, Labels
    <2>2. clock' \in [Rounds -> {"ahead", "playing", "past"}] /\ excused' \subseteq Members \X Rounds
      BY <1>5 DEF LedgerTick, Discover, LockLabel
    <2>3. UNCHANGED <<fee, edits, active, former, book, pick, flights>>
      BY <1>5 DEF LedgerTick, Discover, LockLabel
    <2> QED
      BY <2>1, <2>2, <2>3
  <1>6. ASSUME NEW r \in Rounds, VoidRound(r) \/ Withdraw(r)
        PROVE  LedgerTypeOK'
    <2>1. label' \in [Rounds -> Labels] /\ owed' \in Amounts
      BY <1>6, ReverseGivesUp DEF VoidRound, Withdraw, Labels
    <2>2. UNCHANGED <<fee, edits, active, former, clock, due, credit, pick, flights, excused>>
      BY <1>6 DEF VoidRound, Withdraw
    <2> QED
      BY <2>1, <2>2
  <1>7. ASSUME NEW f \in Charges, EditFee(f)
        PROVE  LedgerTypeOK'
    BY <1>7 DEF EditFee
  <1>8. ASSUME NEW m \in Members, JoinLeague(m)
        PROVE  LedgerTypeOK'
    <2> DEFINE owes == {r \in Rounds : Labelled(r) /\ Recorded(r) # NoFee /\ fee # NoFee}
               amounts == [[o \in Members |-> [r \in Rounds |-> 0]] EXCEPT
                              ![m] = [r \in Rounds |-> IF r \in owes THEN Recorded(r) ELSE 0]]
    <2>1. Charge(amounts) /\ amounts \in Amounts
      <3>1. owes \in SUBSET Rounds
        OBVIOUS
      <3>2. Charge(amounts)
        BY <1>8 DEF JoinLeague
      <3> HIDE DEF owes
      <3> QED
        BY <3>1, <3>2, AmountsCharged
    <2>2. due' \in Amounts /\ owed' \in Amounts
      <3> HIDE DEF amounts
      <3> QED
        BY <2>1, ChargeOwes
    <2>3. excused' \subseteq Members \X Rounds
      BY <1>8 DEF JoinLeague
    <2>4. UNCHANGED <<fee, edits, timetable, credit, pick, flights>>
          /\ active' \subseteq Members /\ former' \subseteq Members
      BY <1>8 DEF JoinLeague
    <2> QED
      BY <2>2, <2>3, <2>4
  <1>9. ASSUME NEW m \in Members, LeaveLeague(m)
        PROVE  LedgerTypeOK'
    <2>1. owed' \in Amounts
      BY <1>9, ReverseGivesUp DEF LeaveLeague
    <2>2. pick' \in [Members -> [Rounds -> {"none", "free", "priced"}]]
      BY <1>9 DEF LeaveLeague
    <2>3. UNCHANGED <<fee, edits, timetable, due, credit, flights, excused>>
          /\ active' \subseteq Members /\ former' \subseteq Members
      BY <1>9 DEF LeaveLeague
    <2> QED
      BY <2>1, <2>2, <2>3
  <1>10. ASSUME NEW m \in Members, WritePick(m)
         PROVE  LedgerTypeOK'
    <2>1. /\ due' \in Amounts /\ owed' \in Amounts
          /\ pick' \in [Members -> [Rounds -> {"none", "free", "priced"}]]
      <3> DEFINE r == asked[m].week
                 amount == RoundFee(r, asked[m].fee, asked[m].label)
                 amounts == [[o \in Members |-> [q \in Rounds |-> 0]] EXCEPT ![m][r] = amount]
      <3>1. CASE UNCHANGED <<due, owed, pick>>
        BY <3>1
      <3>2. CASE /\ Charge(amounts)
                 /\ pick' = [pick EXCEPT ![m][r] = IF amount # NoFee THEN "priced" ELSE "free"]
        <4>1. r \in Rounds /\ asked[m].fee \in Charges
          BY <1>10 DEF WritePick
        <4>2. amount \in Nat
          BY <4>1, RoundFeeIsFee
        <4>3. amounts \in Amounts
          <5> HIDE DEF r, amount
          <5> QED
            BY <4>1, <4>2, AmountsCharged
        <4>4. due' \in Amounts /\ owed' \in Amounts
          <5> HIDE DEF amounts
          <5> QED
            BY <3>2, <4>3, ChargeOwes
        <4>5. pick' \in [Members -> [Rounds -> {"none", "free", "priced"}]]
          BY <3>2, <4>1
        <4> QED
          BY <4>4, <4>5
      <3> QED
        BY <1>10, <3>1, <3>2 DEF WritePick
    <2>2. asked' = [asked EXCEPT ![m] = NotAsked]
      BY <1>10 DEF WritePick
    <2>3. UNCHANGED <<fee, edits, active, former, timetable, credit, opening, repaying, excused>>
      BY <1>10 DEF WritePick
    <2> QED
      BY <1>2, <2>1, <2>2, <2>3
  <1>11. ASSUME NEW m \in Members, CashOutWrites(m)
         PROVE  LedgerTypeOK'
    BY <1>11 DEF CashOutWrites
  <1>12. ASSUME NEW m \in Members, NEW r \in Rounds, AskToPick(m, r)
         PROVE  LedgerTypeOK'
    <2>1. asked' = [asked EXCEPT ![m] = [week |-> r, fee |-> fee, label |-> label[r]]]
      BY <1>12 DEF AskToPick
    <2>2. UNCHANGED <<fee, edits, active, former, timetable, book, pick, opening, repaying, excused>>
      BY <1>12 DEF AskToPick
    <2> QED
      BY <2>1, <2>2
  <1>13. ASSUME NEW m \in Members, NEW amount \in {-1, 1}, Record(m, amount)
         PROVE  LedgerTypeOK'
    BY <1>13 DEF Record
  <1>14. ASSUME NEW m \in Members, NEW amount \in 1 .. MaxCredit, CashOutReads(m, amount)
         PROVE  LedgerTypeOK'
    BY <1>14, BoundAssumption DEF CashOutReads
  <1>15. CASE UNCHANGED ledgerVars
    BY <1>15 DEF ledgerVars
  <1> QED
    BY <1>3, <1>4, <1>5, <1>6, <1>7, <1>8, <1>9, <1>10, <1>11, <1>12, <1>13, <1>14, <1>15
    DEF LedgerNext

(* The ledger's type invariant: every due is a whole number of pence, and   *)
(* the largest of a round therefore exists.                                 *)
THEOREM LedgerTypes == LedgerSpec => []LedgerTypeOK
  BY LedgerInitInv, LedgerTypeStep, PTL DEF LedgerSpec

----------------------------------------------------------------------------
(* Dues.                                                                    *)

LEMMA OpeningStep ==
    ASSUME LedgerTypeOK, OpeningHolds, [LedgerNext]_ledgerVars
    PROVE  OpeningHolds'
  <1> USE DEF LedgerTypeOK, book, timetable, flights
  <1>1. CASE OpeningReads
    <2>1. DOMAIN opening'.charge = DueToOpen /\ label' = label
      BY <1>1 DEF OpeningReads
    <2> QED
      BY <2>1 DEF DueToOpen, OpeningHolds
  <1>2. CASE OpeningCommits
    <2>1. DOMAIN opening'.charge = {}
      BY <1>2 DEF OpeningCommits, NoOpening
    <2> QED
      BY <2>1 DEF OpeningHolds
  <1>3. ASSUME NEW r \in Rounds, Discover(r)
        PROVE  OpeningHolds'
    BY <1>3 DEF Discover, OpeningHolds
  <1>4. ASSUME NEW r \in Rounds, LockLabel(r) \/ VoidRound(r) \/ Withdraw(r)
        PROVE  OpeningHolds'
    BY <1>4 DEF LockLabel, VoidRound, Withdraw, RowFree, OpeningHolds
  <1>5. CASE UNCHANGED <<label, opening>>
    BY <1>5 DEF OpeningHolds
  <1> QED
    BY <1>1, <1>2, <1>3, <1>4, <1>5
    DEF LedgerNext, ledgerVars, LedgerTick, EditFee, JoinLeague, LeaveLeague, WritePick,
        CashOutWrites, AskToPick, Record, CashOutReads

(* A charge takes nothing away, so only what it makes newly due is in       *)
(* question: a pick just priced, a round just opened, a member just in.     *)
LEMMA ChargedStaysOwed ==
    ASSUME LedgerTypeOK, DuesAreOwed, NEW amounts \in Amounts, Charge(amounts),
           \A m \in Members, r \in Rounds :
               /\ pick'[m][r] = "priced" /\ pick[m][r] # "priced" => amounts[m][r] > 0
               /\ label[r] = "void" <=> label'[r] = "void"
               /\ m \in active' /\ Labelled(r)' /\ <<m, r>> \notin excused' =>
                      \/ amounts[m][r] > 0
                      \/ m \in active /\ Labelled(r) /\ <<m, r>> \notin excused
    PROVE  DuesAreOwed'
  BY ChargeOwes DEF DuesAreOwed

LEMMA DuesStep ==
    ASSUME LedgerTypeOK, OpeningHolds, DuesAreOwed, [LedgerNext]_ledgerVars
    PROVE  DuesAreOwed'
  <1> USE DEF book, timetable, flights
  <1>1. CASE OpeningCommits
    <2> DEFINE opened == DOMAIN opening.charge
               amounts == [m \in Members |-> [r \in Rounds |->
                              IF r \in opened /\ m \in opening.roster
                              THEN opening.charge[r] ELSE 0]]
    <2>1. Charge(amounts) /\ amounts \in Amounts
      BY <1>1, AmountsCharged DEF OpeningCommits
    <2>2. /\ label' = [r \in Rounds |-> IF r \in opened THEN "open" ELSE label[r]]
          /\ excused' = excused \cup {p \in Members \X opened : amounts[p[1]][p[2]] = 0}
          /\ UNCHANGED <<pick, active, clock>>
      BY <1>1 DEF OpeningCommits
    <2>3. ASSUME NEW r \in Rounds
          PROVE  label[r] = "void" <=> label'[r] = "void"
      BY <2>2 DEF OpeningHolds
    <2>4. ASSUME NEW m \in Members, NEW r \in Rounds,
                 m \in active', Labelled(r)', <<m, r>> \notin excused'
          PROVE  \/ amounts[m][r] > 0
                 \/ m \in active /\ Labelled(r) /\ <<m, r>> \notin excused
      <3>1. CASE r \in opened
        <4>1. amounts[m][r] # 0
          <5> HIDE DEF amounts
          <5> QED
            BY <2>2, <2>4, <3>1
        <4>2. amounts[m][r] \in Nat
          BY <2>1 DEF Amounts
        <4> QED
          BY <4>1, <4>2
      <3>2. CASE r \notin opened
        <4> HIDE DEF amounts
        <4> QED
          BY <2>2, <2>4, <3>2 DEF Labelled
      <3> QED
        BY <3>1, <3>2
    <2> HIDE DEF amounts
    <2> QED
      BY <2>1, <2>2, <2>3, <2>4, ChargedStaysOwed
  <1>2. ASSUME NEW r \in Rounds, LedgerTick(r)
        PROVE  DuesAreOwed'
    <2>1. UNCHANGED <<label, owed, pick, active>>
      BY <1>2 DEF LedgerTick
    <2>2. ASSUME NEW q \in Rounds, Labelled(q)'
          PROVE  Labelled(q) /\ \A m \in Members : <<m, q>> \in excused => <<m, q>> \in excused'
      BY <1>2, <2>1, <2>2 DEF LedgerTick, Labelled, LedgerTypeOK
    <2> QED
      BY <2>1, <2>2 DEF DuesAreOwed
  <1>3. ASSUME NEW r \in Rounds, Discover(r) \/ LockLabel(r)
        PROVE  DuesAreOwed'
    BY <1>3 DEF Discover, LockLabel, Pickable, DuesAreOwed, Labelled, LedgerTypeOK
  <1>4. ASSUME NEW r \in Rounds, VoidRound(r) \/ Withdraw(r)
        PROVE  DuesAreOwed'
    <2>1. /\ label'[r] \in {"void", "withdrawn"}
          /\ label'[r] = "withdrawn" => \A m \in Members : pick[m][r] = "none"
          /\ \A q \in Rounds \ {r} : label'[q] = label[q]
          /\ Reverse(Members \X {r}) /\ UNCHANGED <<pick, active, clock, excused>>
      BY <1>4 DEF VoidRound, Withdraw, LedgerTypeOK
    <2>2. \A m \in Members, q \in Rounds \ {r} : owed'[m][q] = owed[m][q]
      BY <2>1 DEF Reverse
    <2> QED
      BY <2>1, <2>2 DEF DuesAreOwed, Labelled
  <1>5. ASSUME NEW m \in Members, JoinLeague(m)
        PROVE  DuesAreOwed'
    <2> DEFINE owes == {r \in Rounds : Labelled(r) /\ Recorded(r) # NoFee /\ fee # NoFee}
               amounts == [[o \in Members |-> [r \in Rounds |-> 0]] EXCEPT
                              ![m] = [r \in Rounds |-> IF r \in owes THEN Recorded(r) ELSE 0]]
    <2>1. Charge(amounts) /\ amounts \in Amounts /\ \A r \in owes : amounts[m][r] = Recorded(r)
      <3>1. owes \in SUBSET Rounds
        OBVIOUS
      <3>2. Charge(amounts)
        BY <1>5 DEF JoinLeague
      <3> HIDE DEF owes
      <3> QED
        BY <3>1, <3>2, AmountsCharged
    <2>2. \A r \in owes : amounts[m][r] > 0
      BY <2>1, RecordedIsLargest DEF NoFee
    <2>3. /\ UNCHANGED <<label, clock, pick>> /\ active' = active \cup {m}
          /\ excused' = (excused \ ({m} \X owes)) \cup ({m} \X {r \in Rounds \ owes : Labelled(r)})
      BY <1>5 DEF JoinLeague
    <2>4. ASSUME NEW o \in Members, NEW r \in Rounds,
                 o \in active', Labelled(r)', <<o, r>> \notin excused'
          PROVE  \/ amounts[o][r] > 0
                 \/ o \in active /\ Labelled(r) /\ <<o, r>> \notin excused
      <3> HIDE DEF amounts, owes
      <3>1. Labelled(r)
        BY <2>3, <2>4 DEF Labelled
      <3>2. CASE o = m
        BY <2>2, <2>3, <2>4, <3>1, <3>2
      <3>3. CASE o # m
        BY <2>3, <2>4, <3>1, <3>3
      <3> QED
        BY <3>2, <3>3
    <2> HIDE DEF amounts
    <2> QED
      BY <2>1, <2>3, <2>4, ChargedStaysOwed
  <1>6. ASSUME NEW m \in Members, LeaveLeague(m)
        PROVE  DuesAreOwed'
    <2>1. /\ Reverse({m} \X UnlockedRounds) /\ active' = active \ {m}
          /\ UNCHANGED <<label, clock, excused>>
          /\ pick' = [pick EXCEPT ![m] = [r \in Rounds |-> IF r \in UnlockedRounds THEN "none" ELSE @[r]]]
      BY <1>6 DEF LeaveLeague
    <2>2. \A o \in Members, r \in Rounds :
              o # m \/ r \notin UnlockedRounds =>
                  owed'[o][r] = owed[o][r] /\ pick'[o][r] = pick[o][r]
      BY <2>1 DEF Reverse, LedgerTypeOK, UnlockedRounds
    <2>3. \A r \in UnlockedRounds : pick'[m][r] = "none"
      BY <2>1 DEF LedgerTypeOK, UnlockedRounds
    <2> QED
      BY <2>1, <2>2, <2>3 DEF DuesAreOwed, Labelled
  <1>7. ASSUME NEW m \in Members, WritePick(m)
        PROVE  DuesAreOwed'
    <2> DEFINE r == asked[m].week
               amount == RoundFee(r, asked[m].fee, asked[m].label)
               amounts == [[o \in Members |-> [q \in Rounds |-> 0]] EXCEPT ![m][r] = amount]
    <2>1. UNCHANGED <<label, clock, active, excused>>
      BY <1>7 DEF WritePick
    <2>2. CASE UNCHANGED <<due, owed, pick>>
      BY <2>1, <2>2 DEF DuesAreOwed, Labelled
    <2>3. CASE /\ Charge(amounts)
               /\ pick' = [pick EXCEPT ![m][r] = IF amount # NoFee THEN "priced" ELSE "free"]
      <3>1. r \in Rounds /\ asked[m].fee \in Charges
        BY <1>7 DEF WritePick, LedgerTypeOK
      <3>2. amount \in Nat
        BY <3>1, RoundFeeIsFee
      <3>3. amounts \in Amounts /\ amounts[m][r] = amount
        <4> HIDE DEF r, amount
        <4> QED
          BY <3>1, <3>2, AmountsCharged
      <3>4. ASSUME NEW o \in Members, NEW q \in Rounds,
                   pick'[o][q] = "priced", pick[o][q] # "priced"
            PROVE  amounts[o][q] > 0
        <4> HIDE DEF r, amount, amounts
        <4>1. o = m /\ q = r /\ amount # NoFee
          BY <2>3, <3>1, <3>4 DEF LedgerTypeOK
        <4> QED
          BY <3>2, <3>3, <4>1 DEF NoFee
      <3> HIDE DEF amounts
      <3> QED
        BY <2>1, <2>3, <3>3, <3>4, ChargedStaysOwed DEF Labelled
    <2> QED
      BY <1>7, <2>2, <2>3 DEF WritePick
  <1>8. CASE UNCHANGED <<label, clock, owed, pick, active, excused>>
    BY <1>8 DEF DuesAreOwed, Labelled
  <1> QED
    BY <1>1, <1>2, <1>3, <1>4, <1>5, <1>6, <1>7, <1>8
    DEF LedgerNext, ledgerVars, OpeningReads, EditFee, CashOutWrites, AskToPick, Record,
        CashOutReads

(* Nobody holds a pick the gate counted a fee for without owing it, and     *)
(* every active member owes an open round that carries a fee, save those    *)
(* neither its opening nor their own joining was in a position to charge    *)
(* (record_due_on_pick, release_unlocked_picks, record_round_dues,          *)
(* charge_open_rounds_on_join).                                             *)
THEOREM EveryDueIsOwed == LedgerSpec => []DuesAreOwed
  <1>1. LedgerInit => OpeningHolds /\ DuesAreOwed
    BY LedgerInitInv
  <1> QED
    BY <1>1, LedgerTypes, OpeningStep, DuesStep, PTL DEF LedgerSpec

----------------------------------------------------------------------------
(* A set of numbers has a least one.                                        *)
LEMMA NumbersHaveALeast ==
    ASSUME NEW S \in SUBSET Nat, S # {}
    PROVE  \E x \in S : \A y \in S : x =< y
  <1> DEFINE R == {ss \in Nat \X Nat : ss[1] < ss[2]}
  <1>1. R = OpToRel(<, Nat)
    BY DEF OpToRel
  <1>2. IsWellFoundedOn(R, Nat)
    BY <1>1, NatLessThanWellFounded, Zenon
  <1>3. PICK x \in S : \A y \in S : <<y, x>> \notin R
    <2> HIDE DEF R
    <2> QED
      BY <1>2, WFMin
  <1>4. ASSUME NEW y \in S
        PROVE  x =< y
    <2>1. x \in Nat /\ y \in Nat /\ <<y, x>> \notin R
      BY <1>3
    <2>2. ~ (y < x)
      BY <2>1
    <2> QED
      BY <2>1, <2>2
  <1> QED
    BY <1>4

(* What holds of 0, and of the next number whenever it holds of one, holds  *)
(* of all up to the last.                                                   *)
LEMMA UpToTheLast ==
    ASSUME NEW S \in SUBSET Nat, NEW last \in Nat, 0 \in S,
           \A k \in Nat : k \in S /\ k < last => k + 1 \in S
    PROVE  0 .. last \subseteq S
  <1> SUFFICES ASSUME (0 .. last) \ S # {}
               PROVE  FALSE
    OBVIOUS
  <1>1. PICK x \in (0 .. last) \ S : \A y \in (0 .. last) \ S : x =< y
    <2>1. (0 .. last) \ S \in SUBSET Nat
      OBVIOUS
    <2> QED
      BY <2>1, NumbersHaveALeast
  <1>2. x - 1 \in Nat /\ x - 1 < last /\ x - 1 < x
    BY <1>1
  <1>3. x - 1 \in S
    BY <1>1, <1>2
  <1> QED
    BY <1>1, <1>2, <1>3

----------------------------------------------------------------------------
(* A sum is what one of its terms adds to the sum of the rest.              *)

(* g is AddsOne of itself when g[U] is the sum of f over U, taken the way   *)
(* SumFunction takes it; and TermByTerm when the order does not matter.     *)
AddsOne(f, g, U) ==
    IF U = {} THEN 0 ELSE f[CHOOSE x \in U : TRUE] + g[U \ {CHOOSE x \in U : TRUE}]
PartialSums(S, f, g) == \A U \in SUBSET S : g[U] = AddsOne(f, g, U)
TermByTerm(S, f, g) == \A U \in SUBSET S : \A x \in U : g[U] = f[x] + g[U \ {x}]
Layer(S, k) == {U \in SUBSET S : Cardinality(U) =< k}

(* Sums of up to k terms give those of one term more.                       *)
LEMMA ALayerMore ==
    ASSUME NEW S, IsFiniteSet(S), NEW f \in [S -> Int], NEW k \in Nat,
           NEW g \in [Layer(S, k) -> Int], \A U \in Layer(S, k) : g[U] = AddsOne(f, g, U)
    PROVE  \E h \in [Layer(S, k + 1) -> Int] : \A U \in Layer(S, k + 1) : h[U] = AddsOne(f, h, U)
  <1> DEFINE h == [U \in Layer(S, k + 1) |-> AddsOne(f, g, U)]
  <1>1. ASSUME NEW U \in Layer(S, k + 1), U # {}
        PROVE  /\ (CHOOSE x \in U : TRUE) \in S
               /\ U \ {CHOOSE x \in U : TRUE} \in Layer(S, k)
    <2>1. (CHOOSE x \in U : TRUE) \in U /\ U \subseteq S
      BY <1>1 DEF Layer
    <2>2. IsFiniteSet(U) /\ Cardinality(U) \in Nat
      BY <2>1, FS_Subset, FS_CardinalityType
    <2>3. Cardinality(U \ {CHOOSE x \in U : TRUE}) = Cardinality(U) - 1
      BY <2>1, <2>2, FS_RemoveElement
    <2> QED
      BY <2>1, <2>2, <2>3 DEF Layer
  <1>2. \A U \in Layer(S, k) : U \in Layer(S, k + 1)
    <2> SUFFICES ASSUME NEW U \in Layer(S, k) PROVE U \in Layer(S, k + 1)
      OBVIOUS
    <2>1. U \in SUBSET S /\ Cardinality(U) =< k /\ Cardinality(U) \in Nat
      BY FS_Subset, FS_CardinalityType DEF Layer
    <2> QED
      BY <2>1 DEF Layer
  <1>3. \A U \in Layer(S, k) : h[U] = g[U]
    BY <1>2
  <1>4. ASSUME NEW U \in Layer(S, k + 1)
        PROVE  AddsOne(f, g, U) \in Int /\ AddsOne(f, g, U) = AddsOne(f, h, U)
    <2> HIDE DEF h
    <2>1. CASE U = {}
      BY <2>1 DEF AddsOne
    <2>2. CASE U # {}
      <3> DEFINE x == CHOOSE x \in U : TRUE
      <3>1. x \in S /\ U \ {x} \in Layer(S, k)
        BY <1>1, <2>2
      <3>2. h[U \ {x}] = g[U \ {x}] /\ f[x] \in Int /\ g[U \ {x}] \in Int
        BY <1>3, <3>1
      <3> QED
        BY <2>2, <3>2 DEF AddsOne
    <2> QED
      BY <2>1, <2>2
  <1>5. h \in [Layer(S, k + 1) -> Int]
    BY <1>4
  <1>6. \A U \in Layer(S, k + 1) : h[U] = AddsOne(f, h, U)
    BY <1>4
  <1> HIDE DEF h
  <1> QED
    BY <1>5, <1>6

(* Every family of numbers over a finite set has its partial sums.          *)
LEMMA PartialSumsExist ==
    ASSUME NEW S, IsFiniteSet(S), NEW f \in [S -> Int]
    PROVE  \E g \in [SUBSET S -> Int] : PartialSums(S, f, g)
  <1> DEFINE Sums(k) == \E g \in [Layer(S, k) -> Int] : \A U \in Layer(S, k) : g[U] = AddsOne(f, g, U)
             Good == {k \in Nat : Sums(k)}
  <1>1. Sums(0)
    <2> DEFINE g == [U \in Layer(S, 0) |-> 0]
    <2>1. ASSUME NEW U \in Layer(S, 0) PROVE U = {}
      <3>1. U \in SUBSET S /\ Cardinality(U) =< 0 /\ IsFiniteSet(U) /\ Cardinality(U) \in Nat
        BY FS_Subset, FS_CardinalityType DEF Layer
      <3>2. Cardinality(U) = 0
        BY <3>1
      <3> QED
        BY <3>1, <3>2, FS_EmptySet
    <2>2. g \in [Layer(S, 0) -> Int] /\ \A U \in Layer(S, 0) : g[U] = AddsOne(f, g, U)
      BY <2>1 DEF AddsOne
    <2> QED
      BY <2>2
  <1>2. \A k \in Nat : Sums(k) => Sums(k + 1)
    BY ALayerMore
  <1>3. Cardinality(S) \in Nat
    BY FS_CardinalityType
  <1>4. Cardinality(S) \in 0 .. Cardinality(S)
    BY <1>3
  <1> HIDE DEF Sums
  <1>5. 0 .. Cardinality(S) \subseteq Good
    <2>1. Good \in SUBSET Nat /\ 0 \in Good
      BY <1>1
    <2>2. \A k \in Nat : k \in Good /\ k < Cardinality(S) => k + 1 \in Good
      BY <1>2
    <2> HIDE DEF Good
    <2> QED
      BY <1>3, <2>1, <2>2, UpToTheLast
  <1>6. Sums(Cardinality(S))
    BY <1>4, <1>5
  <1>7. Layer(S, Cardinality(S)) = SUBSET S
    BY FS_Subset DEF Layer
  <1> QED
    BY <1>6, <1>7 DEF Sums, PartialSums

(* Whichever term is taken out, the rest sum up to what is left.            *)
LEMMA AnyTermFirst ==
    ASSUME NEW S, IsFiniteSet(S), NEW f \in [S -> Int], NEW g \in [SUBSET S -> Int],
           PartialSums(S, f, g)
    PROVE  TermByTerm(S, f, g)
  <1> DEFINE Wrong == {U \in SUBSET S : \E x \in U : g[U] # f[x] + g[U \ {x}]}
  <1> SUFFICES ASSUME Wrong # {}
               PROVE  FALSE
    BY DEF TermByTerm
  <1>1. IsWellFoundedOn(StrictSubsetOrdering(S), SUBSET S)
    BY FS_StrictSubsetOrderingWellFounded, FS_FiniteSubsetsOfFinite
  <1>2. PICK U \in Wrong : \A V \in Wrong : <<V, U>> \notin StrictSubsetOrdering(S)
    <2>1. Wrong \subseteq SUBSET S
      OBVIOUS
    <2> HIDE DEF Wrong
    <2> QED
      BY <1>1, <2>1, WFMin
  <1>3. PICK x \in U : g[U] # f[x] + g[U \ {x}]
    BY <1>2
  <1> DEFINE y == CHOOSE y \in U : TRUE
  <1>4. y \in U /\ U \in SUBSET S
    BY <1>2, <1>3
  <1>5. g[U] = f[y] + g[U \ {y}]
    BY <1>3, <1>4 DEF AddsOne, PartialSums
  <1> HIDE DEF y
  <1>6. x # y
    BY <1>3, <1>5
  <1>7. ASSUME NEW z \in U
        PROVE  U \ {z} \in SUBSET S /\ \A v \in U \ {z} : g[U \ {z}] = f[v] + g[(U \ {z}) \ {v}]
    <2>1. U \ {z} \in SUBSET S /\ <<U \ {z}, U>> \in StrictSubsetOrdering(S)
      BY <1>4 DEF StrictSubsetOrdering
    <2>2. U \ {z} \notin Wrong
      BY <1>2, <2>1
    <2> QED
      BY <2>1, <2>2
  <1>8. /\ g[U \ {y}] = f[x] + g[(U \ {y}) \ {x}]
        /\ g[U \ {x}] = f[y] + g[(U \ {x}) \ {y}]
    BY <1>3, <1>4, <1>6, <1>7
  <1>9. (U \ {y}) \ {x} = (U \ {x}) \ {y} /\ g[(U \ {x}) \ {y}] \in Int /\ f[x] \in Int /\ f[y] \in Int
    BY <1>4
  <1>10. f[y] + (f[x] + g[(U \ {x}) \ {y}]) = f[x] + (f[y] + g[(U \ {x}) \ {y}])
    BY <1>9
  <1> QED
    BY <1>3, <1>5, <1>8, <1>9, <1>10

(* There is one way to sum.                                                 *)
LEMMA PartialSumsAgree ==
    ASSUME NEW S, IsFiniteSet(S), NEW f, NEW g, NEW h,
           PartialSums(S, f, g), PartialSums(S, f, h)
    PROVE  \A U \in SUBSET S : g[U] = h[U]
  <1> DEFINE Apart == {U \in SUBSET S : g[U] # h[U]}
  <1> SUFFICES ASSUME Apart # {}
               PROVE  FALSE
    OBVIOUS
  <1>1. IsWellFoundedOn(StrictSubsetOrdering(S), SUBSET S)
    BY FS_StrictSubsetOrderingWellFounded, FS_FiniteSubsetsOfFinite
  <1>2. PICK U \in Apart : \A V \in Apart : <<V, U>> \notin StrictSubsetOrdering(S)
    <2>1. Apart \subseteq SUBSET S
      OBVIOUS
    <2> HIDE DEF Apart
    <2> QED
      BY <1>1, <2>1, WFMin
  <1> DEFINE rest == U \ {CHOOSE x \in U : TRUE}
  <1>3. U # {}
    BY <1>2 DEF AddsOne, PartialSums
  <1>4. rest \in SUBSET S /\ <<rest, U>> \in StrictSubsetOrdering(S)
    BY <1>2, <1>3 DEF StrictSubsetOrdering
  <1>5. g[rest] = h[rest]
    BY <1>2, <1>4
  <1> QED
    BY <1>2, <1>3, <1>5 DEF AddsOne, PartialSums

(* SumFunction is the sum of all.                                           *)
LEMMA SumUnfolds ==
    ASSUME NEW S, IsFiniteSet(S), NEW f \in [S -> Int]
    PROVE  \E g \in [SUBSET S -> Int] :
              g[{}] = 0 /\ SumFunction(f) = g[S] /\ TermByTerm(S, f, g)
  <1> DEFINE sum == CHOOSE g : g = [U \in SUBSET S |-> AddsOne(f, g, U)]
  <1>1. SumFunction(f) = sum[S]
    BY DEF SumFunction, SumFunctionOnSet, FoldFunctionOnSet, MapThenFoldSet, AddsOne
  <1>2. PICK g \in [SUBSET S -> Int] : PartialSums(S, f, g)
    BY PartialSumsExist
  <1>3. g = [U \in SUBSET S |-> AddsOne(f, g, U)]
    BY <1>2 DEF PartialSums
  <1>4. sum = [U \in SUBSET S |-> AddsOne(f, sum, U)]
    BY <1>3
  <1> HIDE DEF sum
  <1>5. PartialSums(S, f, sum)
    BY <1>4 DEF PartialSums
  <1>6. SumFunction(f) = g[S]
    BY <1>1, <1>2, <1>5, PartialSumsAgree
  <1>7. g[{}] = 0
    BY <1>2 DEF AddsOne, PartialSums
  <1>8. TermByTerm(S, f, g)
    BY <1>2, AnyTermFirst
  <1> QED
    BY <1>6, <1>7, <1>8

(* Terms that are no greater have a sum that is no greater.                 *)
LEMMA SmallerTermsSmallerSum ==
    ASSUME NEW S, IsFiniteSet(S), NEW f \in [S -> Int], NEW h \in [S -> Int],
           \A x \in S : f[x] =< h[x]
    PROVE  SumFunction(f) =< SumFunction(h)
  <1>1. PICK g \in [SUBSET S -> Int] :
           g[{}] = 0 /\ SumFunction(f) = g[S] /\ TermByTerm(S, f, g)
    BY SumUnfolds
  <1>2. PICK k \in [SUBSET S -> Int] :
           k[{}] = 0 /\ SumFunction(h) = k[S] /\ TermByTerm(S, h, k)
    BY SumUnfolds
  <1> DEFINE Above == {U \in SUBSET S : ~ (g[U] =< k[U])}
  <1> SUFFICES ASSUME Above # {}
               PROVE  FALSE
    BY <1>1, <1>2
  <1>3. IsWellFoundedOn(StrictSubsetOrdering(S), SUBSET S)
    BY FS_StrictSubsetOrderingWellFounded, FS_FiniteSubsetsOfFinite
  <1>4. PICK U \in Above : \A V \in Above : <<V, U>> \notin StrictSubsetOrdering(S)
    <2>1. Above \subseteq SUBSET S
      OBVIOUS
    <2> HIDE DEF Above
    <2> QED
      BY <1>3, <2>1, WFMin
  <1>5. U # {}
    <2>1. g[{}] = 0 /\ k[{}] = 0
      BY <1>1, <1>2
    <2>2. ~ (g[U] =< k[U])
      BY <1>4
    <2>3. ~ (g[{}] =< k[{}]) => FALSE
      BY <2>1
    <2> QED
      BY <2>2, <2>3, Zenon
  <1>6. PICK x \in U : TRUE
    BY <1>5
  <1>7. U \ {x} \in SUBSET S /\ <<U \ {x}, U>> \in StrictSubsetOrdering(S)
    BY <1>4, <1>6 DEF StrictSubsetOrdering
  <1>8. g[U \ {x}] =< k[U \ {x}]
    BY <1>4, <1>7
  <1>9. /\ g[U] = f[x] + g[U \ {x}] /\ k[U] = h[x] + k[U \ {x}]
        /\ f[x] =< h[x] /\ f[x] \in Int /\ h[x] \in Int
        /\ g[U \ {x}] \in Int /\ k[U \ {x}] \in Int
    BY <1>1, <1>2, <1>4, <1>6, <1>7 DEF TermByTerm
  <1> QED
    BY <1>4, <1>8, <1>9

----------------------------------------------------------------------------
(* What is owed through a round, and what is paid of it.                    *)

(* OwedThrough's recursion has a solution, and so adds a round at a time.   *)
LEMMA OwedAddsUp ==
    ASSUME LedgerTypeOK, NEW m \in Members
    PROVE  /\ OwedThrough(m, 0) = 0
           /\ \A r \in 0 .. Weeks : OwedThrough(m, r) \in Nat
           /\ \A r \in Rounds : OwedThrough(m, r) = OwedThrough(m, r - 1) + owed[m][r]
  <1> DEFINE body(g, r) == IF r = 0 THEN 0 ELSE g[r - 1] + owed[m][r]
             Fit(k) == \E g \in [0 .. k -> Nat] : \A r \in 0 .. k : g[r] = body(g, r)
             Good == {k \in Nat : k =< Weeks => Fit(k)}
             sum == CHOOSE g : g = [r \in 0 .. Weeks |-> body(g, r)]
  <1>1. Weeks \in Nat /\ \A r \in Rounds : owed[m][r] \in Nat
    BY WeeksAssumption DEF LedgerTypeOK, Amounts
  <1>2. Fit(0)
    <2> DEFINE g == [r \in 0 .. 0 |-> 0]
    <2>1. g \in [0 .. 0 -> Nat] /\ \A r \in 0 .. 0 : g[r] = body(g, r)
      OBVIOUS
    <2> QED
      BY <2>1
  <1>3. ASSUME NEW k \in Nat, k < Weeks, Fit(k)
        PROVE  Fit(k + 1)
    <2>1. PICK g \in [0 .. k -> Nat] : \A r \in 0 .. k : g[r] = body(g, r)
      BY <1>3
    <2> DEFINE h == [r \in 0 .. k + 1 |-> IF r = k + 1 THEN g[k] + owed[m][k + 1] ELSE g[r]]
    <2>2. k + 1 \in Rounds /\ owed[m][k + 1] \in Nat /\ g[k] \in Nat
      BY <1>1, <1>3 DEF Rounds
    <2>3. h \in [0 .. k + 1 -> Nat]
      BY <2>2
    <2>4. ASSUME NEW r \in 0 .. k + 1 PROVE h[r] = body(h, r)
      <3>1. CASE r = k + 1
        <4>1. h[r] = g[k] + owed[m][r] /\ h[r - 1] = g[k] /\ r # 0
          BY <3>1
        <4> QED
          BY <4>1
      <3>2. CASE r # k + 1
        <4>1. r \in 0 .. k /\ h[r] = g[r] /\ (r # 0 => h[r - 1] = g[r - 1])
          BY <3>2
        <4> QED
          BY <2>1, <4>1
      <3> QED
        BY <3>1, <3>2
    <2> HIDE DEF h
    <2> QED
      BY <2>3, <2>4
  <1> HIDE DEF Fit
  <1>4. Fit(Weeks)
    <2>1. Good \in SUBSET Nat /\ 0 \in Good
      BY <1>2
    <2>2. \A k \in Nat : k \in Good /\ k < Weeks => k + 1 \in Good
      BY <1>1, <1>3
    <2>3. Weeks \in Good => Fit(Weeks)
      BY <1>1
    <2> HIDE DEF Good
    <2>4. 0 .. Weeks \subseteq Good
      BY <1>1, <2>1, <2>2, UpToTheLast
    <2> QED
      BY <1>1, <2>3, <2>4
  <1>5. PICK g \in [0 .. Weeks -> Nat] : \A r \in 0 .. Weeks : g[r] = body(g, r)
    BY <1>4 DEF Fit
  <1>6. g = [r \in 0 .. Weeks |-> body(g, r)]
    BY <1>5
  <1>7. sum = [r \in 0 .. Weeks |-> body(sum, r)]
    BY <1>6
  <1>8. \A r : OwedThrough(m, r) = sum[r]
    BY DEF OwedThrough
  <1> HIDE DEF sum
  <1>9. \A r \in 0 .. Weeks : sum[r] = body(sum, r)
    BY <1>7
  <1>10. 0 \in 0 .. Weeks /\ \A r \in Rounds : r \in 0 .. Weeks /\ r # 0
    BY <1>1 DEF Rounds
  <1>11. sum[0] = 0 /\ \A r \in Rounds : sum[r] = sum[r - 1] + owed[m][r]
    BY <1>9, <1>10
  <1>12. \A r \in 0 .. Weeks : sum[r] \in Nat
    <2> DEFINE Right == {r \in Nat : r =< Weeks => sum[r] \in Nat}
    <2>1. Right \in SUBSET Nat /\ 0 \in Right
      BY <1>11
    <2>2. ASSUME NEW k \in Nat, k \in Right, k < Weeks PROVE k + 1 \in Right
      <3>1. k + 1 \in Rounds /\ (k + 1) - 1 = k /\ sum[k] \in Nat
        BY <1>1, <2>2 DEF Rounds
      <3>2. sum[k + 1] = sum[k] + owed[m][k + 1] /\ owed[m][k + 1] \in Nat
        BY <1>1, <1>11, <3>1
      <3> QED
        BY <3>1, <3>2
    <2>3. \A r \in 0 .. Weeks : r \in Right => sum[r] \in Nat
      BY <1>1
    <2> HIDE DEF Right
    <2> QED
      BY <1>1, <2>1, <2>2, <2>3, UpToTheLast
  <1> QED
    BY <1>8, <1>11, <1>12

(* A round is paid what the credit reaches after the older dues.            *)
LEMMA PaidIsTheDifference ==
    ASSUME LedgerTypeOK, NEW m \in Members, NEW r \in Rounds
    PROVE  LET Reached(n) == Lesser(OwedThrough(m, n), AtLeastZero(credit[m]))
           IN  Paid(m, r) = Reached(r) - Reached(r - 1)
  <1>1. /\ OwedThrough(m, r) = OwedThrough(m, r - 1) + owed[m][r]
        /\ OwedThrough(m, r - 1) \in Nat /\ owed[m][r] \in Nat /\ credit[m] \in Int
    <2>1. r - 1 \in 0 .. Weeks /\ r \in 0 .. Weeks
      BY WeeksAssumption DEF Rounds
    <2> QED
      BY <2>1, OwedAddsUp DEF LedgerTypeOK, Amounts
  <1> QED
    BY <1>1 DEF Paid, Lesser, AtLeastZero

(* A round is never paid more than stands of its due.                       *)
LEMMA PaidIsNatural ==
    ASSUME LedgerTypeOK, NEW m \in Members, NEW r \in Rounds
    PROVE  Paid(m, r) \in Nat /\ Paid(m, r) =< owed[m][r] /\ owed[m][r] \in Nat
  <1>1. OwedThrough(m, r - 1) \in Nat /\ owed[m][r] \in Nat /\ credit[m] \in Int
    <2>1. r - 1 \in 0 .. Weeks
      BY WeeksAssumption DEF Rounds
    <2> QED
      BY <2>1, OwedAddsUp DEF LedgerTypeOK, Amounts
  <1> QED
    BY <1>1 DEF Paid, Lesser, AtLeastZero

(* However the rounds are summed up, no more is paid than the credit.       *)
LEMMA NoMoreThanTheCredit ==
    ASSUME LedgerTypeOK, NEW m \in Members
    PROVE  SumFunction([r \in Rounds |-> Paid(m, r)]) =< AtLeastZero(credit[m])
  <1> DEFINE f == [r \in Rounds |-> Paid(m, r)]
             cap == AtLeastZero(credit[m])
             Reached(n) == Lesser(OwedThrough(m, n), cap)
  <1>1. IsFiniteSet(Rounds) /\ f \in [Rounds -> Int] /\ Weeks \in Nat
    BY WeeksAssumption, FS_Interval, PaidIsNatural DEF Rounds
  <1>2. \A r \in Rounds : f[r] = Reached(r) - Reached(r - 1)
    BY PaidIsTheDifference
  <1>3. cap \in Nat /\ Reached(0) = 0 /\ \A r \in 0 .. Weeks : Reached(r) \in Nat /\ Reached(r) =< cap
    BY OwedAddsUp DEF LedgerTypeOK, Lesser, AtLeastZero
  <1> HIDE DEF f, cap, Reached
  <1>4. PICK g \in [SUBSET Rounds -> Int] :
           g[{}] = 0 /\ SumFunction(f) = g[Rounds] /\ TermByTerm(Rounds, f, g)
    BY <1>1, SumUnfolds
  <1> DEFINE Good == {k \in Nat : k =< Weeks => g[1 .. k] = Reached(k)}
  <1>5. Good \in SUBSET Nat /\ 0 \in Good
    <2>1. g[1 .. 0] = 0
      <3>1. 1 .. 0 = {}
        OBVIOUS
      <3> QED
        BY <1>4, <3>1
    <2> QED
      BY <1>3, <2>1
  <1>6. ASSUME NEW k \in Nat, k \in Good, k < Weeks
        PROVE  k + 1 \in Good
    <2>1. /\ 1 .. k + 1 \in SUBSET Rounds /\ k + 1 \in 1 .. k + 1 /\ k + 1 \in Rounds
          /\ (1 .. k + 1) \ {k + 1} = 1 .. k /\ (k + 1) - 1 = k
          /\ k \in 0 .. Weeks /\ k + 1 \in 0 .. Weeks
      BY <1>1, <1>6 DEF Rounds
    <2>2. g[1 .. k + 1] = f[k + 1] + g[1 .. k]
      <3>1. \A U \in SUBSET Rounds : \A x \in U : g[U] = f[x] + g[U \ {x}]
        BY <1>4 DEF TermByTerm
      <3>2. g[1 .. k + 1] = f[k + 1] + g[(1 .. k + 1) \ {k + 1}]
        BY <2>1, <3>1, Zenon
      <3> QED
        BY <2>1, <3>2, Zenon
    <2>3. f[k + 1] = Reached(k + 1) - Reached(k) /\ g[1 .. k] = Reached(k)
      BY <1>1, <1>2, <1>6, <2>1
    <2>4. Reached(k) \in Nat /\ Reached(k + 1) \in Nat
      BY <1>3, <2>1
    <2>5. g[1 .. k + 1] = Reached(k + 1)
      BY <2>2, <2>3, <2>4
    <2> QED
      BY <2>5
  <1>7. g[Rounds] = Reached(Weeks)
    <2>1. Weeks \in Good => g[1 .. Weeks] = Reached(Weeks)
      BY <1>1
    <2> HIDE DEF Good
    <2>2. 0 .. Weeks \subseteq Good
      BY <1>1, <1>5, <1>6, UpToTheLast
    <2> QED
      BY <1>1, <2>1, <2>2 DEF Rounds
  <1>8. SumFunction(f) =< cap
    BY <1>1, <1>3, <1>4, <1>7
  <1> QED
    BY <1>8 DEF f, cap

(* The pot is a sum of payments, each within its due.                       *)
LEMMA ThePotIsWithinTheDues ==
    ASSUME LedgerTypeOK
    PROVE  SeasonPot =< TotalToDate
  <1> DEFINE pairs == Members \X Season
             paid == [pair \in pairs |-> Paid(pair[1], pair[2])]
             standing == [pair \in pairs |-> owed[pair[1]][pair[2]]]
  <1>1. Season \subseteq Rounds /\ IsFiniteSet(Rounds)
    BY WeeksAssumption, FS_Interval DEF Rounds
  <1>2. IsFiniteSet(pairs)
    BY <1>1, MembersAssumption, FS_Subset, FS_Product
  <1>3. \A pair \in pairs : pair[1] \in Members /\ pair[2] \in Rounds
    BY <1>1
  <1>4. /\ paid \in [pairs -> Int] /\ standing \in [pairs -> Int]
        /\ \A pair \in pairs : paid[pair] =< standing[pair]
    BY <1>3, PaidIsNatural
  <1>5. SeasonPot = SumFunction(paid) /\ TotalToDate = SumFunction(standing)
    BY DEF SeasonPot, TotalToDate, TotalOver
  <1> HIDE DEF pairs, paid, standing
  <1> QED
    BY <1>2, <1>4, <1>5, SmallerTermsSmallerSum

(* No member's rounds are paid from more than their credit, and the pot     *)
(* shown is within what the season's rounds cost, for any members, rounds,  *)
(* fees and amounts (allocate, season_pot, league_money).                   *)
THEOREM ThePotIsCovered == LedgerSpec => []PotIsCovered
  <1>1. LedgerTypeOK => PotIsCovered
    BY NoMoreThanTheCredit, ThePotIsWithinTheDues DEF PotIsCovered
  <1> QED
    BY <1>1, LedgerTypes, PTL
=============================================================================
