------------------------- MODULE FootballWeek_proofs -------------------------
(* What a football week keeps, for any dates, any members and any number of *)
(* settings edits.  Each of the first three results holds whatever else     *)
(* falls into the middle of what, but for the one overlap it names; the     *)
(* runs that let that overlap happen show that it cannot be spared.  The    *)
(* last two, on how a week comes to its end, need no such condition.        *)
EXTENDS FootballWeek, FiniteSetTheorems, TLAPS

RoundStates == {"none", "unsettled", "settled"}
PickStates == {"none", "pending", "scored", "void"}
Walks == [weekday : Days, retiring : SUBSET Days, dates : SUBSET Days]
Sweeps == [chosen : SUBSET Days, asked : SUBSET Days]

FootballTypeOK ==
    /\ today \in Nat /\ edits \in Nat
    /\ weekday \in Days /\ extras \subseteq Days
    /\ rounds \in [Days -> RoundStates]
    /\ picks \in [Days -> [Members -> PickStates]]
    /\ wanted \in [Members -> Days \cup {NoDay}]
    /\ walk = Idle \/ walk \in Walks
    /\ sweep = Idle \/ sweep \in Sweeps
    /\ hand \in Days \cup {NoDay}

(* What the clock has decided.  Nothing scores or settles before its day,   *)
(* nothing of the past is retired, and what a settlement holds is over, or  *)
(* locked, and there.                                                       *)
CalendarInv ==
    /\ \A d \in Days : rounds[d] = "settled" => d =< today
    /\ \A d \in Days, m \in Members : picks[d][m] = "scored" => d < today
    /\ walk # Idle => \A d \in walk.retiring : today =< d
    /\ sweep # Idle => \A d \in sweep.chosen : d =< today
    /\ hand # NoDay => hand < today /\ rounds[hand] # "none"

(* A pick is on a round that is there, and a settled round has none left.   *)
ClaimInv ==
    /\ \A d \in Days, m \in Members : picks[d][m] # "none" => rounds[d] # "none"
    /\ \A d \in Days, m \in Members : rounds[d] = "settled" => picks[d][m] # "pending"

(* A retirement deletes rounds nobody has picked in.                        *)
RetireInv == walk # Idle => \A d \in walk.retiring, m \in Members : picks[d][m] = "none"

(* A walk goes by the league's own weekday.                                 *)
WalkInv == walk # Idle => walk.weekday = weekday

(* The sweep still takes for unsettled what somebody settled by hand while  *)
(* it asked the provider.  A stray that scored that way leaves it nothing   *)
(* to score on a round the league intended.                                 *)
StaleInv ==
    sweep # Idle =>
        \A d, e \in sweep.chosen :
            /\ e \in Undeclared(weekday) /\ rounds[e] = "settled" /\ Scored(e) # {}
            => PendingOn(d) = {} \/ ~Intentional(d, weekday)

Inv == FootballTypeOK /\ CalendarInv /\ ClaimInv

-----------------------------------------------------------------------------
(* The rounds of a week are finitely many, so "more than one" is "another". *)
LEMMA AnotherRound ==
    ASSUME NEW W \in SUBSET Days, NEW d \in W
    PROVE  Cardinality(W) =< 1 <=> W = {d}
<1>1. IsFiniteSet(W)
  BY DayAssumption, FS_Subset
<1>2. Cardinality({d}) = 1
  BY FS_Singleton
<1>3. CASE W = {d}
  <2>1. Cardinality(W) = 1
    BY <1>2, <1>3, Zenon
  <2> QED
    BY <1>3, <2>1
<1>4. CASE W # {d}
  <2>1. Cardinality({d}) =< Cardinality(W)
    BY <1>1, FS_Subset
  <2>2. Cardinality({d}) # Cardinality(W)
    BY <1>1, <1>4, FS_Subset
  <2>3. Cardinality(W) \in Nat
    BY <1>1, FS_CardinalityType
  <2> QED
    BY <1>2, <1>4, <2>1, <2>2, <2>3
<1> QED
  BY <1>3, <1>4

(* settle_refusal lets a round of the week settle if it is alone, if nothing*)
(* is undeclared, or if it was intended and no stray this session knows of  *)
(* has settled.                                                             *)
LEMMA WhatMaySettle ==
    ASSUME NEW d \in Days, d \in InWeek, NEW stale \in SUBSET Days
    PROVE  MaySettle(d, stale) <=>
               \/ InWeek = {d}
               \/ Undeclared(weekday) = {}
               \/ /\ Intentional(d, weekday)
                  /\ \A e \in Undeclared(weekday) \ stale : rounds[e] # "settled"
<1>1. Cardinality(InWeek) =< 1 <=> InWeek = {d}
  BY AnotherRound DEF InWeek
<1> QED
  BY <1>1 DEF MaySettle, Refusal

(* The same of the rounds as a step leaves them.                            *)
LEMMA WhatMaySettleNext ==
    ASSUME NEW d \in Days, d \in InWeek',
           \/ InWeek' = {d}
           \/ Undeclared(weekday)' = {}
           \/ Intentional(d, weekday)' /\ \A e \in Undeclared(weekday)' : rounds'[e] # "settled"
    PROVE  MaySettle(d, {})'
<1>1. Cardinality(InWeek') =< 1 <=> InWeek' = {d}
  BY AnotherRound DEF InWeek
<1> QED
  BY <1>1 DEF MaySettle, Refusal

-----------------------------------------------------------------------------
LEMMA InitInv == Init => Inv /\ RetireInv /\ WalkInv /\ StaleInv
  BY DayAssumption
  DEF Init, Inv, FootballTypeOK, CalendarInv, ClaimInv, RetireInv, WalkInv, StaleInv,
      RoundStates, PickStates, NoPicks

(* A result turns pending picks into scored ones and touches no other.      *)
LEMMA Scoring ==
    ASSUME FootballTypeOK, NEW d \in Days, NEW R
    PROVE  /\ Score(d, R) \in [Members -> PickStates]
           /\ \A m \in Members :
                 /\ Score(d, R)[m] = "none" <=> picks[d][m] = "none"
                 /\ Score(d, R)[m] = "pending" <=> picks[d][m] = "pending" /\ m \notin R
                 /\ Score(d, R)[m] = "scored" =>
                       picks[d][m] = "scored" \/ (picks[d][m] = "pending" /\ m \in R)
  BY DEF FootballTypeOK, Score, PickStates

LEMMA EditStep ==
    ASSUME Inv, UNCHANGED <<week, jobs>>,
           today' \in Nat, today =< today', edits' \in Nat, weekday' \in Days, extras' \subseteq Days,
           today' = today \/ Retiring = {}
    PROVE  Inv'
<1>1. FootballTypeOK'
  BY DEF Inv, FootballTypeOK, week, jobs
<1>2. ClaimInv'
  BY DEF Inv, ClaimInv, week, jobs
<1>3. CalendarInv'
  <2>1. Days \subseteq Nat
    BY DayAssumption
  <2>2. \A d \in Days : rounds'[d] = "settled" => d =< today'
    BY <2>1 DEF Inv, CalendarInv, FootballTypeOK, week
  <2>3. \A d \in Days, m \in Members : picks'[d][m] = "scored" => d < today'
    BY <2>1 DEF Inv, CalendarInv, FootballTypeOK, week
  <2>4. walk' # Idle => \A d \in walk'.retiring : today' =< d
    BY DEF Inv, CalendarInv, jobs, Retiring
  <2>5. sweep' # Idle => \A d \in sweep'.chosen : d =< today'
    <3> SUFFICES ASSUME sweep # Idle, NEW d \in sweep.chosen PROVE d =< today'
      BY DEF jobs
    <3>1. d \in Days
      BY DEF Inv, FootballTypeOK, Sweeps
    <3> QED
      BY <2>1, <3>1 DEF Inv, CalendarInv, FootballTypeOK
  <2>6. hand' # NoDay => hand' < today' /\ rounds'[hand'] # "none"
    BY <2>1 DEF Inv, CalendarInv, FootballTypeOK, jobs, week
  <2> QED
    BY <2>2, <2>3, <2>4, <2>5, <2>6 DEF CalendarInv
<1> QED
  BY <1>1, <1>2, <1>3 DEF Inv

LEMMA SettingsStep ==
    ASSUME Inv
    PROVE  /\ NextDay => Inv'
           /\ \A d \in Days : EditWeekday(d) \/ DeclareExtraWeek(d) \/ WithdrawExtraWeek(d) => Inv'
           /\ UNCHANGED vars => Inv'
<1>1. ASSUME NextDay PROVE Inv'
  BY <1>1, EditStep DEF Inv, FootballTypeOK, NextDay, settings
<1>2. ASSUME NEW d \in Days, EditWeekday(d) PROVE Inv'
  BY <1>2, EditStep DEF Inv, FootballTypeOK, EditWeekday
<1>3. ASSUME NEW d \in Days, DeclareExtraWeek(d) PROVE Inv'
  BY <1>3, EditStep DEF Inv, FootballTypeOK, DeclareExtraWeek
<1>4. ASSUME NEW d \in Days, WithdrawExtraWeek(d) PROVE Inv'
  BY <1>4, EditStep DEF Inv, FootballTypeOK, WithdrawExtraWeek
<1>5. ASSUME UNCHANGED vars PROVE Inv'
  BY <1>5, EditStep DEF Inv, FootballTypeOK, vars, settings
<1> QED
  BY <1>1, <1>2, <1>3, <1>4, <1>5

(* Discovery and the refresh.                                               *)
LEMMA StrandedRounds ==
    Stranded \subseteq Days /\ \A d \in Stranded : today =< d /\ rounds[d] = "unsettled"
                                                   /\ \A m \in Members : picks[d][m] = "none"
  BY DEF Stranded, Unsettled, Picked

LEMMA WalkStep ==
    ASSUME Inv
    PROVE  /\ DiscoverStarts \/ DiscoverRetires \/ DiscoverEnds => Inv'
           /\ \A d \in Days : DiscoverSyncs(d) => Inv'
           /\ PopulateCadenceRounds => Inv'
<1>1. ASSUME DiscoverStarts PROVE Inv'
  <2>1. walk' \in Walks /\ walk'.retiring = Stranded
    BY <1>1, StrandedRounds DEF DiscoverStarts, Walks, Inv, FootballTypeOK
  <2>2. FootballTypeOK'
    BY <1>1, <2>1 DEF DiscoverStarts, Inv, FootballTypeOK, settings, week
  <2>3. CalendarInv'
    BY <1>1, <2>1, StrandedRounds DEF DiscoverStarts, Inv, CalendarInv, settings, week
  <2>4. ClaimInv'
    BY <1>1 DEF DiscoverStarts, Inv, ClaimInv, settings, week
  <2> QED
    BY <2>2, <2>3, <2>4 DEF Inv
<1>2. ASSUME DiscoverRetires PROVE Inv'
  <2>1. /\ walk \in Walks
        /\ \A d \in walk.retiring : today =< d
        /\ \A d \in Days : rounds'[d] = IF d \in walk.retiring THEN "none" ELSE rounds[d]
        /\ \A d \in Days : picks'[d] = IF d \in walk.retiring THEN NoPicks ELSE picks[d]
        /\ \A m \in Members : NoPicks[m] = "none"
        /\ NoPicks \in [Members -> PickStates]
    BY <1>2 DEF DiscoverRetires, Removed, NoPicks, PickStates, Inv, FootballTypeOK, CalendarInv
  <2>2. walk' \in Walks /\ walk'.retiring = {}
    BY <1>2, <2>1 DEF DiscoverRetires, Walks
  <2>3. FootballTypeOK'
    BY <1>2, <2>1, <2>2
    DEF DiscoverRetires, Inv, FootballTypeOK, settings, Removed, RoundStates
  <2>4. CalendarInv'
    <3>1. hand # NoDay => hand \notin walk.retiring
      BY <2>1, DayAssumption DEF Inv, CalendarInv, FootballTypeOK
    <3>2. hand' # NoDay => hand' < today' /\ rounds'[hand'] # "none"
      BY <1>2, <2>1, <3>1 DEF DiscoverRetires, Inv, CalendarInv, FootballTypeOK
    <3> QED
      BY <1>2, <2>1, <2>2, <3>2 DEF DiscoverRetires, Inv, CalendarInv, settings
  <2>5. ClaimInv'
    BY <2>1 DEF Inv, ClaimInv
  <2> QED
    BY <2>3, <2>4, <2>5 DEF Inv
<1>3. ASSUME DiscoverEnds PROVE Inv'
  BY <1>3
  DEF DiscoverEnds, Inv, FootballTypeOK, CalendarInv, ClaimInv, settings, week
<1>4. ASSUME NEW d \in Days, DiscoverSyncs(d) PROVE Inv'
  <2>1. /\ walk \in Walks
        /\ walk' = [walk EXCEPT !.dates = @ \ {d}]
        /\ \A e \in Days : rounds'[e] = rounds[e] \/ (rounds[e] = "none" /\ rounds'[e] = "unsettled")
        /\ rounds' \in [Days -> RoundStates]
    BY <1>4 DEF DiscoverSyncs, Inv, FootballTypeOK, RoundStates
  <2>2. walk' \in Walks /\ walk'.retiring = {}
    BY <1>4, <2>1 DEF DiscoverSyncs, Walks
  <2>3. FootballTypeOK'
    BY <1>4, <2>1, <2>2 DEF DiscoverSyncs, Inv, FootballTypeOK, settings
  <2>4. CalendarInv'
    BY <1>4, <2>1, <2>2 DEF DiscoverSyncs, Inv, FootballTypeOK, CalendarInv, settings
  <2>5. ClaimInv'
    BY <1>4, <2>1 DEF DiscoverSyncs, Inv, ClaimInv
  <2> QED
    BY <2>3, <2>4, <2>5 DEF Inv
<1>5. ASSUME PopulateCadenceRounds PROVE Inv'
  <2>1. /\ rounds' \in [Days -> RoundStates]
        /\ \A e \in Days : \/ rounds'[e] = rounds[e]
                           \/ rounds'[e] = "none" /\ e \in Stranded
                           \/ rounds'[e] = "unsettled" /\ e \notin InWeek \ Stranded
    BY <1>5, StrandedRounds
    DEF PopulateCadenceRounds, Removed, Inv, FootballTypeOK, RoundStates
  <2>2. FootballTypeOK'
    BY <1>5, <2>1 DEF PopulateCadenceRounds, Inv, FootballTypeOK, settings, jobs
  <2>3. CalendarInv'
    <3>1. hand # NoDay => hand \in Days /\ hand < today /\ hand \notin Stranded
      BY StrandedRounds, DayAssumption DEF Inv, FootballTypeOK, CalendarInv
    <3>2. hand' # NoDay => hand' < today' /\ rounds'[hand'] # "none"
      BY <1>5, <2>1, <3>1 DEF PopulateCadenceRounds, Inv, CalendarInv, jobs
    <3> QED
      BY <1>5, <2>1, <3>2 DEF PopulateCadenceRounds, Inv, FootballTypeOK, CalendarInv, settings, jobs
  <2>4. ClaimInv'
    BY <1>5, <2>1, StrandedRounds DEF PopulateCadenceRounds, Inv, ClaimInv, InWeek
  <2> QED
    BY <2>2, <2>3, <2>4 DEF Inv
<1> QED
  BY <1>1, <1>2, <1>3, <1>4, <1>5

(* What a settlement writes, on rounds it may settle and that are over or   *)
(* locked: pending picks become scored, and a round flips when none is left *)
(* and stays open when one is.                                              *)
Written(S, stale) ==
    /\ rounds' \in [Days -> RoundStates]
    /\ picks' \in [Days -> [Members -> PickStates]]
    /\ \A d \in Days :
          \/ rounds'[d] = rounds[d]
          \/ /\ rounds'[d] = "settled" /\ rounds[d] # "none" /\ d =< today
             /\ d \in S /\ MaySettle(d, stale)
             /\ \A m \in Members : picks'[d][m] # "pending"
    /\ \A d \in Days, m \in Members :
          \/ picks'[d][m] = picks[d][m]
          \/ /\ picks[d][m] = "pending" /\ picks'[d][m] = "scored" /\ d < today
             /\ d \in S /\ MaySettle(d, stale)
    /\ \A d \in Days : rounds'[d] = "unsettled" /\ picks'[d] # picks[d]
                          => \E m \in Members : picks'[d][m] = "pending"

LEMMA SweepWrites ==
    ASSUME Inv, NEW R \in SUBSET Members, SweepSettles(R)
    PROVE  sweep \in Sweeps /\ Written(sweep.chosen, sweep.chosen)
<1> DEFINE may == {d \in sweep.chosen : MaySettle(d, sweep.chosen)}
           asked == may \cap sweep.asked
           empty == {d \in may \ sweep.asked : Played(d) /\ ~Picked(d)}
           known == [d \in Days |-> IF Played(d) THEN R ELSE {}]
           flipped == {d \in asked : Flips(d, known[d])} \cup empty
<1>1. sweep \in Sweeps /\ sweep.chosen \subseteq Days
  BY DEF SweepSettles, Inv, FootballTypeOK, Sweeps
<1>2. CASE ~(flipped \subseteq InWeek)
  <2>1. UNCHANGED week
    BY <1>2, Zenon DEF SweepSettles
  <2> QED
    BY <1>1, <2>1 DEF Written, week, Inv, FootballTypeOK
<1>3. CASE flipped \subseteq InWeek
  <2>1. /\ picks' = [d \in Days |-> IF d \in asked THEN Score(d, known[d]) ELSE picks[d]]
        /\ rounds' = [d \in Days |-> IF d \in flipped THEN "settled" ELSE rounds[d]]
    BY <1>3, Zenon DEF SweepSettles
  <2>2. \A d \in flipped : /\ d \in Days /\ rounds[d] # "none" /\ d =< today /\ d \in may
                           /\ \A m \in Members : picks'[d][m] # "pending"
    <3> SUFFICES ASSUME NEW d \in flipped
                 PROVE  /\ d \in Days /\ rounds[d] # "none" /\ d =< today /\ d \in may
                        /\ \A m \in Members : picks'[d][m] # "pending"
      OBVIOUS
    <3>1. d \in may /\ d \in Days /\ d =< today
      BY <1>1 DEF Inv, CalendarInv, SweepSettles
    <3>2. rounds[d] # "none"
      BY <1>3 DEF InWeek
    <3>3. CASE d \in asked
      <4>1. PendingOn(d) \subseteq known[d]
        BY <3>3, Zenon DEF Flips
      <4>2. \A m \in Members : Score(d, known[d])[m] # "pending"
        BY <3>1, <4>1, Scoring DEF Inv, PendingOn
      <4> QED
        BY <2>1, <3>1, <3>2, <3>3, <4>2
    <3>4. CASE d \in empty
      BY <2>1, <3>1, <3>2, <3>4 DEF Picked
    <3> QED
      BY <3>3, <3>4
  <2>3. \A d \in asked : \A m \in Members :
            \/ picks'[d][m] = picks[d][m]
            \/ picks[d][m] = "pending" /\ picks'[d][m] = "scored" /\ d < today
    <3> SUFFICES ASSUME NEW d \in asked, NEW m \in Members
                 PROVE  \/ picks'[d][m] = picks[d][m]
                        \/ picks[d][m] = "pending" /\ picks'[d][m] = "scored" /\ d < today
      OBVIOUS
    <3>1. d \in Days /\ picks'[d] = Score(d, known[d])
      BY <1>1, <2>1
    <3>2. CASE m \in known[d] /\ picks[d][m] = "pending"
      BY <3>1, <3>2 DEF Score, Played
    <3>3. CASE ~(m \in known[d] /\ picks[d][m] = "pending")
      BY <3>1, <3>3 DEF Score
    <3> QED
      BY <3>2, <3>3
  <2>4. rounds' \in [Days -> RoundStates]
    BY <2>1 DEF Inv, FootballTypeOK, RoundStates
  <2>5. picks' \in [Days -> [Members -> PickStates]]
    <3>1. \A d \in Days : Score(d, known[d]) \in [Members -> PickStates]
      BY Scoring DEF Inv
    <3> HIDE DEF asked, known
    <3> QED
      BY <2>1, <3>1 DEF Inv, FootballTypeOK
  <2>6. \A d \in Days : \/ rounds'[d] = rounds[d]
                        \/ d \in flipped /\ rounds'[d] = "settled"
    BY <2>1
  <2>7. \A d \in Days : picks'[d] = picks[d] \/ d \in asked
    BY <2>1
  <2>8. ASSUME NEW d \in Days, rounds'[d] = "unsettled", picks'[d] # picks[d]
        PROVE  \E m \in Members : picks'[d][m] = "pending"
    <3>1. d \in asked /\ d \notin flipped /\ picks'[d] = Score(d, known[d])
      BY <2>1, <2>8
    <3>2. ~(PendingOn(d) \subseteq known[d])
      BY <3>1, Zenon DEF Flips
    <3> HIDE DEF known
    <3> QED
      BY <3>1, <3>2, Scoring DEF Inv, PendingOn
  <2>9. \A d \in may : d \in sweep.chosen /\ MaySettle(d, sweep.chosen)
    OBVIOUS
  <2>10. \A d \in asked : d \in may
    OBVIOUS
  <2> HIDE DEF may, asked, empty, known, flipped
  <2>11. \A d \in Days :
            \/ rounds'[d] = rounds[d]
            \/ /\ rounds'[d] = "settled" /\ rounds[d] # "none" /\ d =< today
               /\ d \in sweep.chosen /\ MaySettle(d, sweep.chosen)
               /\ \A m \in Members : picks'[d][m] # "pending"
    BY <2>2, <2>6, <2>9
  <2>12. \A d \in Days, m \in Members :
            \/ picks'[d][m] = picks[d][m]
            \/ /\ picks[d][m] = "pending" /\ picks'[d][m] = "scored" /\ d < today
               /\ d \in sweep.chosen /\ MaySettle(d, sweep.chosen)
    BY <2>3, <2>7, <2>9, <2>10
  <2> QED
    BY <1>1, <2>4, <2>5, <2>8, <2>11, <2>12 DEF Written
<1> QED
  BY <1>2, <1>3

LEMMA HandWrites ==
    ASSUME Inv, NEW R \in SUBSET Members, HandSettles(R)
    PROVE  hand \in Days /\ Written({hand}, {hand})
<1>1. hand \in Days /\ hand < today /\ rounds[hand] # "none" /\ today \in Nat
  BY DEF HandSettles, Inv, FootballTypeOK, CalendarInv
<1>2. hand =< today
  BY <1>1, DayAssumption
<1>3. CASE MaySettle(hand, {hand})
  <2>1. /\ picks' = [picks EXCEPT ![hand] = Score(hand, R)]
        /\ rounds' = IF Flips(hand, R) THEN [rounds EXCEPT ![hand] = "settled"] ELSE rounds
    BY <1>3, Zenon DEF HandSettles
  <2>2. rounds' \in [Days -> RoundStates] /\ picks' \in [Days -> [Members -> PickStates]]
    BY <2>1, Scoring, <1>1 DEF Inv, FootballTypeOK, RoundStates
  <2>3. \A d \in Days : \/ rounds'[d] = rounds[d]
                        \/ d = hand /\ rounds'[d] = "settled" /\ Flips(hand, R)
    BY <2>1 DEF Inv, FootballTypeOK
  <2>4. Flips(hand, R) => \A m \in Members : picks'[hand][m] # "pending"
    BY <1>1, <2>1, Scoring DEF Inv, FootballTypeOK, Flips, PendingOn
  <2>5. \A d \in Days, m \in Members :
            \/ picks'[d][m] = picks[d][m]
            \/ d = hand /\ picks[d][m] = "pending" /\ picks'[d][m] = "scored"
    BY <1>1, <2>1 DEF Inv, FootballTypeOK, Score
  <2>6. ASSUME NEW d \in Days, rounds'[d] = "unsettled", picks'[d] # picks[d]
        PROVE  \E m \in Members : picks'[d][m] = "pending"
    <3>1. d = hand /\ picks'[d] = Score(hand, R)
      BY <1>1, <2>1, <2>6 DEF Inv, FootballTypeOK
    <3>2. ~Flips(hand, R)
      BY <1>1, <2>1, <2>6, <3>1 DEF Inv, FootballTypeOK
    <3> QED
      BY <1>1, <3>1, <3>2, Scoring DEF Inv, Flips, PendingOn
  <2>7. \A d \in Days :
            \/ rounds'[d] = rounds[d]
            \/ /\ rounds'[d] = "settled" /\ rounds[d] # "none" /\ d =< today
               /\ d \in {hand} /\ MaySettle(d, {hand})
               /\ \A m \in Members : picks'[d][m] # "pending"
    BY <1>1, <1>2, <1>3, <2>3, <2>4
  <2>8. \A d \in Days, m \in Members :
            \/ picks'[d][m] = picks[d][m]
            \/ /\ picks[d][m] = "pending" /\ picks'[d][m] = "scored" /\ d < today
               /\ d \in {hand} /\ MaySettle(d, {hand})
    BY <1>1, <1>3, <2>5
  <2> QED
    BY <1>1, <2>2, <2>6, <2>7, <2>8 DEF Written
<1>4. CASE ~MaySettle(hand, {hand})
  <2>1. UNCHANGED <<picks, rounds>>
    BY <1>4, Zenon DEF HandSettles
  <2> QED
    BY <1>1, <2>1 DEF Written, Inv, FootballTypeOK
<1> QED
  BY <1>3, <1>4

LEMMA WrittenKeepsInv ==
    ASSUME Inv, NEW S, NEW stale, Written(S, stale), UNCHANGED <<today, settings, wanted, walk>>,
           sweep' = Idle \/ sweep' = sweep, hand' = NoDay \/ hand' = hand
    PROVE  Inv'
<1>1. FootballTypeOK'
  BY DEF Written, Inv, FootballTypeOK, settings
<1>2. CalendarInv'
  BY DEF Written, Inv, FootballTypeOK, CalendarInv
<1>3. ClaimInv'
  BY DEF Written, Inv, ClaimInv, CalendarInv
<1> QED
  BY <1>1, <1>2, <1>3 DEF Inv

LEMMA PickStep ==
    ASSUME Inv
    PROVE  /\ \A m \in Members, d \in Days : SubmitPick(m, d) => Inv'
           /\ \A m \in Members : PickCommits(m) => Inv'
<1>1. ASSUME NEW m \in Members, NEW d \in Days, SubmitPick(m, d) PROVE Inv'
  BY <1>1 DEF SubmitPick, Inv, FootballTypeOK, CalendarInv, ClaimInv, settings, week
<1>2. ASSUME NEW m \in Members, PickCommits(m) PROVE Inv'
  <2>1. wanted[m] \in Days
    BY <1>2 DEF PickCommits, Inv, FootballTypeOK
  <2>2. /\ picks' \in [Days -> [Members -> PickStates]]
        /\ \A e \in Days, n \in Members :
              \/ picks'[e][n] = picks[e][n]
              \/ picks'[e][n] = "pending" /\ today < e /\ rounds[e] # "none"
    BY <1>2, <2>1 DEF PickCommits, InWeek, Inv, FootballTypeOK, PickStates
  <2>3. FootballTypeOK'
    BY <1>2, <2>2 DEF PickCommits, Inv, FootballTypeOK, settings
  <2>4. CalendarInv'
    BY <1>2, <2>2 DEF PickCommits, Inv, CalendarInv, settings
  <2>5. ClaimInv'
    <3>1. \A e \in Days : rounds[e] = "settled" => ~(today < e)
      BY DayAssumption DEF Inv, FootballTypeOK, CalendarInv
    <3> QED
      BY <1>2, <2>2, <3>1 DEF PickCommits, Inv, ClaimInv
  <2> QED
    BY <2>3, <2>4, <2>5 DEF Inv
<1> QED
  BY <1>1, <1>2

LEMMA SettleStep ==
    ASSUME Inv
    PROVE  /\ SweepStarts \/ Restart => Inv'
           /\ \A d \in Days : HandReads(d) \/ VoidNonScoringRound(d) => Inv'
           /\ \A R \in SUBSET Members : SweepSettles(R) \/ HandSettles(R) => Inv'
<1>1. ASSUME SweepStarts PROVE Inv'
  <2>1. sweep' \in Sweeps /\ \A d \in sweep'.chosen : d =< today
    BY <1>1 DEF SweepStarts, Sweeps, Unsettled
  <2> QED
    BY <1>1, <2>1
    DEF SweepStarts, Inv, FootballTypeOK, CalendarInv, ClaimInv, settings, week
<1>2. ASSUME Restart PROVE Inv'
  BY <1>2 DEF Restart, Inv, FootballTypeOK, CalendarInv, ClaimInv, settings, week
<1>3. ASSUME NEW d \in Days, HandReads(d) PROVE Inv'
  BY <1>3 DEF HandReads, Played, Inv, FootballTypeOK, CalendarInv, ClaimInv, settings, week
<1>4. ASSUME NEW d \in Days, VoidNonScoringRound(d) PROVE Inv'
  <2>1. /\ rounds[d] = "unsettled" /\ d =< today
        /\ rounds' = [rounds EXCEPT ![d] = "settled"]
        /\ picks' \in [Days -> [Members -> PickStates]]
        /\ \A e \in Days, m \in Members :
              \/ picks'[e][m] = picks[e][m] /\ (e = d => picks[e][m] # "pending")
              \/ e = d /\ picks[e][m] = "pending" /\ picks'[e][m] = "void"
    BY <1>4 DEF VoidNonScoringRound, MayVoid, Inv, FootballTypeOK, PickStates
  <2>2. FootballTypeOK'
    BY <1>4, <2>1 DEF VoidNonScoringRound, Inv, FootballTypeOK, RoundStates, settings, jobs
  <2>3. CalendarInv'
    BY <1>4, <2>1 DEF VoidNonScoringRound, Inv, FootballTypeOK, CalendarInv, settings, jobs
  <2>4. ClaimInv'
    BY <2>1 DEF Inv, FootballTypeOK, ClaimInv
  <2> QED
    BY <2>2, <2>3, <2>4 DEF Inv
<1>5. ASSUME NEW R \in SUBSET Members, SweepSettles(R) PROVE Inv'
  BY <1>5, SweepWrites, WrittenKeepsInv DEF SweepSettles
<1>6. ASSUME NEW R \in SUBSET Members, HandSettles(R) PROVE Inv'
  BY <1>6, HandWrites, WrittenKeepsInv DEF HandSettles
<1> QED
  BY <1>1, <1>2, <1>3, <1>4, <1>5, <1>6

LEMMA NextInv == Inv /\ [Next]_vars => Inv'
  BY SettingsStep, WalkStep, PickStep, SettleStep DEF Next

(* The week is well formed, settles nothing before its day and leaves no    *)
(* pick pending on a settled round or standing on a deleted one             *)
(* (settleable_gameweeks, retire_stranded_rounds, submit_pick).             *)
THEOREM FootballTypes == Spec => []Inv
<1>1. Init => Inv
  BY InitInv
<1> QED
  BY <1>1, NextInv, PTL DEF Spec

-----------------------------------------------------------------------------
(* A retirement deletes by id what it selected before.  As long as nothing  *)
(* lands on those rounds in between, nobody has picked in them.             *)
LEMMA RetireStep ==
    ASSUME Inv, RetireInv, "retirement" \notin Overlaps, [Next]_vars
    PROVE  RetireInv' /\ \A d \in Days, m \in Members : picks[d][m] # "none" => picks'[d][m] # "none"
<1> DEFINE Kept == \A d \in Days, m \in Members : picks[d][m] # "none" => picks'[d][m] # "none"
<1>1. CASE UNCHANGED <<picks, walk>>
  BY <1>1 DEF RetireInv
<1>2. CASE DiscoverStarts
  BY <1>2, StrandedRounds DEF DiscoverStarts, RetireInv, week
<1>3. CASE DiscoverRetires
  <2>1. walk \in Walks
    BY <1>3 DEF DiscoverRetires, Inv, FootballTypeOK
  <2>2. walk'.retiring = {}
    BY <1>3, <2>1 DEF DiscoverRetires, Walks
  <2>3. Kept
    BY <1>3, <2>1 DEF DiscoverRetires, RetireInv
  <2> QED
    BY <2>2, <2>3 DEF RetireInv
<1>4. ASSUME NEW d \in Days, DiscoverSyncs(d) PROVE RetireInv' /\ Kept
  <2>1. walk \in Walks /\ picks' = picks
    BY <1>4 DEF DiscoverSyncs, Inv, FootballTypeOK
  <2>2. walk'.retiring = {}
    BY <1>4, <2>1 DEF DiscoverSyncs, Walks
  <2> QED
    BY <2>1, <2>2 DEF RetireInv
<1>5. CASE DiscoverEnds \/ Restart
  BY <1>5 DEF DiscoverEnds, Restart, RetireInv, week
<1>6. ASSUME NEW m \in Members, PickCommits(m) PROVE RetireInv' /\ Kept
  <2>1. wanted[m] \in Days /\ wanted[m] \notin Retiring
    BY <1>6 DEF PickCommits, MeetsNoRetirement, Inv, FootballTypeOK
  <2>2. \A e \in Days, n \in Members :
           picks'[e][n] = picks[e][n] \/ (e = wanted[m] /\ picks'[e][n] = "pending")
    <3>1. picks' = picks \/ picks' = [picks EXCEPT ![wanted[m]][m] = "pending"]
      BY <1>6 DEF PickCommits
    <3> QED
      BY <2>1, <3>1 DEF Inv, FootballTypeOK
  <2>3. walk' = walk /\ (walk # Idle => walk.retiring \subseteq Days)
    BY <1>6 DEF PickCommits, Inv, FootballTypeOK, Walks
  <2> QED
    BY <2>1, <2>2, <2>3 DEF RetireInv, Retiring
<1>7. ASSUME NEW S, NEW stale, Written(S, stale), walk' = walk PROVE RetireInv' /\ Kept
  <2>1. walk # Idle => walk.retiring \subseteq Days
    BY DEF Inv, FootballTypeOK, Walks
  <2> QED
    BY <1>7, <2>1 DEF Written, RetireInv
<1>8. ASSUME NEW d \in Days, VoidNonScoringRound(d) PROVE RetireInv' /\ Kept
  <2>1. \A e \in Days, n \in Members : picks'[e][n] = "none" <=> picks[e][n] = "none"
    BY <1>8 DEF VoidNonScoringRound, Inv, FootballTypeOK
  <2>2. walk' = walk /\ (walk # Idle => walk.retiring \subseteq Days)
    BY <1>8 DEF VoidNonScoringRound, jobs, Inv, FootballTypeOK, Walks
  <2> QED
    BY <2>1, <2>2 DEF RetireInv
<1>9. ASSUME NEW R \in SUBSET Members, SweepSettles(R) \/ HandSettles(R) PROVE RetireInv' /\ Kept
  BY <1>7, <1>9, SweepWrites, HandWrites DEF SweepSettles, HandSettles
<1> QED
  BY <1>1, <1>2, <1>3, <1>4, <1>5, <1>6, <1>8, <1>9
  DEF Next, vars, week, jobs, NextDay, EditWeekday, DeclareExtraWeek, WithdrawExtraWeek,
      PopulateCadenceRounds, SubmitPick, SweepStarts, HandReads

(* No step throws a pick away, unless a pick or a void lands between a      *)
(* retirement's look and its delete (retire_stranded_rounds).               *)
THEOREM NoPickIsThrownAway == "retirement" \notin Overlaps => (Spec => PicksAreKept)
<1> SUFFICES ASSUME "retirement" \notin Overlaps PROVE Spec => PicksAreKept
  OBVIOUS
<1>1. Init => Inv /\ RetireInv
  BY InitInv
<1>2. Inv /\ RetireInv /\ [Next]_vars => (Inv /\ RetireInv)'
  BY NextInv, RetireStep
<1>3. Inv /\ RetireInv /\ [Next]_vars
      => [\A d \in Days, m \in Members : picks[d][m] # "none" => picks'[d][m] # "none"]_vars
  BY RetireStep
<1> QED
  BY <1>1, <1>2, <1>3, PTL DEF Spec, PicksAreKept

-----------------------------------------------------------------------------
(* Only an edit, or a walk that goes by an old weekday, takes away a        *)
(* round's standing.                                                        *)
LEMMA WalkGoesByTheWeekday ==
    ASSUME Inv, WalkInv, "walk" \notin Overlaps, [Next]_vars
    PROVE  WalkInv'
<1>1. CASE UNCHANGED <<walk, weekday>>
  BY <1>1 DEF WalkInv
<1>2. CASE DiscoverStarts
  BY <1>2 DEF DiscoverStarts, WalkInv, settings
<1>3. CASE DiscoverRetires \/ \E d \in Days : DiscoverSyncs(d)
  <2>1. walk \in Walks
    BY <1>3 DEF DiscoverRetires, DiscoverSyncs, Inv, FootballTypeOK
  <2> QED
    BY <1>3, <2>1 DEF DiscoverRetires, DiscoverSyncs, WalkInv, Walks, settings
<1>4. CASE DiscoverEnds \/ Restart
  BY <1>4 DEF DiscoverEnds, Restart, WalkInv
<1>5. CASE \E d \in Days : EditWeekday(d)
  BY <1>5 DEF EditWeekday, MayEdit, WalkInv, jobs
<1> QED
  BY <1>1, <1>2, <1>3, <1>4, <1>5
  DEF Next, vars, week, jobs, settings, NextDay, DeclareExtraWeek, WithdrawExtraWeek,
      PopulateCadenceRounds, SubmitPick, PickCommits, SweepStarts, SweepSettles, HandReads,
      HandSettles, VoidNonScoringRound

(* With nothing undeclared in the week every round may settle, and what a   *)
(* deletion takes away can only help a round that stays.                    *)
LEMMA FewerRoundsHelp ==
    ASSUME NEW d \in Days, d \in InWeek, MaySettle(d, {}), UNCHANGED <<weekday, extras>>,
           \A e \in Days : rounds'[e] = rounds[e] \/ rounds'[e] = "none",
           rounds'[d] # "none"
    PROVE  MaySettle(d, {})'
<1>1. InWeek' \subseteq InWeek /\ d \in InWeek' /\ Undeclared(weekday)' \subseteq Undeclared(weekday)
  BY DEF InWeek, Undeclared, Intentional
<1>2. \/ InWeek = {d}
      \/ Undeclared(weekday) = {}
      \/ Intentional(d, weekday) /\ \A e \in Undeclared(weekday) : rounds[e] # "settled"
  BY WhatMaySettle
<1>3. \A e \in Undeclared(weekday)' : rounds'[e] = rounds[e]
  BY DEF Undeclared, InWeek
<1>4. \/ InWeek' = {d}
      \/ Undeclared(weekday)' = {}
      \/ Intentional(d, weekday)' /\ \A e \in Undeclared(weekday)' : rounds'[e] # "settled"
  BY <1>1, <1>2, <1>3 DEF Intentional
<1> QED
  BY <1>1, <1>4, WhatMaySettleNext

(* A round is only added to a week in which nothing is undeclared.          *)
LEMMA NewRoundsAreIntended ==
    ASSUME NEW d \in Days, d \in InWeek', UNCHANGED <<weekday, extras>>,
           \A e \in InWeek' : Intentional(e, weekday)
    PROVE  MaySettle(d, {})'
<1>1. Undeclared(weekday)' = {}
  BY DEF Undeclared, Intentional
<1> QED
  BY <1>1, WhatMaySettleNext

(* Who settles while another round may: not a stray beside it.              *)
LEMMA StraysStandBack ==
    ASSUME Inv, NEW d \in Days, rounds[d] = "unsettled", MaySettle(d, {}),
           UNCHANGED <<weekday, extras>>, rounds'[d] = "unsettled",
           \A e \in Days : \/ rounds'[e] = rounds[e]
                           \/ /\ rounds'[e] = "settled" /\ rounds[e] # "none"
                              /\ \/ \E stale \in SUBSET Days : MaySettle(e, stale)
                                 \/ MayVoid(e)
    PROVE  MaySettle(d, {})'
<1>1. d \in InWeek
  BY DEF InWeek
<1>2. InWeek' = InWeek /\ Undeclared(weekday)' = Undeclared(weekday)
  BY DEF InWeek, Undeclared, Intentional
<1>3. \/ InWeek = {d}
      \/ Undeclared(weekday) = {}
      \/ Intentional(d, weekday) /\ \A e \in Undeclared(weekday) : rounds[e] # "settled"
  BY <1>1, WhatMaySettle
<1>4. CASE InWeek = {d} \/ Undeclared(weekday) = {}
  BY <1>1, <1>2, <1>4, WhatMaySettleNext
<1>5. CASE /\ InWeek # {d} /\ Undeclared(weekday) # {}
           /\ Intentional(d, weekday) /\ \A e \in Undeclared(weekday) : rounds[e] # "settled"
  <2>1. ASSUME NEW e \in Undeclared(weekday), rounds'[e] = "settled" PROVE FALSE
    <3>1. e \in Days /\ e \in InWeek /\ e # d /\ ~Intentional(e, weekday)
      BY <1>5 DEF Undeclared, InWeek
    <3>2. InWeek # {e}
      BY <1>1, <3>1
    <3>3. \A stale \in SUBSET Days : ~MaySettle(e, stale)
      BY <1>5, <3>1, <3>2, WhatMaySettle
    <3>4. Refusal(e, {}) = "undeclared_same_week_round"
      <4>1. ~(Cardinality(InWeek) =< 1)
        BY <3>1, <3>2, AnotherRound DEF InWeek
      <4> QED
        BY <1>5, <3>1, <4>1 DEF Refusal
    <3>5. WeekStillScoring(e)
      BY <1>5, <3>4 DEF WeekStillScoring, Unsettled
    <3> QED
      BY <1>5, <2>1, <3>1, <3>3, <3>5 DEF MayVoid
  <2>2. Intentional(d, weekday)' /\ \A e \in Undeclared(weekday)' : rounds'[e] # "settled"
    BY <1>2, <1>5, <2>1 DEF Intentional
  <2> QED
    BY <1>1, <1>2, <2>2, WhatMaySettleNext
<1> QED
  BY <1>3, <1>4, <1>5

LEMMA StandingStep ==
    ASSUME Inv, WalkInv, [Next]_vars
    PROVE  \A d \in Unsettled : MaySettle(d, {}) /\ UNCHANGED <<weekday, extras>>
               => (rounds'[d] # "unsettled" \/ MaySettle(d, {})')
<1> SUFFICES ASSUME NEW d \in Days, rounds[d] = "unsettled", MaySettle(d, {}),
                    UNCHANGED <<weekday, extras>>, rounds'[d] = "unsettled"
             PROVE  MaySettle(d, {})'
  BY DEF Unsettled
<1>1. d \in InWeek /\ d \in InWeek'
  BY DEF InWeek
<1>2. CASE UNCHANGED rounds
  BY <1>1, <1>2, FewerRoundsHelp
<1>3. CASE DiscoverRetires
  <2>1. \A e \in Days : rounds'[e] = rounds[e] \/ rounds'[e] = "none"
    BY <1>3 DEF DiscoverRetires, Removed
  <2> QED
    BY <1>1, <2>1, FewerRoundsHelp
<1>4. ASSUME NEW e \in Days, DiscoverSyncs(e) PROVE MaySettle(d, {})'
  <2>1. CASE rounds[e] = "none" /\ MayCreate(e, walk.weekday)
    <3>1. Intentional(e, weekday) /\ Undeclared(weekday) = {}
      BY <1>1, <1>4, <2>1 DEF DiscoverSyncs, MayCreate, WalkInv
    <3>2. \A x \in InWeek' : x \in InWeek \/ x = e
      BY <1>4 DEF DiscoverSyncs, InWeek, Inv, FootballTypeOK
    <3> QED
      BY <1>1, <3>1, <3>2, NewRoundsAreIntended DEF Undeclared
  <2>2. CASE ~(rounds[e] = "none" /\ MayCreate(e, walk.weekday))
    BY <1>2, <1>4, <2>2 DEF DiscoverSyncs
  <2> QED
    BY <2>1, <2>2
<1>5. CASE PopulateCadenceRounds
  <2>1. CASE rounds' = Removed(Stranded)
    <3>1. \A e \in Days : rounds'[e] = rounds[e] \/ rounds'[e] = "none"
      BY <2>1 DEF Removed
    <3> QED
      BY <1>1, <3>1, FewerRoundsHelp
  <2>2. CASE rounds' # Removed(Stranded)
    <3>1. /\ \A e \in InWeek \ Stranded : Intentional(e, weekday)
          /\ rounds' = [Removed(Stranded) EXCEPT ![weekday] = "unsettled"]
      BY <1>5, <2>2, Zenon DEF PopulateCadenceRounds
    <3>2. \A e \in InWeek' : e \in InWeek \ Stranded \/ e = weekday
      BY <3>1 DEF InWeek, Removed
    <3>3. Intentional(weekday, weekday)
      BY DEF Intentional
    <3> QED
      BY <1>1, <3>1, <3>2, <3>3, NewRoundsAreIntended
  <2> QED
    BY <2>1, <2>2
<1>6. ASSUME NEW S, NEW stale \in SUBSET Days, Written(S, stale) PROVE MaySettle(d, {})'
  BY <1>6, StraysStandBack DEF Written
<1>7. ASSUME NEW R \in SUBSET Members, SweepSettles(R) PROVE MaySettle(d, {})'
  BY <1>6, <1>7, SweepWrites DEF Sweeps
<1>8. ASSUME NEW R \in SUBSET Members, HandSettles(R) PROVE MaySettle(d, {})'
  BY <1>6, <1>8, HandWrites
<1>9. ASSUME NEW e \in Days, VoidNonScoringRound(e) PROVE MaySettle(d, {})'
  <2>1. /\ rounds[e] # "none" /\ MayVoid(e)
        /\ \A x \in Days : rounds'[x] = rounds[x] \/ (x = e /\ rounds'[x] = "settled")
    BY <1>9 DEF VoidNonScoringRound, MayVoid, Inv, FootballTypeOK
  <2> QED
    BY <2>1, StraysStandBack
<1> QED
  BY <1>2, <1>3, <1>4, <1>5, <1>7, <1>8, <1>9
  DEF Next, vars, week, NextDay, DiscoverStarts, DiscoverEnds, SweepStarts, Restart, EditWeekday,
      DeclareExtraWeek, WithdrawExtraWeek, HandReads, SubmitPick, PickCommits

(* No created round, no settlement and no void takes away a round's         *)
(* standing, unless an edit falls into a running discovery                  *)
(* (new_round_refusal, WEEK_STILL_SCORING).                                 *)
THEOREM StandingIsKept == "walk" \notin Overlaps => (Spec => ScorableStaysScorable)
<1> SUFFICES ASSUME "walk" \notin Overlaps PROVE Spec => ScorableStaysScorable
  OBVIOUS
<1>1. Init => Inv /\ WalkInv
  BY InitInv
<1>2. Inv /\ WalkInv /\ [Next]_vars => (Inv /\ WalkInv)'
  BY NextInv, WalkGoesByTheWeekday
<1>3. Inv /\ WalkInv /\ [Next]_vars
      => [\A d \in Unsettled :
             (MaySettle(d, {}) /\ UNCHANGED <<weekday, extras>>)
                 => (rounds'[d] # "unsettled" \/ MaySettle(d, {})')]_vars
  BY StandingStep
<1> QED
  BY <1>1, <1>2, <1>3, PTL DEF Spec, ScorableStaysScorable

-----------------------------------------------------------------------------
(* What other steps may do to the rounds of a sweep under way: no pick comes*)
(* to a round that has locked, only a pending pick is scored, and a round   *)
(* settles by hand or by a void.                                            *)
LEMMA UnderASweep ==
    ASSUME Inv, [Next]_vars, sweep # Idle, sweep' = sweep, sweep' # Idle,
           NEW d \in sweep.chosen
    PROVE  /\ d \in Days
           /\ \A m \in Members : picks'[d][m] = "pending" => picks[d][m] = "pending"
           /\ \A m \in Members : picks'[d][m] = "scored" => picks[d][m] \in {"scored", "pending"}
           /\ rounds'[d] = "settled" /\ rounds[d] # "settled"
                => rounds[d] # "none" /\ (MayVoid(d) \/ MaySettle(d, {d}))
<1> DEFINE Goal ==
           /\ \A m \in Members : picks'[d][m] = "pending" => picks[d][m] = "pending"
           /\ \A m \in Members : picks'[d][m] = "scored" => picks[d][m] \in {"scored", "pending"}
           /\ rounds'[d] = "settled" /\ rounds[d] # "settled"
                => rounds[d] # "none" /\ (MayVoid(d) \/ MaySettle(d, {d}))
<1>1. d \in Days /\ d =< today /\ today \in Nat
  BY DEF Inv, FootballTypeOK, CalendarInv, Sweeps
<1>2. ASSUME UNCHANGED picks, rounds'[d] \in {rounds[d], "none", "unsettled"} PROVE Goal
  BY <1>2
<1>3. CASE DiscoverRetires
  <2>1. \A m \in Members : NoPicks[m] = "none"
    BY DEF NoPicks
  <2> QED
    BY <1>1, <1>3, <2>1 DEF DiscoverRetires, Removed
<1>4. CASE (\E x \in Days : DiscoverSyncs(x)) \/ PopulateCadenceRounds
  <2>1. UNCHANGED picks
    BY <1>4 DEF DiscoverSyncs, PopulateCadenceRounds
  <2>2. rounds'[d] \in {rounds[d], "none", "unsettled"}
    BY <1>1, <1>4 DEF DiscoverSyncs, PopulateCadenceRounds, Removed, Inv, FootballTypeOK
  <2> QED
    BY <1>1, <1>2, <2>1, <2>2
<1>5. ASSUME NEW m \in Members, PickCommits(m) PROVE Goal
  <2>1. picks'[d] = picks[d]
    <3>1. \/ picks' = picks
          \/ wanted[m] \in Days /\ today < wanted[m]
             /\ picks' = [picks EXCEPT ![wanted[m]][m] = "pending"]
      BY <1>5 DEF PickCommits, Inv, FootballTypeOK
    <3>2. wanted[m] \in Days /\ today < wanted[m] => wanted[m] # d
      BY <1>1, DayAssumption
    <3> QED
      BY <1>1, <3>1, <3>2 DEF Inv, FootballTypeOK
  <2> QED
    BY <1>5, <2>1 DEF PickCommits
<1>6. ASSUME NEW R \in SUBSET Members, HandSettles(R) PROVE Goal
  BY <1>1, <1>6, HandWrites DEF Written
<1>7. ASSUME NEW x \in Days, VoidNonScoringRound(x) PROVE Goal
  BY <1>1, <1>7 DEF VoidNonScoringRound, MayVoid, Inv, FootballTypeOK
<1>8. CASE UNCHANGED week
  BY <1>1, <1>2, <1>8 DEF week
<1>9. ASSUME NEW R \in SUBSET Members, SweepSettles(R) PROVE FALSE
  BY <1>9 DEF SweepSettles
<1> QED
  BY <1>1, <1>3, <1>4, <1>5, <1>6, <1>7, <1>8, <1>9
  DEF Next, vars, NextDay, DiscoverStarts, DiscoverEnds, SweepStarts, Restart, EditWeekday,
      DeclareExtraWeek, WithdrawExtraWeek, HandReads, SubmitPick, PickCommits, week

LEMMA SweepKept ==
    ASSUME Inv, "settlement" \notin Overlaps, [Next]_vars
    PROVE  \/ sweep' = Idle
           \/ sweep = Idle /\ SweepStarts
           \/ sweep # Idle /\ sweep' = sweep /\ UNCHANGED <<weekday, extras>>
<1>1. CASE UNCHANGED <<sweep, weekday, extras>>
  BY <1>1
<1>2. CASE \E d \in Days : EditWeekday(d) \/ DeclareExtraWeek(d) \/ WithdrawExtraWeek(d)
  BY <1>2 DEF EditWeekday, DeclareExtraWeek, WithdrawExtraWeek, MayEdit, jobs
<1>3. CASE SweepStarts
  BY <1>3 DEF SweepStarts
<1>4. CASE Restart \/ \E R \in SUBSET Members : SweepSettles(R)
  BY <1>4 DEF Restart, SweepSettles
<1> QED
  BY <1>1, <1>2, <1>3, <1>4
  DEF Next, vars, jobs, settings, NextDay, DiscoverStarts, DiscoverRetires, DiscoverSyncs,
      DiscoverEnds, PopulateCadenceRounds, SubmitPick, PickCommits, HandReads, HandSettles,
      VoidNonScoringRound

LEMMA StaleStep ==
    ASSUME Inv, StaleInv, "settlement" \notin Overlaps, [Next]_vars
    PROVE  StaleInv'
<1>1. CASE sweep' = Idle
  BY <1>1 DEF StaleInv
<1>2. CASE sweep = Idle /\ SweepStarts
  <2>1. \A e \in sweep'.chosen : rounds'[e] = "unsettled"
    BY <1>2 DEF SweepStarts, week, Unsettled
  <2> QED
    BY <2>1 DEF StaleInv
<1>3. CASE sweep # Idle /\ sweep' = sweep /\ sweep' # Idle /\ UNCHANGED <<weekday, extras>>
  <2> SUFFICES ASSUME NEW d \in sweep.chosen, NEW e \in sweep.chosen,
                      e \in Undeclared(weekday)', rounds'[e] = "settled", Scored(e)' # {},
                      PendingOn(d)' # {}, Intentional(d, weekday)'
               PROVE  FALSE
    BY <1>3 DEF StaleInv
  <2>1. Intentional(d, weekday) /\ ~Intentional(e, weekday) /\ d # e
    BY <1>3 DEF Undeclared, Intentional
  <2>2. PendingOn(d) # {} /\ d \in Days /\ e \in Days
    BY <1>3, UnderASweep DEF PendingOn
  <2>3. rounds[d] = "unsettled" /\ d \in InWeek
    BY <2>2 DEF PendingOn, Inv, FootballTypeOK, ClaimInv, RoundStates, InWeek
  <2>4. PICK m \in Members : picks[e][m] \in {"scored", "pending"}
    BY <1>3, UnderASweep DEF Scored
  <2>5. e \in InWeek /\ e \in Undeclared(weekday)
    BY <2>1, <2>2, <2>4 DEF Inv, ClaimInv, InWeek, Undeclared
  <2>6. CASE rounds[e] = "settled"
    <3>1. \A n \in Members : picks[e][n] # "pending"
      BY <2>2, <2>6 DEF Inv, ClaimInv
    <3>2. Scored(e) # {}
      BY <2>4, <3>1 DEF Scored
    <3> QED
      BY <1>3, <2>1, <2>2, <2>5, <2>6, <3>2 DEF StaleInv
  <2>7. CASE rounds[e] # "settled"
    <3>1. InWeek # {e} /\ Undeclared(weekday) # {}
      BY <2>1, <2>3, <2>5
    <3>2. ~MaySettle(e, {e})
      BY <2>1, <2>2, <2>5, <3>1, WhatMaySettle
    <3>3. Refusal(e, {}) = "undeclared_same_week_round"
      <4>1. ~(Cardinality(InWeek) =< 1)
        BY <2>5, <3>1, AnotherRound DEF InWeek
      <4> QED
        BY <2>1, <3>1, <4>1 DEF Refusal
    <3>4. WeekStillScoring(e)
      BY <2>1, <2>2, <2>3, <3>3 DEF WeekStillScoring, Unsettled
    <3> QED
      BY <1>3, <2>7, <3>2, <3>4, UnderASweep DEF MayVoid
  <2> QED
    BY <2>6, <2>7
<1> QED
  BY <1>1, <1>2, <1>3, SweepKept

(* Whoever scores asks the rule of the rounds as they are.                  *)
LEMMA ScoresByTheRule ==
    ASSUME Inv, StaleInv, NEW d \in Days, NEW S, NEW stale \in SUBSET Days, Written(S, stale),
           Scored(d)' # Scored(d),
           (stale = {d}) \/ (sweep # Idle /\ S = sweep.chosen /\ stale = sweep.chosen)
    PROVE  \/ InWeek = {d}
           \/ /\ Intentional(d, weekday)
              /\ \A e \in Undeclared(weekday) : rounds[e] = "settled" => Scored(e) = {}
<1>1. PICK m \in Members : picks[d][m] = "pending" /\ d \in S /\ MaySettle(d, stale)
  <2>1. PICK m \in Members : picks'[d][m] # picks[d][m]
    BY DEF Scored
  <2> QED
    BY <2>1 DEF Written
<1>2. d \in InWeek /\ PendingOn(d) # {}
  BY <1>1 DEF Inv, ClaimInv, InWeek, PendingOn
<1>3. \/ InWeek = {d}
      \/ Undeclared(weekday) = {}
      \/ Intentional(d, weekday) /\ \A e \in Undeclared(weekday) \ stale : rounds[e] # "settled"
  BY <1>1, <1>2, WhatMaySettle
<1>4. CASE Undeclared(weekday) = {}
  BY <1>2, <1>4 DEF Undeclared
<1>5. CASE Intentional(d, weekday) /\ \A e \in Undeclared(weekday) \ stale : rounds[e] # "settled"
  <2> SUFFICES ASSUME NEW e \in Undeclared(weekday), rounds[e] = "settled", Scored(e) # {}
               PROVE  FALSE
    BY <1>5
  <2>1. e \in stale /\ e # d
    BY <1>5 DEF Undeclared
  <2> QED
    BY <1>1, <1>2, <1>5, <2>1 DEF StaleInv
<1> QED
  BY <1>3, <1>4, <1>5

LEMMA ScoringStep ==
    ASSUME Inv, StaleInv, [Next]_vars, NEW d \in Days, Scored(d)' # Scored(d)
    PROVE  \/ InWeek = {d}
           \/ /\ Intentional(d, weekday)
              /\ \A e \in Undeclared(weekday) : rounds[e] = "settled" => Scored(e) = {}
<1> DEFINE Goal == \/ InWeek = {d}
                   \/ /\ Intentional(d, weekday)
                      /\ \A e \in Undeclared(weekday) : rounds[e] = "settled" => Scored(e) = {}
<1>1. CASE UNCHANGED picks
  BY <1>1 DEF Scored
<1>2. CASE DiscoverRetires
  <2>1. \A m \in Members : NoPicks[m] = "none"
    BY DEF NoPicks
  <2>2. CASE d \in walk.retiring
    <3>1. today =< d /\ today \in Nat /\ d \in Nat
      BY <1>2, <2>2, DayAssumption DEF DiscoverRetires, Inv, CalendarInv, FootballTypeOK
    <3>2. Scored(d) = {}
      BY <3>1 DEF Inv, CalendarInv, Scored
    <3>3. Scored(d)' = {}
      BY <1>2, <2>1, <2>2 DEF DiscoverRetires, Scored
    <3> QED
      BY <3>2, <3>3
  <2>3. CASE d \notin walk.retiring
    BY <1>2, <2>3 DEF DiscoverRetires, Scored
  <2> QED
    BY <2>2, <2>3
<1>3. ASSUME NEW m \in Members, PickCommits(m) PROVE FALSE
  <2>1. \/ picks' = picks
        \/ /\ wanted[m] \in Days /\ picks[wanted[m]][m] = "none"
           /\ picks' = [picks EXCEPT ![wanted[m]][m] = "pending"]
    BY <1>3 DEF PickCommits, Inv, FootballTypeOK
  <2>2. \A n \in Members : picks'[d][n] = "scored" <=> picks[d][n] = "scored"
    BY <2>1 DEF Inv, FootballTypeOK
  <2> QED
    BY <2>2 DEF Scored
<1>4. ASSUME NEW x \in Days, VoidNonScoringRound(x) PROVE FALSE
  <2>1. \A n \in Members : picks'[d][n] = "scored" <=> picks[d][n] = "scored"
    BY <1>4 DEF VoidNonScoringRound, Inv, FootballTypeOK
  <2> QED
    BY <2>1 DEF Scored
<1>5. ASSUME NEW R \in SUBSET Members, SweepSettles(R) PROVE Goal
  BY <1>5, SweepWrites, ScoresByTheRule DEF SweepSettles, Sweeps
<1>6. ASSUME NEW R \in SUBSET Members, HandSettles(R) PROVE Goal
  <2>1. hand \in Days /\ Written({hand}, {hand})
    BY <1>6, HandWrites
  <2>2. d = hand
    BY <2>1 DEF Written, Scored
  <2> QED
    BY <2>1, <2>2, ScoresByTheRule
<1> QED
  BY <1>1, <1>2, <1>3, <1>4, <1>5, <1>6
  DEF Next, vars, week, NextDay, DiscoverStarts, DiscoverSyncs, DiscoverEnds,
      PopulateCadenceRounds, SweepStarts, Restart, EditWeekday, DeclareExtraWeek,
      WithdrawExtraWeek, HandReads, SubmitPick

(* A window edit never buys a league a second scoring opportunity, unless   *)
(* it falls into a running settlement (_same_week_round_may_settle).        *)
THEOREM OneRoundScores == "settlement" \notin Overlaps => (Spec => OneScoringRound)
<1> SUFFICES ASSUME "settlement" \notin Overlaps PROVE Spec => OneScoringRound
  OBVIOUS
<1>1. Init => Inv /\ StaleInv
  BY InitInv
<1>2. Inv /\ StaleInv /\ [Next]_vars => (Inv /\ StaleInv)'
  BY NextInv, StaleStep
<1>3. Inv /\ StaleInv /\ [Next]_vars
      => [\A d \in Days :
             Scored(d)' # Scored(d) =>
                 \/ InWeek = {d}
                 \/ /\ Intentional(d, weekday)
                    /\ \A e \in Undeclared(weekday) : rounds[e] = "settled" => Scored(e) = {}]_vars
  BY ScoringStep
<1> QED
  BY <1>1, <1>2, <1>3, PTL DEF Spec, OneScoringRound

-----------------------------------------------------------------------------
(* No dead end.  A settlement that leaves a round open leaves a pick of it  *)
(* pending, so the sweep never takes an open round for one nobody is        *)
(* waiting on (pending_event_ids, _settle_empty_rounds).                    *)
OpenInv == \A d \in Unsettled : Picked(d) => PendingOn(d) # {}

LEMMA OpenStep ==
    ASSUME Inv, OpenInv, [Next]_vars
    PROVE  OpenInv'
<1> SUFFICES ASSUME NEW d \in Days, rounds'[d] = "unsettled",
                    NEW m \in Members, picks'[d][m] # "none"
             PROVE  \E o \in Members : picks'[d][o] = "pending"
  BY DEF OpenInv, Unsettled, Picked, PendingOn
<1>1. CASE rounds[d] = "unsettled" /\ picks'[d] = picks[d]
  BY <1>1 DEF OpenInv, Unsettled, Picked, PendingOn
<1>2. rounds[d] = "none" => picks[d][m] = "none"
  BY DEF Inv, ClaimInv
<1>3. rounds[d] \in RoundStates
  BY DEF Inv, FootballTypeOK
<1>4. ASSUME UNCHANGED <<rounds, picks>> PROVE \E o \in Members : picks'[d][o] = "pending"
  BY <1>1, <1>4
<1>5. CASE DiscoverRetires
  <2>1. rounds'[d] = rounds[d] /\ picks'[d] = picks[d]
    BY <1>5 DEF DiscoverRetires, Removed, NoPicks
  <2> QED
    BY <1>1, <2>1
<1>6. ASSUME NEW e \in Days, DiscoverSyncs(e) PROVE \E o \in Members : picks'[d][o] = "pending"
  <2>1. picks' = picks /\ (rounds'[d] = rounds[d] \/ rounds[d] = "none")
    BY <1>6 DEF DiscoverSyncs, Inv, FootballTypeOK
  <2> QED
    BY <1>1, <1>2, <2>1
<1>7. CASE PopulateCadenceRounds
  <2>1. picks' = picks
    BY <1>7 DEF PopulateCadenceRounds
  <2>2. \/ rounds'[d] = rounds[d]
        \/ d \in Stranded
        \/ d \notin InWeek
    BY <1>7, StrandedRounds DEF PopulateCadenceRounds, Removed
  <2> QED
    BY <1>1, <1>2, <2>1, <2>2, StrandedRounds DEF InWeek
<1>8. ASSUME NEW n \in Members, PickCommits(n) PROVE \E o \in Members : picks'[d][o] = "pending"
  <2>1. wanted[n] \in Days /\ rounds' = rounds
    BY <1>8 DEF PickCommits, Inv, FootballTypeOK
  <2>2. CASE picks'[d] = picks[d]
    BY <1>1, <2>1, <2>2
  <2>3. CASE picks'[d] # picks[d]
    <3>1. d = wanted[n] /\ picks' = [picks EXCEPT ![d][n] = "pending"]
      BY <1>8, <2>1, <2>3 DEF PickCommits, Inv, FootballTypeOK
    <3>2. picks'[d][n] = "pending"
      BY <3>1 DEF Inv, FootballTypeOK
    <3> QED
      BY <3>2
  <2> QED
    BY <2>2, <2>3
<1>9. ASSUME NEW e \in Days, VoidNonScoringRound(e)
      PROVE  \E o \in Members : picks'[d][o] = "pending"
  <2>1. d # e /\ rounds'[d] = rounds[d] /\ picks'[d] = picks[d]
    BY <1>9 DEF VoidNonScoringRound, Inv, FootballTypeOK
  <2> QED
    BY <1>1, <2>1
<1>10. ASSUME NEW R \in SUBSET Members, SweepSettles(R) \/ HandSettles(R)
       PROVE  \E o \in Members : picks'[d][o] = "pending"
  <2>1. PICK S, stale : Written(S, stale)
    BY <1>10, SweepWrites, HandWrites
  <2> QED
    BY <1>1, <2>1 DEF Written
<1> QED
  BY <1>4, <1>5, <1>6, <1>7, <1>8, <1>9, <1>10
  DEF Next, vars, week, NextDay, EditWeekday, DeclareExtraWeek, WithdrawExtraWeek, DiscoverStarts,
      DiscoverEnds, SubmitPick, SweepStarts, HandReads, Restart

(* What the nightly sweep or an operator could end now: a round an operator *)
(* may void, or one the guard lets settle that has a pick to score or that  *)
(* nobody picked in.                                                        *)
CanEnd(d) ==
    \/ MayVoid(d)
    \/ MaySettle(d, Unsettled) /\ (PendingOn(d) # {} \/ ~Picked(d))

(* The strays wait for the week's own rounds and these wait for nobody but  *)
(* a stray that has settled: whenever every open round has been played, one *)
(* of them can be ended, whatever was edited and whoever settled what in    *)
(* between (WEEK_STILL_SCORING, settle_refusal).  EveryRoundEnds is this    *)
(* once the clock and the jobs are fair.                                    *)
NoDeadEnd ==
    Unsettled # {} /\ (\A d \in Unsettled : Played(d)) => \E d \in Unsettled : CanEnd(d)

LEMMA OpenMeansNoDeadEnd ==
    ASSUME Inv, OpenInv
    PROVE  NoDeadEnd
<1> SUFFICES ASSUME NEW x \in Unsettled, \A d \in Unsettled : Played(d),
                    \A d \in Unsettled : ~CanEnd(d)
             PROVE  FALSE
  BY DEF NoDeadEnd
<1>1. \A d \in Unsettled : d \in Days /\ d \in InWeek /\ rounds[d] = "unsettled" /\ d =< today
  BY DayAssumption DEF Unsettled, InWeek, Played, Inv, FootballTypeOK
<1>2. \A d \in Unsettled : ~MaySettle(d, Unsettled)
  BY DEF OpenInv, CanEnd
<1>3. \A d \in Unsettled : Refusal(d, {}) = Refusal(d, Unsettled)
  BY DEF Refusal, Undeclared, InWeek, Unsettled
<1>4. \A d \in Unsettled : Refusal(d, {}) # "none" /\ WeekStillScoring(d)
  BY <1>1, <1>2, <1>3 DEF MaySettle, CanEnd, MayVoid
<1>5. PICK e \in Unsettled : Intentional(e, weekday)
  BY <1>4 DEF WeekStillScoring
<1>6. Refusal(e, {}) # "undeclared_same_week_round"
  BY <1>5 DEF Refusal
<1> QED
  BY <1>4, <1>6 DEF WeekStillScoring

(* No football week ever reaches a point where every open round has been    *)
(* played and none of them can be scored or voided.                         *)
THEOREM NoWeekGetsStuck == Spec => []NoDeadEnd
<1>1. Init => Inv /\ OpenInv
  BY InitInv DEF Init, OpenInv, Unsettled
<1>2. (Inv /\ OpenInv) /\ [Next]_vars => (Inv /\ OpenInv)'
  BY NextInv, OpenStep
<1>3. Inv /\ OpenInv => NoDeadEnd
  BY OpenMeansNoDeadEnd
<1> QED
  BY <1>1, <1>2, <1>3, PTL DEF Spec

(* The rounds the week has open, and the dates a running walk may still     *)
(* open one on.                                                             *)
StillOpen == Unsettled \cup (IF walk = Idle THEN {} ELSE walk.dates)

(* Once the last date of the week is over, nothing opens a round again that *)
(* is not open or on the list of a walk that started before, and no date    *)
(* comes back onto that list (populate_cadence_rounds, discover_fixtures):  *)
(* with NoDeadEnd, the week only runs out.                                  *)
WeekRunsOut == [][(\A d \in Days : Played(d)) => StillOpen' \subseteq StillOpen]_vars

LEMMA RunsOutStep ==
    ASSUME Inv, [Next]_vars, \A d \in Days : Played(d)
    PROVE  StillOpen' \subseteq StillOpen
<1>0. \A d \in Days : d < today /\ ~(today =< d) /\ ~(today < d)
  BY DayAssumption DEF Played, Inv, FootballTypeOK
<1>1. CASE UNCHANGED <<rounds, walk>>
  BY <1>1 DEF StillOpen, Unsettled
<1>2. CASE DiscoverStarts
  BY <1>0, <1>2 DEF DiscoverStarts, StillOpen, Unsettled, week
<1>3. CASE DiscoverRetires
  <2>1. Unsettled' \subseteq Unsettled
    BY <1>3 DEF DiscoverRetires, Removed, Unsettled
  <2>2. walk # Idle /\ walk'.dates = walk.dates
    BY <1>3 DEF DiscoverRetires, Inv, FootballTypeOK, Walks
  <2> QED
    BY <2>1, <2>2 DEF StillOpen
<1>4. CASE DiscoverEnds \/ Restart
  BY <1>4 DEF DiscoverEnds, Restart, StillOpen, Unsettled, week
<1>5. ASSUME NEW d \in Days, DiscoverSyncs(d) PROVE StillOpen' \subseteq StillOpen
  <2>1. walk # Idle /\ walk \in Walks /\ d \in walk.dates
    BY <1>5 DEF DiscoverSyncs, Inv, FootballTypeOK
  <2>2. walk'.dates = walk.dates \ {d}
    BY <1>5, <2>1 DEF DiscoverSyncs, Walks
  <2>3. Unsettled' \subseteq Unsettled \cup {d}
    BY <1>5 DEF DiscoverSyncs, Unsettled, Inv, FootballTypeOK
  <2> QED
    BY <2>1, <2>2, <2>3 DEF StillOpen
<1>6. CASE PopulateCadenceRounds
  <2>1. Stranded = {}
    BY <1>0, StrandedRounds
  <2>2. rounds' = rounds /\ walk' = walk
    BY <1>0, <1>6, <2>1
    DEF PopulateCadenceRounds, Removed, jobs, Inv, FootballTypeOK
  <2> QED
    BY <1>1, <2>2
<1>7. ASSUME NEW S, NEW stale, Written(S, stale), walk' = walk PROVE StillOpen' \subseteq StillOpen
  BY <1>7 DEF Written, StillOpen, Unsettled
<1>8. ASSUME NEW R \in SUBSET Members, SweepSettles(R) \/ HandSettles(R)
      PROVE  StillOpen' \subseteq StillOpen
  <2>1. walk' = walk
    BY <1>8 DEF SweepSettles, HandSettles
  <2> QED
    BY <1>7, <1>8, <2>1, SweepWrites, HandWrites
<1>9. ASSUME NEW d \in Days, VoidNonScoringRound(d) PROVE StillOpen' \subseteq StillOpen
  BY <1>9 DEF VoidNonScoringRound, StillOpen, Unsettled, Inv, FootballTypeOK, jobs
<1> QED
  BY <1>1, <1>2, <1>3, <1>4, <1>5, <1>6, <1>8, <1>9
  DEF Next, vars, week, jobs, NextDay, EditWeekday, DeclareExtraWeek, WithdrawExtraWeek,
      SubmitPick, PickCommits, SweepStarts, HandReads

(* A week that is over runs out: its open rounds only become fewer.         *)
THEOREM OverIsOver == Spec => WeekRunsOut
<1>1. Inv /\ [Next]_vars => [(\A d \in Days : Played(d)) => StillOpen' \subseteq StillOpen]_vars
  BY RunsOutStep
<1> QED
  BY <1>1, FootballTypes, PTL DEF Spec, WeekRunsOut
=============================================================================
