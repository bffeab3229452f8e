---------------------------- MODULE FootballWeek ----------------------------
(* The rounds one league holds in one Wednesday-to-Tuesday football week.   *)
(*                                                                          *)
(* Only one of them should score: the round on the league's weekday, and    *)
(* whatever dates the season calendar declares for every league.  The rule  *)
(* is asked when a round is created, when a pick is taken and when a round  *)
(* is settled, and the settings it depends on may be edited in between.     *)
(* The discovery walk, the settlement sweep, the hand settlement and the    *)
(* pick all read first, wait, and write later, so each of them is two       *)
(* steps here.  Labels, fixtures and races for a selection are LandGrab's.  *)
EXTENDS Integers, FiniteSets

CONSTANTS
    Days,       \* dates of the week a round may start on; the clock counts them
    Canonical,  \* the week's Saturday, which cannot be declared an extra
    Members,    \* members who may pick
    MaxEdits,   \* bound on edits of the league's weekday and of the calendar
    Overlaps,   \* what may fall into the middle of what
    NoDay, Idle

(* "walk": a settings edit falls into a running discovery; "settlement":    *)
(* into a running sweep or hand settlement; "retirement": a pick or a void  *)
(* lands between a retirement's look for picks and its delete.              *)
OverlapKinds == {"walk", "settlement", "retirement"}

ASSUME DayAssumption == Days \subseteq Nat \ {0} /\ IsFiniteSet(Days) /\ Canonical \in Days
ASSUME BoundAssumption == MaxEdits \in Nat /\ Overlaps \subseteq OverlapKinds
ASSUME NullDayAssumption == NoDay \notin Days

VARIABLES
    today,    \* the date: a round on day d locks when today reaches d
    weekday,  \* the date the league's slate_start_weekday falls on this week
    extras,   \* the calendar's declared dates of this week
    rounds,   \* each date's gameweek row: "none", "unsettled" or "settled"
    picks,    \* each round's picks: "none", "pending", "scored" or "void"
    wanted,   \* the date each member's submission in flight is for
    walk,     \* the discovery run: the weekday it loaded, the rounds it is
              \* about to delete, the dates it walks
    sweep,    \* the settlement run: the rounds it loaded, those it asks about
    hand,     \* the date an operator's hand settlement has loaded
    edits     \* settings edits so far

settings == <<weekday, extras, edits>>
week == <<rounds, picks>>
jobs == <<wanted, walk, sweep, hand>>
vars == <<today, settings, week, jobs>>

----------------------------------------------------------------------------
(* The rule                                                                 *)

InWeek == {d \in Days : rounds[d] # "none"}
Unsettled == {d \in Days : rounds[d] = "unsettled"}
Played(d) == d < today
Picked(d) == \E m \in Members : picks[d][m] # "none"
PendingOn(d) == {m \in Members : picks[d][m] = "pending"}
NoPicks == [m \in Members |-> "none"]

(* _intentional, for a league last seen with weekday w.                     *)
Intentional(d, w) == d = w \/ d \in extras

Undeclared(w) == {d \in InWeek : ~Intentional(d, w)}

(* Mutant of Refusal: the league's own round is never refused.              *)
RefusalOfStraysOnly(d, stale) ==
    IF Cardinality(InWeek) > 1 /\ ~Intentional(d, weekday)
    THEN "undeclared_same_week_round" ELSE "none"

(* settle_refusal, by a session that still sees the rounds of `stale` as    *)
(* unsettled.                                                               *)
Refusal(d, stale) ==
    LET settled == {e \in Undeclared(weekday) \ stale : rounds[e] = "settled"}
    IN IF Cardinality(InWeek) <= 1 \/ Undeclared(weekday) = {} THEN "none"
       ELSE IF ~Intentional(d, weekday) THEN "undeclared_same_week_round"
       ELSE IF settled # {} THEN "undeclared_sibling_already_settled"
       ELSE "none"

MaySettle(d, stale) == Refusal(d, stale) = "none"

(* Mutant of MayCreate: only the new date is asked about (CORR-20).         *)
MayCreateBesideStray(d, w) == InWeek = {} \/ Intentional(d, w)

(* new_round_refusal: the week is empty, or nothing in it is undeclared and *)
(* the new date is not either.                                              *)
MayCreate(d, w) == InWeek = {} \/ (Intentional(d, w) /\ Undeclared(w) = {})

(* retire_stranded_rounds: not settled, nobody has picked, from today on.   *)
Stranded ==
    {d \in Unsettled : ~Intentional(d, weekday) /\ today <= d /\ ~Picked(d)}

(* _week_has_settled_round                                                  *)
WeekHasSettled == \E d \in Days : rounds[d] = "settled"

(* The results of the members R are known: their pending picks are scored,  *)
(* and the round flips once none is left.                                   *)
Score(d, R) ==
    [m \in Members |-> IF m \in R /\ picks[d][m] = "pending" THEN "scored" ELSE picks[d][m]]

Flips(d, R) == PendingOn(d) \subseteq R

----------------------------------------------------------------------------
(* Time and settings                                                        *)

Retiring == IF walk = Idle THEN {} ELSE walk.retiring

MeetsNoRetirement(d) == d \in Retiring => "retirement" \in Overlaps

(* No day passes between the two local statements of a retirement.          *)
NextDay ==
    /\ \E d \in Days : today <= d
    /\ Retiring = {}
    /\ today' = today + 1
    /\ UNCHANGED <<settings, week, jobs>>

MayEdit ==
    /\ edits < MaxEdits
    /\ walk # Idle => "walk" \in Overlaps
    /\ sweep # Idle \/ hand # NoDay => "settlement" \in Overlaps

(* update_league, slate_start_weekday                                       *)
EditWeekday(d) ==
    /\ MayEdit
    /\ d # weekday
    /\ weekday' = d
    /\ edits' = edits + 1
    /\ UNCHANGED <<today, extras, week, jobs>>

DeclareExtraWeek(d) ==
    /\ MayEdit
    /\ today <= d /\ d # Canonical
    /\ ~WeekHasSettled
    /\ d \notin extras
    /\ extras' = extras \cup {d}
    /\ edits' = edits + 1
    /\ UNCHANGED <<today, weekday, week, jobs>>

WithdrawExtraWeek(d) ==
    /\ MayEdit
    /\ d \in extras
    /\ ~Picked(d)
    /\ extras' = extras \ {d}
    /\ edits' = edits + 1
    /\ UNCHANGED <<today, weekday, week, jobs>>

----------------------------------------------------------------------------
(* Discovery                                                                *)

Removed(S) == [d \in Days |-> IF d \in S THEN "none" ELSE rounds[d]]

(* discover_fixtures loads the leagues, selects what is stranded and fixes  *)
(* the dates it will walk: cadence, declared, and those it holds rounds on. *)
DiscoverStarts ==
    /\ walk = Idle
    /\ LET kept == Unsettled \ Stranded
       IN walk' = [weekday |-> weekday, retiring |-> Stranded,
                   dates |-> {d \in Days : today <= d /\ (Intentional(d, weekday) \/ d \in kept)}]
    /\ UNCHANGED <<today, settings, week, wanted, sweep, hand>>

(* The delete takes the selected rounds by id, and the picks on them by     *)
(* cascade.                                                                 *)
DiscoverRetires ==
    /\ walk # Idle
    /\ walk.retiring # {}
    /\ rounds' = Removed(walk.retiring)
    /\ picks' = [d \in Days |-> IF d \in walk.retiring THEN NoPicks ELSE picks[d]]
    /\ walk' = [walk EXCEPT !.retiring = {}]
    /\ UNCHANGED <<today, settings, wanted, sweep, hand>>

(* sync_slate on one date: the rule is asked of the league as loaded, of    *)
(* the calendar and of the rounds as they are now.                          *)
DiscoverSyncs(d) ==
    /\ walk # Idle
    /\ walk.retiring = {}
    /\ d \in walk.dates
    /\ rounds' = IF rounds[d] = "none" /\ MayCreate(d, walk.weekday)
                 THEN [rounds EXCEPT ![d] = "unsettled"] ELSE rounds
    /\ walk' = [walk EXCEPT !.dates = @ \ {d}]
    /\ UNCHANGED <<today, settings, picks, wanted, sweep, hand>>

(* The walk is done, or the provider or its budget stops it.                *)
DiscoverEnds ==
    /\ walk # Idle
    /\ walk' = Idle
    /\ UNCHANGED <<today, settings, week, wanted, sweep, hand>>

(* populate_cadence_rounds: an admin's refresh, on the cadence date only    *)
(* and never for a deadline already gone.                                   *)
PopulateCadenceRounds ==
    /\ LET kept == InWeek \ Stranded
           d == weekday
       IN rounds' = IF d \notin kept /\ today < d /\ \A e \in kept : Intentional(e, weekday)
                    THEN [Removed(Stranded) EXCEPT ![d] = "unsettled"]
                    ELSE Removed(Stranded)
    /\ UNCHANGED <<today, settings, picks, jobs>>

----------------------------------------------------------------------------
(* Picks                                                                    *)

(* submit_pick up to the await: the clock, then the rule.                   *)
SubmitPick(m, d) ==
    /\ wanted[m] = NoDay
    /\ rounds[d] = "unsettled"
    /\ today < d
    /\ MaySettle(d, {})
    /\ wanted' = [wanted EXCEPT ![m] = d]
    /\ UNCHANGED <<today, settings, week, walk, sweep, hand>>

(* After it: the clock again.  The insert fails if the round is gone.       *)
PickCommits(m) ==
    /\ wanted[m] # NoDay
    /\ MeetsNoRetirement(wanted[m])
    /\ LET d == wanted[m]
       IN picks' = IF today < d /\ d \in InWeek /\ picks[d][m] = "none"
                   THEN [picks EXCEPT ![d][m] = "pending"] ELSE picks
    /\ wanted' = [wanted EXCEPT ![m] = NoDay]
    /\ UNCHANGED <<today, settings, rounds, walk, sweep, hand>>

----------------------------------------------------------------------------
(* Settlement                                                               *)

(* settleable_gameweeks and pending_event_ids, then the provider is asked.  *)
SweepStarts ==
    /\ sweep = Idle
    /\ LET chosen == {d \in Unsettled : d <= today}
       IN /\ chosen # {}
          /\ sweep' = [chosen |-> chosen, asked |-> {d \in chosen : PendingOn(d) # {}}]
    /\ UNCHANGED <<today, settings, week, wanted, walk, hand>>

(* settle_gameweek on every round asked about, _settle_empty_rounds on the  *)
(* others, one commit, and an announcement for each round that flipped.  To *)
(* this session every round it loaded is still unsettled.  R: the members   *)
(* whose results the provider has.                                          *)
SweepSettles(R) ==
    /\ sweep # Idle
    /\ LET may == {d \in sweep.chosen : MaySettle(d, sweep.chosen)}
           asked == may \cap sweep.asked
           empty == {d \in may \ sweep.asked : Played(d) /\ ~Picked(d)}
           known == [d \in Days |-> IF Played(d) THEN R ELSE {}]
           flipped == {d \in asked : Flips(d, known[d])} \cup empty
       IN IF flipped \subseteq InWeek
          THEN /\ picks' = [d \in Days |-> IF d \in asked THEN Score(d, known[d]) ELSE picks[d]]
               /\ rounds' = [d \in Days |-> IF d \in flipped THEN "settled" ELSE rounds[d]]
          ELSE UNCHANGED week
    /\ sweep' = Idle
    /\ UNCHANGED <<today, settings, wanted, walk, hand>>

(* settle_manually reads the round without a row lock ...                   *)
HandReads(d) ==
    /\ hand = NoDay
    /\ rounds[d] = "unsettled"
    /\ Played(d)
    /\ hand' = d
    /\ UNCHANGED <<today, settings, week, wanted, walk, sweep>>

(* ... and settles what it read.                                            *)
HandSettles(R) ==
    /\ hand # NoDay
    /\ LET d == hand
           settles == MaySettle(d, {d})
           flips == settles /\ Flips(d, R)
       IN /\ picks' = IF settles THEN [picks EXCEPT ![d] = Score(d, R)] ELSE picks
          /\ rounds' = IF flips THEN [rounds EXCEPT ![d] = "settled"] ELSE rounds
    /\ hand' = NoDay
    /\ UNCHANGED <<today, settings, wanted, walk, sweep>>

(* Mutant of WeekStillScoring: every refused round waits.                   *)
EveryRefusalWaits(d) == \E e \in Unsettled : Intentional(e, weekday)

(* WEEK_STILL_SCORING: an undeclared round waits for the intentional ones.  *)
WeekStillScoring(d) ==
    /\ Refusal(d, {}) = "undeclared_same_week_round"
    /\ \E e \in Unsettled : Intentional(e, weekday)

MayVoid(d) ==
    /\ rounds[d] = "unsettled"
    /\ d <= today
    /\ Refusal(d, {}) # "none"
    /\ ~WeekStillScoring(d)

(* void_non_scoring_round holds the row's lock from its read to its commit. *)
VoidNonScoringRound(d) ==
    /\ MayVoid(d)
    /\ MeetsNoRetirement(d)
    /\ picks' = [picks EXCEPT ![d] =
           [m \in Members |-> IF picks[d][m] = "pending" THEN "void" ELSE picks[d][m]]]
    /\ rounds' = [rounds EXCEPT ![d] = "settled"]
    /\ UNCHANGED <<today, settings, jobs>>

(* The process restarts: nothing of what was running is written.            *)
Restart ==
    /\ jobs # <<[m \in Members |-> NoDay], Idle, Idle, NoDay>>
    /\ wanted' = [m \in Members |-> NoDay]
    /\ walk' = Idle /\ sweep' = Idle /\ hand' = NoDay
    /\ UNCHANGED <<today, settings, week>>

----------------------------------------------------------------------------
Init ==
    /\ today = 0
    /\ weekday \in Days
    /\ extras = {}
    /\ rounds = [d \in Days |-> "none"]
    /\ picks = [d \in Days |-> NoPicks]
    /\ wanted = [m \in Members |-> NoDay]
    /\ walk = Idle /\ sweep = Idle /\ hand = NoDay
    /\ edits = 0

Next ==
    \/ NextDay \/ DiscoverStarts \/ DiscoverRetires \/ DiscoverEnds \/ PopulateCadenceRounds
    \/ SweepStarts \/ Restart
    \/ \E d \in Days : \/ EditWeekday(d) \/ DeclareExtraWeek(d) \/ WithdrawExtraWeek(d)
                       \/ DiscoverSyncs(d) \/ HandReads(d) \/ VoidNonScoringRound(d)
                       \/ \E m \in Members : SubmitPick(m, d)
    \/ \E m \in Members : PickCommits(m)
    \/ \E R \in SUBSET Members : SweepSettles(R) \/ HandSettles(R)

Spec == Init /\ [][Next]_vars

(* Days pass, a statement that was issued ends, the sweep runs every        *)
(* evening and in the end has every result, and an operator voids what the  *)
(* Results screen shows as refused.                                         *)
Fairness ==
    /\ SF_vars(NextDay) /\ WF_vars(DiscoverRetires)
    /\ WF_vars(SweepStarts) /\ SF_vars(SweepSettles(Members))
    /\ \A d \in Days : SF_vars(VoidNonScoringRound(d))

FairSpec == Spec /\ Fairness

----------------------------------------------------------------------------
(* Properties                                                               *)

Scored(d) == {m \in Members : picks[d][m] = "scored"}

(* A round that scores is the only round of its week, or an intentional one *)
(* beside which no undeclared round has scored and settled: a window edit   *)
(* never buys a league a second scoring opportunity                         *)
(* (_same_week_round_may_settle).                                           *)
OneScoringRound ==
    [][\A d \in Days :
          Scored(d)' # Scored(d) =>
              \/ InWeek = {d}
              \/ /\ Intentional(d, weekday)
                 /\ \A e \in Undeclared(weekday) : rounds[e] = "settled" => Scored(e) = {}]_vars

(* Only an edit of the settings takes away a round's standing to score: no  *)
(* created round, no settlement and no void ever makes the guard refuse a   *)
(* round it would have settled (new_round_refusal, WEEK_STILL_SCORING).     *)
ScorableStaysScorable ==
    [][\A d \in Unsettled :
          (MaySettle(d, {}) /\ UNCHANGED <<weekday, extras>>)
              => (rounds'[d] # "unsettled" \/ MaySettle(d, {})')]_vars

(* "If that old row already holds a pick, retirement must preserve the      *)
(* claim" (_same_week_round_may_settle): no step throws a pick away.        *)
PicksAreKept ==
    [][\A d \in Days, m \in Members : picks[d][m] # "none" => picks'[d][m] # "none"]_vars

(* Every round ends, scored or voided: the guard that makes a stray wait    *)
(* for the week and the guard that refuses the week's own round beside a    *)
(* settled stray never leave the two waiting for each other.                *)
EveryRoundEnds == <>[](Unsettled = {})
=============================================================================
