---------------------------- MODULE SeasonWeeks ----------------------------
(* The season's weeks and the names of its rounds.  One calendar for every  *)
(* league holds the Saturday of week one and the extra dates the site's     *)
(* admins declare; a round's public name is worked out of it and of the     *)
(* dates every league plays on, whenever it is read.  Discovery adds rounds *)
(* and may start or pull back the calendar, admins edit it, leagues move    *)
(* their weekday and dissolve, and rounds settle, in between.               *)
EXTENDS Integers, FiniteSets, FiniteSetsExt

CONSTANTS
    Leagues,    \* the deployment's leagues
    Dates,      \* dates of one season; date 0 is a Wednesday
    Weekdays,   \* days after Wednesday a league may play on
    Legacy,     \* dates each league may have rounds on from before the calendar
    MaxChanges  \* bound on edits of the calendar and of the leagues

ASSUME SeasonAssumption ==
    /\ Dates \subseteq Nat /\ IsFiniteSet(Dates) /\ Dates # {} /\ Legacy \subseteq Dates
    /\ Weekdays \subseteq 0..6 /\ MaxChanges \in Nat

VARIABLES
    date,       \* today
    anchor,     \* the calendar's week_one_anchor, or NoCalendar
    extras,     \* its extra_weeks
    cadence,    \* cadence[l]: the weekday l plays on
    roundOn,    \* roundOn[l][d]: l's round on d: "none", "open" or "settled"
    number,     \* number[l][d]: that round's number in its league
    claimed,    \* the <<l, d>> somebody has a pick on
    dissolved,  \* leagues deleted
    changes     \* edits so far
seasonVars == <<date, anchor, extras, cadence, roundOn, number, claimed, dissolved, changes>>

NoCalendar == -1
Saturday(d) == d - (d % 7) + 3
Week(d) == {e \in Dates : Saturday(e) = Saturday(d)}

(***************************************************************************)
(* Names.  A week is ordered over its Saturday, its declared dates and the  *)
(* dates played in it; whatever comes before the anchor is in week one too. *)
(***************************************************************************)
WeekNumber(d) == LET n == (Saturday(d) - anchor) \div 7 + 1 IN IF n < 1 THEN 1 ELSE n
Occurrence(d) == IF d \in extras THEN d ELSE Saturday(d)

RoundsOf(l) == {d \in Dates : roundOn[l][d] # "none"}
Current == Leagues \ dissolved
Labelled == UNION {RoundsOf(l) : l \in Current}
Occurrences(n) ==
    LET played == {d \in Labelled : WeekNumber(d) = n}
        added == {d \in extras : WeekNumber(d) = n} IN
    IF played \cup added = {} THEN {}
    ELSE {anchor + 7 * (n - 1)} \cup added \cup {Occurrence(d) : d \in played}
Label(d) ==
    <<WeekNumber(d), Cardinality({o \in Occurrences(WeekNumber(d)) : o =< Occurrence(d)})>>

(* Two dates may share a label; of one league's rounds the first keeps it   *)
(* and each later one takes the next the week has not used.                 *)
Earlier(l, d) == {e \in RoundsOf(l) : WeekNumber(e) = WeekNumber(d) /\ e < d}
Doubled(l, d) == \E e \in Earlier(l, d) : Label(e) = Label(d)
\* mutant: rounds of one week share its label
NameShared(l, d) == IF anchor = NoCalendar THEN <<>> ELSE Label(d)
Name(l, d) ==
    CASE anchor = NoCalendar -> <<>>
      [] anchor # NoCalendar /\ Doubled(l, d) ->
             <<WeekNumber(d), Cardinality(Occurrences(WeekNumber(d)))
                              + Cardinality({e \in Earlier(l, d) \cup {d} : Doubled(l, e)})>>
      [] OTHER -> Label(d)

(***************************************************************************)
(* Discovery                                                                *)
(***************************************************************************)
Intentional(l, d) == d % 7 = cadence[l] \/ d \in extras
Undeclared(l, d) == {e \in Week(d) : roundOn[l][e] # "none" /\ ~Intentional(l, e)}
InWeek(l, d) == RoundsOf(l) \cap Week(d)
AnySettled(L, S) == \E l \in L, d \in S : roundOn[l][d] = "settled"

\* mutant: one past how many there are
NextNumberByCount(l) == Cardinality(RoundsOf(l)) + 1
NextNumber(l) == Max({0} \cup {number[l][d] : d \in RoundsOf(l)}) + 1

(* A season without a round starts its calendar; one that has rounds and no *)
(* calendar is left to the backfill; and while nothing has settled an       *)
(* earlier round pulls the anchor back.                                     *)
Ensured(d) == IF anchor = NoCalendar /\ Labelled = {} THEN Saturday(d) ELSE anchor
\* mutant: an anchor is pulled back whatever has settled
ReanchoredAnyway(from, d) ==
    LET first == Saturday(Min(Labelled \cup {d})) IN
    IF from # NoCalendar /\ first < from THEN first ELSE from
Reanchored(from, d) ==
    LET first == Saturday(Min(Labelled \cup {d})) IN
    IF from # NoCalendar /\ first < from /\ ~AnySettled(Current, Dates) THEN first ELSE from

CreatesRound(l, d) ==
    /\ l \in Current /\ roundOn[l][d] = "none" /\ d >= date /\ Intentional(l, d)
    /\ InWeek(l, d) = {} \/ Undeclared(l, d) = {}
    /\ roundOn' = [roundOn EXCEPT ![l][d] = "open"]
    /\ number' = [number EXCEPT ![l][d] = NextNumber(l)]
    /\ anchor' = Reanchored(Ensured(d), d)
    /\ UNCHANGED <<date, extras, cadence, claimed, dissolved, changes>>

RetiresStrays(l) ==
    LET strays == {d \in RoundsOf(l) : /\ roundOn[l][d] = "open" /\ d >= date
                                       /\ ~Intentional(l, d) /\ <<l, d>> \notin claimed} IN
    /\ l \in Current /\ strays # {}
    /\ roundOn' = [roundOn EXCEPT ![l] = [d \in Dates |-> IF d \in strays THEN "none" ELSE @[d]]]
    /\ number' = [number EXCEPT ![l] = [d \in Dates |-> IF d \in strays THEN 0 ELSE @[d]]]
    /\ UNCHANGED <<date, anchor, extras, cadence, claimed, dissolved, changes>>

(***************************************************************************)
(* Play.  The settle guard is FootballWeek's.                               *)
(***************************************************************************)
DatePasses ==
    /\ \E d \in Dates : d > date /\ (\A e \in Dates : e > date => e >= d) /\ date' = d
    /\ UNCHANGED <<anchor, extras, cadence, roundOn, number, claimed, dissolved, changes>>
ClaimsOn(l, d) ==
    /\ l \in Current /\ roundOn[l][d] = "open" /\ d >= date /\ <<l, d>> \notin claimed
    /\ claimed' = claimed \cup {<<l, d>>}
    /\ UNCHANGED <<date, anchor, extras, cadence, roundOn, number, dissolved, changes>>
Settles(l, d) ==
    /\ l \in Current /\ roundOn[l][d] = "open" /\ d =< date
    /\ \/ InWeek(l, d) = {d} \/ Undeclared(l, d) = {}
       \/ Intentional(l, d) /\ \A e \in Undeclared(l, d) : roundOn[l][e] # "settled"
    /\ roundOn' = [roundOn EXCEPT ![l][d] = "settled"]
    /\ UNCHANGED <<date, anchor, extras, cadence, number, claimed, dissolved, changes>>

(***************************************************************************)
(* Edits.  Admins' checks ask about every league, dissolved ones included.  *)
(***************************************************************************)
Edit == changes < MaxChanges /\ changes' = changes + 1

MovesAnchor(a) ==
    /\ Edit /\ a # anchor
    /\ IF anchor = NoCalendar THEN \A l \in Leagues : RoundsOf(l) = {} ELSE ~AnySettled(Leagues, Dates)
    /\ anchor' = a
    /\ UNCHANGED <<date, extras, cadence, roundOn, number, claimed, dissolved>>

DeclaresExtra(d) ==
    /\ Edit /\ anchor # NoCalendar /\ d >= date /\ d \notin extras
    /\ d # Saturday(d) \/ d < anchor
    /\ ~AnySettled(Leagues, Week(d))
    /\ extras' = extras \cup {d}
    /\ UNCHANGED <<date, anchor, cadence, roundOn, number, claimed, dissolved>>

WithdrawsExtra(d) ==
    /\ Edit /\ d \in extras /\ \A l \in Leagues : <<l, d>> \notin claimed
    /\ extras' = extras \ {d}
    /\ UNCHANGED <<date, anchor, cadence, roundOn, number, claimed, dissolved>>

Backfills ==
    /\ Edit /\ anchor = NoCalendar /\ Labelled # {}
    /\ anchor' = Saturday(Min(Labelled))
    /\ UNCHANGED <<date, extras, cadence, roundOn, number, claimed, dissolved>>

MovesWeekday(l, w) ==
    /\ Edit /\ l \in Current /\ w # cadence[l]
    /\ cadence' = [cadence EXCEPT ![l] = w]
    /\ UNCHANGED <<date, anchor, extras, roundOn, number, claimed, dissolved>>
Dissolves(l) ==
    /\ Edit /\ l \in Current
    /\ dissolved' = dissolved \cup {l}
    /\ UNCHANGED <<date, anchor, extras, cadence, roundOn, number, claimed>>
-----------------------------------------------------------------------------
SeasonInit ==
    /\ date = Min(Dates)
    /\ anchor = NoCalendar /\ extras = {} /\ claimed = {} /\ dissolved = {} /\ changes = 0
    /\ cadence \in [Leagues -> Weekdays]
    /\ \E S \in SUBSET {x \in Leagues \X Legacy : x[2] % 7 = cadence[x[1]]} :
          /\ roundOn = [l \in Leagues |-> [d \in Dates |-> IF <<l, d>> \in S THEN "open" ELSE "none"]]
          /\ number = [l \in Leagues |-> [d \in Dates |->
                          IF <<l, d>> \in S THEN Cardinality({x \in S : x[1] = l /\ x[2] =< d}) ELSE 0]]

SeasonNext ==
    \/ DatePasses \/ Backfills
    \/ \E l \in Leagues :
          \/ RetiresStrays(l) \/ Dissolves(l) \/ \E w \in Weekdays : MovesWeekday(l, w)
          \/ \E d \in Dates : CreatesRound(l, d) \/ ClaimsOn(l, d) \/ Settles(l, d)
    \/ \E d \in Dates : DeclaresExtra(d) \/ WithdrawsExtra(d)
    \/ \E a \in {Saturday(d) : d \in Dates} : MovesAnchor(a)

SeasonSpec == SeasonInit /\ [][SeasonNext]_seasonVars
-----------------------------------------------------------------------------
(* A settled round keeps the name members were told, whatever is discovered,*)
(* edited or dissolved afterwards.  An extra date of its own week that is   *)
(* withdrawn may still rename it, and so may a round before the anchor that *)
(* goes with its league; and a round before the anchor is in week one only  *)
(* until another date is added to that week (reanchor_from_earliest_round,  *)
(* move_anchor, declare_extra_week, labels_for_dates).                      *)
SettledNamesAreKept ==
    [][\A l \in Leagues \ dissolved', d \in Dates :
          roundOn[l][d] = "settled" /\ anchor # NoCalendar =>
              \/ Name(l, d)' = Name(l, d)
              \/ \E e \in extras \ extras' : WeekNumber(e) = WeekNumber(d)
              \/ \E k \in dissolved' \ dissolved : \E e \in RoundsOf(k) : Saturday(e) < anchor
              \/ Saturday(d) < anchor /\ anchor' = anchor /\ Occurrences(1)' # Occurrences(1)]_seasonVars

(* No two rounds of a league go by one name, or by one number, whatever     *)
(* strays, extra dates and retired rounds there are                         *)
(* (_separate_same_week_rounds, next_gameweek_number).                      *)
NamesDiffer ==
    \A l \in Current : \A d, e \in RoundsOf(l) :
        d # e => /\ number[l][d] # number[l][e]
                 /\ anchor # NoCalendar => Name(l, d) # Name(l, e)
=============================================================================
