------------------------------ MODULE Matches ------------------------------
(* Scores, as members see them.  The football-data source publishes several *)
(* divisions in one payload, which the adapter remembers; the daily sweep   *)
(* stores what it says of a whole season, and the poll what it says of the  *)
(* games being played, each in one transaction of its own.  A coupon leg    *)
(* has only the odds source's spellings and a day to find its game by.      *)
EXTENDS Integers, FiniteSets

CONSTANTS
    Divisions,   \* competitions that share one payload
    Clubs,       \* clubs, by the source's id
    DivisionOf,  \* DivisionOf[c]: the division c plays in
    Tabled,      \* divisions with a table; a cup has none
    Games,       \* numbers of the source's matches
    SideOf,      \* SideOf[g]: its home and its away club
    Spellings,   \* normalised names, the source's and the odds source's
    NameOf,      \* NameOf[c]: the source's own spelling of c
    Likeness,    \* Likeness[n][m]: how alike two spellings are, in percent
    Legs,        \* fixtures, as the odds source lists them
    LegOf,       \* LegOf[l]: its division, its two names and its day
    GameOf,      \* GameOf[l]: the game it is, which nobody has recorded
    Days,        \* days a game may be put on
    MaxGoals     \* bound on a game's goals

ASSUME MatchesAssumption ==
    /\ Games \subseteq Nat /\ Days \subseteq Nat /\ IsFiniteSet(Games) /\ IsFiniteSet(Clubs)
    /\ MaxGoals \in Nat
    /\ DivisionOf \in [Clubs -> Divisions] /\ SideOf \in [Games -> Clubs \X Clubs]
    /\ NameOf \in [Clubs -> Spellings]
    /\ \A n, m \in Spellings : Likeness[n][m] \in 0..100
    /\ \A l \in Legs : /\ {LegOf[l].home, LegOf[l].away} \subseteq Spellings /\ LegOf[l].day \in Nat
                       /\ GameOf[l] \in Games /\ DivisionOf[SideOf[GameOf[l]][1]] = LegOf[l].division

PairThreshold == 80
MatchThreshold == 86
MatchMargin == 5
CandidateWindow == 3

VARIABLES
    actual,  \* actual[g]: its state, its day and the goals published for it
    recalled, \* the payload the adapter remembers, or none
    rows,    \* rows[g]: the stored match
    teams,   \* teams[c]: the division c was last seen in
    alias,   \* alias[d][n]: the club the spelling n means in d
    job      \* job[j]: the sweep's and the poll's transaction
matchesVars == <<actual, recalled, rows, teams, alias, job>>

NoGoals == -1
NoRow == [state |-> "none"]
NoMemo == <<>>
NoClub == "none"
Jobs == {"sweep", "poll"}
NoJob == [at |-> "idle", todo |-> {}, for |-> "none", got |-> <<>>, loaded |-> <<>>,
          sets |-> <<>>, seen |-> {}, names |-> {}]

MatchesInit ==
    /\ actual \in [Games -> [state : {"undrawn", "scheduled"}, day : Days, goals : {NoGoals}]]
    /\ recalled = NoMemo
    /\ rows = [g \in Games |-> NoRow]
    /\ teams = [c \in Clubs |-> NoClub]
    /\ alias = [d \in Divisions |-> [n \in Spellings |-> NoClub]]
    /\ job = [j \in Jobs |-> NoJob]

(***************************************************************************)
(* The games                                                                *)
(***************************************************************************)
Plays(g, from, to) == actual[g].state = from /\ actual' = [actual EXCEPT ![g].state = to]
GameMoves(g) ==
    /\ \/ Plays(g, "undrawn", "scheduled") \/ Plays(g, "scheduled", "live") 
       \/ Plays(g, "live", "finished") \/ Plays(g, "scheduled", "postponed")
       \/ Plays(g, "live", "cancelled")
       \/ /\ actual[g].state = "postponed"
          /\ \E day \in Days : actual' = [actual EXCEPT ![g].state = "scheduled", ![g].day = day]
    /\ UNCHANGED <<recalled, rows, teams, alias, job>>
ScoreMoves(g) ==
    /\ \/ actual[g].state = "live" /\ actual[g].goals < MaxGoals
       \/ actual[g].state = "finished" /\ actual[g].goals = NoGoals
    /\ actual' = [actual EXCEPT ![g].goals = @ + 1]
    /\ UNCHANGED <<recalled, rows, teams, alias, job>>

(***************************************************************************)
(* Storing.  A match of the shared payload belongs to the division its home *)
(* club is in.                                                              *)
(***************************************************************************)
\* mutant: every division takes the whole payload
InAnyDivision(g, d) == TRUE
InDivision(g, d) == DivisionOf[SideOf[g][1]] = d
Sides(g) == {SideOf[g][1], SideOf[g][2]}

\* mutant: a match with a score is a finished match
RowOfScore(d, m) ==
    [division |-> d, state |-> m.state, day |-> m.day, goals |-> m.goals, finished |-> m.goals # NoGoals]
RowOf(d, m) ==
    [division |-> d, state |-> m.state, day |-> m.day, goals |-> m.goals,
     finished |-> m.state = "finished" /\ m.goals # NoGoals]

Seasons(j, d, payload) ==
    {g \in Games : /\ InDivision(g, d) /\ payload[g].state # "undrawn"
                   /\ j = "poll" => payload[g].state = "live" /\ payload[g].goals # NoGoals}

JobStarts(j) ==
    /\ job[j].at = "idle"
    /\ \E D \in (SUBSET Divisions) \ {{}} : job' = [job EXCEPT ![j] = [NoJob EXCEPT !.at = "asks", !.todo = D]]
    /\ UNCHANGED <<actual, recalled, rows, teams, alias>>

(* The poll's request replaces what is remembered; the sweep asks only when *)
(* nothing is.                                                              *)
Asks(j, d) ==
    /\ job[j].at = "asks" /\ d \in job[j].todo
    /\ recalled' = IF j = "poll" \/ recalled = NoMemo THEN actual ELSE recalled
    /\ LET M == Seasons(j, d, recalled') IN
       job' = [job EXCEPT ![j].todo = @ \ {d},
                          ![j].for = d,
                          ![j].at = IF j = "poll" /\ M = {} THEN @ ELSE "reads",
                          ![j].got = [g \in M |-> RowOf(d, recalled'[g])]]
    /\ UNCHANGED <<actual, rows, teams, alias>>
AskFails(j, d) ==
    /\ job[j].at = "asks" /\ d \in job[j].todo
    /\ job' = [job EXCEPT ![j].todo = @ \ {d}]
    /\ UNCHANGED <<actual, recalled, rows, teams, alias>>

ReadsRows(j) ==
    /\ job[j].at = "reads"
    /\ job' = [job EXCEPT ![j].at = "writes", ![j].loaded = [g \in DOMAIN job[j].got |-> rows[g]]]
    /\ UNCHANGED <<actual, recalled, rows, teams, alias>>

(* Only the columns that differ from what was read are written, and a row   *)
(* another transaction has written is waited for.  The sweep stores a       *)
(* table's clubs too, and then learns the odds source's spellings.          *)
Differing(new, old) ==
    IF old = NoRow THEN new ELSE [x \in {y \in DOMAIN new : new[y] # old[y]} |-> new[x]]
Over(change, old) ==
    IF old = NoRow THEN change ELSE [x \in DOMAIN old |-> IF x \in DOMAIN change THEN change[x] ELSE old[x]]
Together(f, g) == [x \in DOMAIN f \cup DOMAIN g |-> IF x \in DOMAIN g THEN g[x] ELSE f[x]]
Held(j) == UNION {DOMAIN job[k].sets : k \in Jobs \ {j}}

(* A spelling means the club it is likest to, if it is like enough and no   *)
(* other comes near.                                                        *)
BestMatch(n, S) ==
    {c \in S : /\ Likeness[n][NameOf[c]] >= MatchThreshold
               /\ \A b \in S \ {c} : Likeness[n][NameOf[c]] - Likeness[n][NameOf[b]] >= MatchMargin}
Means(d, n, S) == IF alias[d][n] # NoClub THEN {alias[d][n]} ELSE BestMatch(n, S)
Spelt(d) == UNION {{LegOf[l].home, LegOf[l].away} : l \in {k \in Legs : LegOf[k].division = d}}

(* The names division d learns when S are its clubs and seen are stored     *)
(* again: the source's own, and then, by the sweep, the odds source's.      *)
\* mutant: a name learnt before is learnt again
LearntAgain(j, d, seen, S) ==
    {<<d, NameOf[c], c>> : c \in seen}
        \cup UNION {{<<d, n, c>> : c \in BestMatch(n, S)} :
                       n \in IF j = "sweep" THEN Spelt(d) \ {NameOf[c] : c \in seen} ELSE {}}
Learnt(j, d, seen, S) ==
    {x \in {<<d, NameOf[c], c>> : c \in seen}
               \cup UNION {{<<d, n, c>> : c \in BestMatch(n, S)} :
                              n \in IF j = "sweep" THEN Spelt(d) \ {NameOf[c] : c \in seen} ELSE {}} :
        alias[d][x[2]] = NoClub}

TableClubs(j, d) == {c \in Clubs : j = "sweep" /\ d \in Tabled /\ DivisionOf[c] = d}
ClubsStored(j) == (UNION {Sides(g) : g \in DOMAIN job[j].got}) \cup TableClubs(j, job[j].for)

Writes(j) ==
    /\ job[j].at = "writes"
    /\ LET got == job[j].got
           d == job[j].for
           seen == ClubsStored(j)
           changed == {g \in DOMAIN got : DOMAIN Differing(got[g], job[j].loaded[g]) # {}}
           names == Learnt(j, d, seen, seen \cup {c \in Clubs : teams[c] = d}) IN
       /\ changed \cap Held(j) = {}
       /\ \A g \in changed : job[j].loaded[g] = NoRow => rows[g] = NoRow
       /\ \A k \in Jobs \ {j} : \A x \in names, y \in job[k].names : <<x[1], x[2]>> # <<y[1], y[2]>>
       /\ job' = [job EXCEPT ![j].at = "asks", ![j].got = <<>>, ![j].loaded = <<>>,
                             ![j].sets = Together(@, [g \in changed |-> Differing(got[g], job[j].loaded[g])]),
                             ![j].seen = @ \cup {<<c, d>> : c \in seen},
                             ![j].names = @ \cup names]
    /\ UNCHANGED <<actual, recalled, rows, teams, alias>>

Commits(j) ==
    /\ job[j].at = "asks" /\ job[j].todo = {}
    /\ rows' = [g \in Games |-> IF g \in DOMAIN job[j].sets THEN Over(job[j].sets[g], rows[g]) ELSE rows[g]]
    /\ teams' = [c \in Clubs |-> IF \E x \in job[j].seen : x[1] = c
                                THEN (CHOOSE x \in job[j].seen : x[1] = c)[2] ELSE teams[c]]
    /\ alias' = [d \in Divisions |-> [n \in Spellings |->
                    IF \E x \in job[j].names : <<x[1], x[2]>> = <<d, n>>
                    THEN (CHOOSE x \in job[j].names : <<x[1], x[2]>> = <<d, n>>)[3] ELSE alias[d][n]]]
    /\ job' = [job EXCEPT ![j] = NoJob]
    /\ UNCHANGED <<actual, recalled>>

(* A statement that fails takes the whole transaction with it.              *)
Fails(j) ==
    /\ job[j].at # "idle" /\ job' = [job EXCEPT ![j] = NoJob]
    /\ UNCHANGED <<actual, recalled, rows, teams, alias>>
Restarts ==
    /\ recalled' = NoMemo /\ job' = [j \in Jobs |-> NoJob]
    /\ UNCHANGED <<actual, rows, teams, alias>>

MatchesNext ==
    \/ \E g \in Games : GameMoves(g) \/ ScoreMoves(g)
    \/ \E j \in Jobs :
          \/ JobStarts(j) \/ ReadsRows(j) \/ Writes(j) \/ Commits(j) \/ Fails(j)
          \/ \E d \in Divisions : Asks(j, d) \/ AskFails(j, d)
    \/ Restarts

MatchesSpec == MatchesInit /\ [][MatchesNext]_matchesVars

(***************************************************************************)
(* Reading.  A leg's game is looked for among the stored ones of its        *)
(* division, around the days of all the legs asked about: its names first,  *)
(* its day between the games they fit, and no answer when more than one is  *)
(* left.                                                                    *)
(***************************************************************************)
HasScore(g) == rows[g] # NoRow /\ rows[g].goals # NoGoals
Around(days, day) ==
    (\E x \in days : day >= x - CandidateWindow) /\ (\E x \in days : day =< x + CandidateWindow)
Candidates(d, days, live) ==
    {g \in Games : /\ HasScore(g) /\ rows[g].division = d
                   /\ live \/ rows[g].finished
                   /\ Around(days, rows[g].day)}

LikenessOf(l, g) ==
    LET h == Likeness[LegOf[l].home][NameOf[SideOf[g][1]]]
        a == Likeness[LegOf[l].away][NameOf[SideOf[g][2]]] IN
    IF h < a THEN h ELSE a
Named(l, S) == {g \in S : LikenessOf(l, g) >= PairThreshold}
OnTheDay(l, S) == {g \in S : rows[g].day = LegOf[l].day}

\* mutant: the likest game, whatever its day
ResolveLikest(l, S) == {g \in Named(l, S) : \A h \in S : LikenessOf(l, h) =< LikenessOf(l, g)}
Resolve(l, S) ==
    LET named == Named(l, S)
        left == IF OnTheDay(l, named) # {} THEN OnTheDay(l, named) ELSE named IN
    IF Cardinality(left) = 1 THEN left ELSE {}

ScorelinesFor(L, live) ==
    LET with(l) == {k \in L : LegOf[k].division = LegOf[l].division} IN
    [l \in L |-> Resolve(l, Candidates(LegOf[l].division, {LegOf[k].day : k \in with(l)}, live))]

(* A club's form: the newest finished games of the clubs asked about, cut   *)
(* at twice as many as there would be without a club meeting another.       *)
Later(g, h) == rows[g].day > rows[h].day \/ (rows[g].day = rows[h].day /\ g < h)
Played(C) == {g \in Games : HasScore(g) /\ rows[g].finished /\ Sides(g) \cap C # {}}
Newest(S, n) == {g \in S : Cardinality({h \in S : Later(h, g)}) < n}
TeamForm(C, n) ==
    [c \in C |-> Newest({g \in Newest(Played(C), 2 * n * Cardinality(C)) : c \in Sides(g)}, n)]

(* The results screen: whole days, the newest that have any.                *)
RecentResults(n) ==
    LET days == {rows[g].day : g \in Played(Clubs)} IN
    {g \in Played(Clubs) : Cardinality({x \in days : x > rows[g].day}) < n}

(* What the pick screen knows of a leg's clubs.                             *)
FixtureContext(l) ==
    LET d == LegOf[l].division IN
    [n \in {LegOf[l].home, LegOf[l].away} |-> Means(d, n, {c \in Clubs : teams[c] = d})]
-----------------------------------------------------------------------------
IsFinal(g) ==
    /\ actual[g].state = "finished" /\ rows[g].goals = actual[g].goals
    /\ rows[g].division = DivisionOf[SideOf[g][1]]
ShownFinalIsFinal ==
    /\ \A L \in (SUBSET Legs) \ {{}}, live \in BOOLEAN : \A l \in L :
          \A g \in ScorelinesFor(L, live)[l] :
              /\ DivisionOf[SideOf[g][1]] = LegOf[l].division
              /\ rows[g].finished \/ ~live => IsFinal(g)
    /\ \A C \in SUBSET UNION {Sides(g) : g \in Played(Clubs)} : \A c \in C :
          LET form == TeamForm(C, 1)[c] IN
          \A g \in form : IsFinal(g) /\ \A h \in Played({c}) : Later(h, g) => h \in form
    /\ \A g \in RecentResults(1) : IsFinal(g)
    /\ \A l \in Legs : \A n \in DOMAIN FixtureContext(l) : Cardinality(FixtureContext(l)[n]) < 2

NoOtherGamesScore ==
    \A L \in (SUBSET Legs) \ {{}}, live \in BOOLEAN : \A l \in L :
        LET own == GameOf[l] IN
        (/\ HasScore(own) /\ (live \/ rows[own].finished) /\ rows[own].day = LegOf[l].day
         /\ LikenessOf(l, own) >= PairThreshold) => ScorelinesFor(L, live)[l] \subseteq {own}

(* The scores shown are the games' own.  What is shown as final is final: a *)
(* scoreline that does not say it is running, a form line and the results   *)
(* screen show games that have ended, with the score they ended with, in    *)
(* their own division; a club's form leaves out no game between two it has; *)
(* and a leg's name stands for one club at most (sync_results,              *)
(* scorelines_for, team_form, recent_results, fixture_context).  And a leg  *)
(* whose own game is stored with a score, on the leg's day and under names  *)
(* that fit, is shown that game's or none, however like the names of        *)
(* another game are (_resolve).                                             *)
ScoresShownAreTrue == ShownFinalIsFinal /\ NoOtherGamesScore

(* A spelling keeps its meaning: once learnt in a division it means the     *)
(* same club there for good, whoever stores clubs and names afterwards      *)
(* (record_alias, resolve_names).                                           *)
NamesKeepTheirMeaning ==
    [][\A d \in Divisions, n \in Spellings : alias[d][n] # NoClub => alias'[d][n] = alias[d][n]]_matchesVars
=============================================================================
