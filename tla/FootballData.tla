---------------------------- MODULE FootballData ----------------------------
(* The football-data source behind the odds: the daily sweep that stores a  *)
(* bounded number of league tables, the poll for running scores, and the    *)
(* cross-check that takes a called-off match off a card before it opens.    *)
(* All of them read one payload per competition, which the adapter keeps    *)
(* for as long as the process lives.                                        *)
EXTENDS Integers, FiniteSets

CONSTANTS
    LastCompetition,  \* competitions, numbered in the order of their slugs
    Carried,          \* those the source carries; it keeps no table of a cup
    PerRun,           \* football_competitions_per_run
    LivePerRun        \* live_scores_competitions_per_run

ASSUME FootballDataAssumption ==
    /\ LastCompetition \in Nat \ {0} /\ Carried \subseteq 1..LastCompetition
    /\ PerRun \in Nat \ {0} /\ LivePerRun \in Nat

VARIABLES
    listing,  \* what the source lists now of each competition's match on the card
    memo,     \* the payload the adapter holds of each competition, if it has one
    pooled,   \* competitions with a fixture in the sweep's window
    older,    \* pairs of competitions, the one with the older table first: the
              \* order of standings.updated_at, those without a table before all
    sweep,    \* the run under way: competitions to try, tried, and stored so far
    voided,   \* competitions whose match the cross-check took off the card
    passed    \* (history) how often d's table was stored while c waited for its turn

footballVars == <<listing, memo, pooled, older, sweep, voided, passed>>

Competitions == 1..LastCompetition
Listings == {"today", "called off", "another day", "playing", "over"}
NoSweep == [runs |-> FALSE, todo |-> {}, tried |-> {}, done |-> {}]

----------------------------------------------------------------------------
(* The daily sweep                                                          *)

(* pooled_competitions: the first n of S, those never stored first and then *)
(* the oldest table.                                                        *)
LeastRecentlySynced(S, n) == {c \in S : Cardinality({d \in S : <<d, c>> \in older}) < n}

SweepStarts ==
    /\ ~sweep.runs
    /\ sweep' = [NoSweep EXCEPT !.runs = TRUE, !.todo = LeastRecentlySynced(pooled, PerRun)]
    /\ UNCHANGED <<listing, memo, pooled, older, voided, passed>>

(* The adapter's payload: what it holds, or what a request brings.          *)
Payload(c) == IF memo[c] # "none" THEN memo[c] ELSE listing[c]

(* A competition that raises is logged and the sweep goes on; one that is   *)
(* not carried has nothing to store.                                        *)
SweepTries(c) ==
    /\ sweep.runs /\ c \in LeastRecentlySynced(sweep.todo, 1)
    /\ LET rest == [sweep EXCEPT !.todo = @ \ {c}, !.tried = @ \cup {c}]
       IN  \/ /\ c \in Carried
              /\ memo' = [memo EXCEPT ![c] = Payload(c)]
              /\ sweep' = [rest EXCEPT !.done = @ \cup {c}]
           \/ sweep' = rest /\ UNCHANGED memo
    /\ UNCHANGED <<listing, pooled, older, voided, passed>>

(* Mutant of Stamped: no stamp moves, as no figure of a table has.          *)
StampedOnce(done) == older

(* sync_table stamps every table it stores, whether or not it moved: they   *)
(* go behind the others, in the order they were tried in, which is the one  *)
(* they were in.                                                            *)
Stamped(done) ==
    {x \in Competitions \X Competitions :
        \/ x[1] \notin done /\ x[2] \in done
        \/ x \in older /\ (x[1] \in done => x[2] \in done)}

Passing(tried, done) ==
    passed' = [c \in Competitions |-> [d \in Competitions |->
                  IF c \in tried \/ c \notin pooled THEN 0
                  ELSE IF d \in done THEN passed[c][d] + 1 ELSE passed[c][d]]]

(* One commit for the whole run.                                            *)
SweepCommits ==
    /\ sweep.runs /\ sweep.todo = {}
    /\ older' = Stamped(sweep.done)
    /\ Passing(sweep.tried, sweep.done)
    /\ sweep' = NoSweep
    /\ UNCHANGED <<listing, memo, pooled, voided>>

SweepFails ==
    /\ sweep.runs /\ sweep' = NoSweep
    /\ UNCHANGED <<listing, memo, pooled, older, voided, passed>>

(* The backfill runs in a process of its own, over every competition.       *)
Backfill(failing) ==
    LET done == (pooled \cap Carried) \ failing
    IN  /\ ~sweep.runs
        /\ older' = Stamped(done)
        /\ Passing(pooled, done)
        /\ UNCHANGED <<listing, memo, pooled, sweep, voided>>

----------------------------------------------------------------------------
(* Running scores and the cross-check                                       *)

(* A poll asks afresh, so what it gets is what everyone reads next.  A card *)
(* of more competitions than one poll's worth is polled in part.            *)
PollLiveScores(S) ==
    /\ Cardinality(S) =< LivePerRun
    /\ memo' = [c \in Competitions |-> IF c \in S THEN listing[c] ELSE memo[c]]
    /\ UNCHANGED <<listing, pooled, older, sweep, voided, passed>>

(* Not listed as played on the day, or flagged.                             *)
Off(says) == says \in {"called off", "another day"}

(* verify_slate, for one competition on the card.  A source that does not   *)
(* answer, or does not carry it, has no opinion.                            *)
VerifySlate(c) ==
    /\ c \in Carried
    /\ memo' = [memo EXCEPT ![c] = Payload(c)]
    /\ voided' = IF Off(Payload(c)) THEN voided \cup {c} ELSE voided \ {c}
    /\ UNCHANGED <<listing, pooled, older, sweep, passed>>

HasNoOpinion(c) ==
    /\ c \in voided /\ voided' = voided \ {c}
    /\ UNCHANGED <<listing, memo, pooled, older, sweep, passed>>

----------------------------------------------------------------------------
(* Outside                                                                  *)

SourceMoves(c, to) ==
    /\ <<listing[c], to>> \in
           {<<"today", "called off">>, <<"today", "another day">>, <<"today", "playing">>,
            <<"called off", "another day">>, <<"called off", "today">>,
            <<"another day", "today">>, <<"playing", "over">>, <<"playing", "called off">>}
    /\ listing' = [listing EXCEPT ![c] = to]
    /\ UNCHANGED <<memo, pooled, older, sweep, voided, passed>>

PoolMoves(c) ==
    /\ pooled' = IF c \in pooled THEN pooled \ {c} ELSE pooled \cup {c}
    /\ passed' = [passed EXCEPT ![c] = [d \in Competitions |-> 0]]
    /\ UNCHANGED <<listing, memo, older, sweep, voided>>

(* The process restarts with an empty memo.                                 *)
FootballRestart ==
    /\ memo' = [c \in Competitions |-> "none"] /\ sweep' = NoSweep
    /\ UNCHANGED <<listing, pooled, older, voided, passed>>

FootballInit ==
    /\ listing = [c \in Competitions |-> "today"]
    /\ memo = [c \in Competitions |-> "none"]
    /\ pooled = Competitions /\ sweep = NoSweep /\ voided = {}
    /\ older = {x \in Competitions \X Competitions : x[1] < x[2]}
    /\ passed = [c \in Competitions |-> [d \in Competitions |-> 0]]

FootballNext ==
    \/ SweepStarts \/ SweepCommits \/ SweepFails \/ FootballRestart
    \/ \E S \in SUBSET Carried : PollLiveScores(S) \/ Backfill(S)
    \/ \E c \in Competitions :
           \/ SweepTries(c) \/ VerifySlate(c) \/ HasNoOpinion(c) \/ PoolMoves(c)
           \/ \E to \in Listings : SourceMoves(c, to)

FootballSpec == FootballInit /\ [][FootballNext]_footballVars

----------------------------------------------------------------------------
(* "Rotates through rather than starving its tail": while a competition on  *)
(* the card waits for its turn, no other table is stored twice, whatever    *)
(* fails in between (pooled_competitions, sync_table).                      *)
NonePassedTwice == \A c, d \in pooled : passed[c][d] =< 1
=============================================================================
