------------------------------ MODULE Results ------------------------------
(* Results: what the provider or an operator says of a fixture becomes the  *)
(* status of every pick on it, a round with nothing pending settles, its    *)
(* members are told their line, and an operator corrects a pick or a whole  *)
(* fixture afterwards.  The sweep, the hand settlement and the telling each *)
(* read, wait and write; several leagues share a fixture.  Who may settle   *)
(* is FootballWeek's and which picks exist is LandGrab's: the rounds here   *)
(* are locked and free to settle.                                           *)
EXTENDS Outcomes, FiniteSets

CONSTANTS
    Picks,       \* the picks: [round, member, fixture, market, outcome]
    Scores,      \* final scores a fixture may have: <<home, away>>
    MaxEntries,  \* results an operator types in
    MaxLosses    \* tellings cut short by a failure or a restart

(* A pick names a selection of its market; a round is one league's, and a   *)
(* member has one pick in it (uq_picks_league_gameweek_player).             *)
ASSUME ResultsAssumption ==
    /\ IsFiniteSet(Picks)
    /\ \A p \in Picks :
          p.outcome \in Selections /\ p.market = MarketOf(p.outcome)
    /\ \A p, q \in Picks : p.round = q.round /\ p.member = q.member => p = q
    /\ MaxEntries \in Nat /\ MaxLosses \in Nat

VARIABLES
    shown,      \* shown[f]: the settlement the provider reports
    status,     \* status[p]: picks.status
    settled,    \* the rounds whose status is settled
    job,        \* job[j]: a sweep, a hand settlement or a fixture's correction under way
    told,       \* told[p]: the result in the last line its member was sent
    typed,      \* (history) typed[f]: the results operators settled or corrected f by
    corrected,  \* (history) corrected[p]: the verdict p was corrected to while no settlement
                \* had it in hand
    excused,    \* (history) picks whose member's line may be out of date
    entries,    \* results typed in
    losses      \* tellings cut short
resultVars == <<shown, status, settled, job, told, typed, corrected, excused, entries, losses>>

Rounds == {p.round : p \in Picks}
Games == {p.fixture : p \in Picks}
On(f) == {p \in Picks : p.fixture = f}
Of(r) == {p \in Picks : p.round = r}
Jobs == {"sweep", "hand", "correction"}

Verdicts == {Voided} \cup {FromScore(s) : s \in Scores}

(* A pick goes by its own market alone: the other one settling says nothing.*)
\* mutant: a settled fixture is taken to have settled both markets
ResolveByFixture(p, s) ==
    IF s.void THEN "void"
    ELSE IF s.markets = {} THEN "pending"
    ELSE IF p.outcome \in s.won THEN "won"
    ELSE IF p.market \notin s.markets \/ p.outcome \in s.absent THEN "void"
    ELSE "lost"
Resolve(p, s) ==
    IF s.void THEN "void"
    ELSE IF p.market \notin s.markets THEN "pending"
    ELSE IF p.outcome \in s.absent THEN "void"
    ELSE IF p.outcome \in s.won THEN "won"
    ELSE "lost"

NoJob == [at |-> "idle", rounds |-> {}, rows |-> {}, answer |-> [f \in Games |-> Unsettled],
         line |-> [p \in {} |-> "pending"]]

ResultsInit ==
    /\ shown = [f \in Games |-> Unsettled]
    /\ status = [p \in Picks |-> "pending"]
    /\ settled = {}
    /\ job = [j \in Jobs |-> NoJob]
    /\ told = [p \in Picks |-> "pending"]
    /\ typed = [f \in Games |-> {}]
    /\ corrected = [p \in Picks |-> "pending"]
    /\ excused = {} /\ entries = 0 /\ losses = 0

(***************************************************************************)
(* The provider.  One market may close before the other, selections may be  *)
(* taken out of it, and it may close without a winner; a fixture called off *)
(* is void, or has its markets closed with every selection taken out.       *)
(***************************************************************************)
Closes(f) ==
    /\ ~shown[f].void
    /\ \E M \in SUBSET (Markets \ shown[f].markets) \ {{}},
           winners \in {Winners(s) : s \in Scores} \cup {{}}, gone \in SUBSET Selections :
           LET here == {o \in Selections : MarketOf(o) \in M} IN
           /\ gone \subseteq here
           /\ shown' = [shown EXCEPT ![f] = [void |-> FALSE, markets |-> @.markets \cup M,
                            won |-> @.won \cup ((winners \cap here) \ gone),
                            absent |-> @.absent \cup gone]]
    /\ UNCHANGED <<status, settled, job, told, typed, corrected, excused, entries, losses>>
CalledOff(f) ==
    /\ shown[f] = Unsettled
    /\ shown' = [shown EXCEPT ![f] = Voided]
    /\ UNCHANGED <<status, settled, job, told, typed, corrected, excused, entries, losses>>

(***************************************************************************)
(* Settling.  A job writes the rows it selected as pending, whatever they   *)
(* have become since, counts what is left as far as it is committed or its  *)
(* own, and flips the rounds with nothing left; the rows it has written     *)
(* stay locked until it commits.                                            *)
(***************************************************************************)
Pending(R) == {p \in Picks : p.round \in R /\ status[p] = "pending"}

SweepAsks ==
    /\ job["sweep"].at = "idle"
    /\ LET waiting == Pending(Rounds \ settled) IN
       /\ waiting # {}
       /\ job' = [job EXCEPT !["sweep"] = [NoJob EXCEPT
                     !.at = "asked", !.rounds = {p.round : p \in waiting},
                     !.answer = [f \in Games |-> IF \E p \in waiting : p.fixture = f
                                                 THEN shown[f] ELSE Unsettled]]]
    /\ UNCHANGED <<shown, status, settled, told, typed, corrected, excused, entries, losses>>

SweepSelects ==
    /\ job["sweep"].at = "asked"
    /\ job' = [job EXCEPT !["sweep"].at = "read", !["sweep"].rows = Pending(job["sweep"].rounds)]
    /\ UNCHANGED <<shown, status, settled, told, typed, corrected, excused, entries, losses>>

HandSelects(r) ==
    /\ job["hand"].at = "idle" /\ r \notin settled /\ entries < MaxEntries
    /\ \E F \in SUBSET {p.fixture : p \in Pending({r})} : \E v \in [F -> Verdicts] :
           /\ F # {}
           /\ job' = [job EXCEPT !["hand"] = [NoJob EXCEPT
                         !.at = "read", !.rounds = {r}, !.rows = Pending({r}),
                         !.answer = [f \in Games |-> IF f \in F THEN v[f] ELSE Unsettled]]]
    /\ entries' = entries + 1
    /\ UNCHANGED <<shown, status, settled, told, typed, corrected, excused, losses>>

(* A line that somebody has read and not yet sent is stale once the result  *)
(* it quotes has changed.                                                   *)
InHand(p) == \E j \in Jobs : p \in DOMAIN job[j].line
Selected(p) == \E j \in Jobs : p \in job[j].rows
Locked == UNION {job[j].rows : j \in {k \in Jobs : job[k].at = "counted"}}

Decided(j) == {p \in job[j].rows : Resolve(p, job[j].answer[p.fixture]) # "pending"}
Scored(j) ==
    [p \in Picks |-> IF p \in Decided(j) THEN Resolve(p, job[j].answer[p.fixture]) ELSE status[p]]

Flips(j, scored) ==
    {r \in job[j].rounds : \A p \in Of(r) : scored[p] # "pending"}

Counts(j) ==
    /\ job[j].at = "read" /\ Decided(j) \cap Locked = {}
    /\ job' = [job EXCEPT ![j].at = "counted", ![j].rows = Decided(j),
                           ![j].rounds = Flips(j, Scored(j))]
    /\ UNCHANGED <<shown, status, settled, told, typed, corrected, excused, entries, losses>>

(* Whoever flipped a round tells its members.  A verdict rewritten by a     *)
(* settlement that did not flip the round is told to nobody.                *)
Commits(j) ==
    /\ job[j].at = "counted"
    /\ status' = Scored(j)
    /\ settled' = settled \cup job[j].rounds
    /\ job' = [job EXCEPT ![j] = IF job[j].rounds = {} THEN NoJob
                                 ELSE [NoJob EXCEPT !.at = "announce", !.rounds = job[j].rounds]]
    /\ typed' = IF j = "sweep" THEN typed ELSE [f \in Games |-> typed[f] \cup ({job[j].answer[f]} \ {Unsettled})]
    /\ excused' = excused \cup {p \in Picks : status'[p] # status[p]
                                  /\ (InHand(p) \/ p.round \in settled \ job[j].rounds)}
    /\ UNCHANGED <<shown, told, corrected, entries, losses>>

(***************************************************************************)
(* Corrections lock the rows they rewrite.  A single pick's is silent; a    *)
(* fixture's tells the members of settled rounds whose result moved.        *)
(***************************************************************************)
Corrections(M, v) ==
    [p \in Picks |-> IF p \notin M THEN corrected[p] ELSE IF Selected(p) THEN "pending" ELSE Resolve(p, v)]

CorrectPick(p) ==
    /\ status[p] # "pending" /\ p \notin Locked /\ entries < MaxEntries
    /\ \E v \in Verdicts :
           /\ Resolve(p, v) # status[p]
           /\ status' = [status EXCEPT ![p] = Resolve(p, v)]
           /\ typed' = [typed EXCEPT ![p.fixture] = @ \cup {v}]
           /\ corrected' = Corrections({p}, v)
    /\ excused' = excused \cup {p} /\ entries' = entries + 1
    /\ UNCHANGED <<shown, settled, job, told, losses>>

Corrected(f) == {p \in On(f) : status[p] # "pending"}

CorrectFixture(f) ==
    /\ job["correction"].at = "idle" /\ Corrected(f) \cap Locked = {} /\ entries < MaxEntries
    /\ \E v \in Verdicts :
         LET moved == {p \in Corrected(f) : Resolve(p, v) # status[p]} IN
         /\ moved # {}
         /\ status' = [p \in Picks |-> IF p \in moved THEN Resolve(p, v) ELSE status[p]]
         /\ typed' = [typed EXCEPT ![f] = @ \cup {v}]
         /\ corrected' = Corrections(moved, v)
         /\ excused' = excused \cup {p \in moved : InHand(p)}
         /\ job' = [job EXCEPT !["correction"] = [NoJob EXCEPT
                       !.at = "announce", !.line = [p \in moved |-> Resolve(p, v)]]]
    /\ entries' = entries + 1
    /\ UNCHANGED <<shown, settled, told, losses>>

(***************************************************************************)
(* Telling.  A settled round's picks are read once and its members told one *)
(* after the other; a correction keeps the lines of the picks it wrote on   *)
(* rounds that are settled when it looks.                                   *)
(***************************************************************************)
\* mutant: a correction tells only the members whose pick it makes won
PreparesGoodNews(j) ==
    \/ /\ j = "correction"
       /\ job' = [job EXCEPT ![j].at = "tell",
                      ![j].line = [p \in {q \in DOMAIN @ : q.round \in settled /\ @[q] = "won"} |-> @[p]]]
    \/ \E r \in job[j].rounds :
          job' = [job EXCEPT ![j].at = "tell", ![j].rounds = @ \ {r},
                             ![j].line = [p \in Of(r) |-> status[p]]]
Prepares(j) ==
    \/ /\ j = "correction"
       /\ job' = [job EXCEPT ![j].at = "tell",
                      ![j].line = [p \in {q \in DOMAIN @ : q.round \in settled} |-> @[p]]]
    \/ \E r \in job[j].rounds :
          job' = [job EXCEPT ![j].at = "tell", ![j].rounds = @ \ {r},
                             ![j].line = [p \in Of(r) |-> status[p]]]

ReadsLines(j) ==
    /\ job[j].at = "announce"
    /\ Prepares(j)
    /\ UNCHANGED <<shown, status, settled, told, typed, corrected, excused, entries, losses>>

(* The members are told in the order they were listed.                      *)
ToTell(j) == CHOOSE p \in DOMAIN job[j].line : TRUE
Tells(j) ==
    /\ job[j].at = "tell" /\ DOMAIN job[j].line # {}
    /\ LET p == ToTell(j) IN
       /\ told' = [told EXCEPT ![p] = job[j].line[p]]
       /\ excused' = IF job[j].line[p] = status[p] /\ \A k \in Jobs \ {j} : p \notin DOMAIN job[k].line
                     THEN excused \ {p} ELSE excused
       /\ job' = [job EXCEPT ![j].line = [q \in DOMAIN @ \ {p} |-> @[q]]]
    /\ UNCHANGED <<shown, status, settled, typed, corrected, entries, losses>>

ToldAll(j) ==
    /\ job[j].at = "tell" /\ DOMAIN job[j].line = {}
    /\ job' = [job EXCEPT ![j] = IF @.rounds = {} THEN NoJob ELSE [@ EXCEPT !.at = "announce"]]
    /\ UNCHANGED <<shown, status, settled, told, typed, corrected, excused, entries, losses>>

(* A failure or a restart ends a telling, or a settlement before it commits.*)
Dies(j) ==
    /\ job[j].at # "idle" /\ losses < MaxLosses
    /\ losses' = losses + 1
    /\ job' = [job EXCEPT ![j] = NoJob]
    /\ excused' = excused \cup DOMAIN job[j].line
                  \cup (IF job[j].at \in {"announce", "tell"}
                        THEN {p \in Picks : p.round \in job[j].rounds} ELSE {})
    /\ UNCHANGED <<shown, status, settled, told, typed, corrected, entries>>

ResultsNext ==
    \/ \E f \in Games : Closes(f) \/ CalledOff(f) \/ CorrectFixture(f)
    \/ SweepAsks \/ SweepSelects
    \/ \E r \in Rounds : HandSelects(r)
    \/ \E p \in Picks : CorrectPick(p)
    \/ \E j \in Jobs : Counts(j) \/ Commits(j) \/ ReadsLines(j) \/ ToldAll(j) \/ Dies(j) \/ Tells(j)

ResultsSpec == ResultsInit /\ [][ResultsNext]_resultVars
-----------------------------------------------------------------------------
(* A verdict is earned: no pick is won, lost or void unless the provider    *)
(* shows, or an operator typed in, a result that says so of the pick's own  *)
(* market.  One market of a fixture says nothing of the other, and a pick   *)
(* is void only if the game was off or its selection vanished from a market *)
(* that settled (resolve_pick, settle_gameweek).  And a correction holds:   *)
(* what a pick was corrected to while no settlement had it in hand, no      *)
(* sweep or hand settlement undoes, whatever it read before                 *)
(* (correct_pick, correct_fixture).                                         *)
SaysOf(p, verdict, s) ==
    \/ verdict = "won" /\ p.outcome \in s.won
    \/ verdict = "lost" /\ p.market \in s.markets /\ p.outcome \notin s.won \cup s.absent
    \/ verdict = "void" /\ (s.void \/ p.outcome \in s.absent)
ResultsAreEarned ==
    \A p \in Picks :
        /\ status[p] # "pending" =>
               \E s \in {shown[p.fixture]} \cup typed[p.fixture] : SaysOf(p, status[p], s)
        /\ corrected[p] \in {"pending", status[p]}

(* What the settlements' own words say of them: a pick that is scored is    *)
(* left alone by every settlement, only corrections rewrite it.             *)
ScoredIsLeftAlone ==
    [][\A p \in Picks : status[p] # "pending" /\ entries' = entries => status'[p] = status[p]]_resultVars

(* The last line a member was sent quotes their pick's result as it stands, *)
(* through overlapping settlements that disagree and fixture corrections at *)
(* any moment.  Out of its reach, and named in excused: a line that was     *)
(* already read when the result changed under it, a single pick's           *)
(* correction, which tells nobody, a scored pick rewritten by a settlement  *)
(* that leaves its settled round as it is, and a telling that a failure cut *)
(* short.                                                                   *)
LastWordIsTold ==
    \A p \in Picks :
        told[p] \in {"pending", status[p]} \/ p \in excused
        \/ \E j \in Jobs : p \in DOMAIN job[j].line
                           \/ (job[j].at \in {"announce", "tell"} /\ p.round \in job[j].rounds)
=============================================================================
