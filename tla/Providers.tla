----------------------------- MODULE Providers -----------------------------
(* The odds provider's client.  One session is shared by the requests and   *)
(* the jobs of the process; each acquires it, and then makes one call of    *)
(* several requests while the games go on.  odds-api.io answers a game at a *)
(* time with a status and a score and counts every request; the Exchange    *)
(* answers all at once with its markets' books, and wants a session token.  *)
EXTENDS Outcomes, FiniteSets, Sequences, SequencesExt

CONSTANTS
    Callers,       \* requests and jobs that use the session at the same time
    Fixtures,      \* the games they ask about
    Competitions,  \* competitions a slate is drawn from
    FinalScores,   \* scores a game may have
    MaxRetries,    \* repeats of one failed request
    BatchSize,     \* games one priced request may name
    MaxBooks,      \* games one catalogue request of the Exchange may return
    MaxLapses      \* bound on failed logins and lapsed sessions

ASSUME ProvidersAssumption ==
    /\ IsFiniteSet(Fixtures) /\ IsFiniteSet(Competitions) /\ "nobody" \notin Callers
    /\ MaxRetries \in Nat /\ BatchSize \in Nat \ {0} /\ MaxBooks \in Nat /\ MaxLapses \in Nat

VARIABLES
    source,  \* the provider configured: "odds-api" or "exchange"
    game,    \* game[f]: how far it is, its score so far, whether the score is published
    closed,  \* closed[f]: the markets the Exchange has closed
    runner,  \* runner[f]: what it makes of each selection, as its books show it
    client,  \* the session's client: its number, its token, the catalogue it remembers
    stale,     \* it was last validated too long ago
    holder,  \* the caller that holds the session's lock, or "nobody"
    caller,  \* caller[c]: where it is and the call it makes
    logins,  \* (history) logins tried
    lapses   \* (history) logins refused and sessions lapsed
providerVars == <<source, game, closed, runner, client, stale, holder, caller, logins, lapses>>

NoClient == [number |-> 0, token |-> "none", leagues |-> FALSE]
Live == client # NoClient
Idle == [at |-> "idle", op |-> "none", asked |-> {}, todo |-> <<>>, got |-> <<>>, tries |-> 0,
         sent |-> 0, limited |-> 0, number |-> 0]
Ops == {"slate", "odds", "settle"}
Subjects(op) == IF op = "slate" THEN Competitions ELSE Fixtures

ProvidersInit ==
    /\ source \in {"odds-api", "exchange"}
    /\ game = [f \in Fixtures |-> [phase |-> "scheduled", score |-> <<0, 0>>, posted |-> FALSE]]
    /\ closed = [f \in Fixtures |-> {}]
    /\ runner = [f \in Fixtures |-> [o \in Selections |-> "active"]]
    /\ client = NoClient /\ stale = FALSE /\ holder = "nobody"
    /\ caller = [c \in Callers |-> Idle]
    /\ logins = 0 /\ lapses = 0

(***************************************************************************)
(* The games.  A score is published while a game is still on, and a game    *)
(* that has ended may be without one for a while.                           *)
(***************************************************************************)
GameMoves(f) ==
    /\ game' \in {[game EXCEPT ![f] = to] : to \in
           [phase : {"live"}, score : FinalScores \cup {<<0, 0>>}, posted : {TRUE}]
           \cup [phase : {"ended"}, score : FinalScores, posted : {FALSE}]
           \cup [phase : {"off"}, score : {game[f].score}, posted : {FALSE}]}
    /\ game[f].phase \in {"scheduled", "live"} /\ (game[f].phase = "scheduled" => game'[f].phase # "ended")
    /\ UNCHANGED <<source, closed, runner, client, stale, holder, caller, logins, lapses>>
ScorePosted(f) ==
    /\ game[f].phase = "ended" /\ ~game[f].posted
    /\ game' = [game EXCEPT ![f].posted = TRUE]
    /\ UNCHANGED <<source, closed, runner, client, stale, holder, caller, logins, lapses>>
(* The Exchange closes the markets of a game that is over.  It takes        *)
(* selections out of them, all of them when the game was called off, and it *)
(* may close a market without naming a winner; it never names a wrong one.  *)
MarketCloses(f) ==
    /\ source = "exchange" /\ game[f].phase \in {"ended", "off"}
    /\ \E m \in Markets \ closed[f], named \in BOOLEAN :
       LET here == {o \in Selections : MarketOf(o) = m} IN
       \E out \in SUBSET here :
           /\ game[f].phase = "off" => out = here
           /\ closed' = [closed EXCEPT ![f] = @ \cup {m}]
           /\ runner' = [runner EXCEPT ![f] = [o \in Selections |->
                  IF o \notin here THEN @[o] ELSE IF o \in out THEN "removed"
                  ELSE IF named /\ o \in Winners(game[f].score) THEN "winner" ELSE "loser"]]
    /\ UNCHANGED <<source, game, client, stale, holder, caller, logins, lapses>>

\* mutant: a score is taken for a result
VerdictByScore(f) ==
    IF game[f].phase = "off" THEN Voided
    ELSE IF game[f].posted THEN FromScore(game[f].score) ELSE Unsettled
Verdict(f) ==
    CASE game[f].phase = "off" -> Voided
      [] game[f].phase = "ended" /\ game[f].posted -> FromScore(game[f].score)
      [] OTHER -> Unsettled

(* A selection that is removed, or gone from the book, is left out of the   *)
(* outcomes of its closed market; every other one has won or lost.          *)
RunnersOf(f, S) == {o \in Selections : MarketOf(o) \in closed[f] /\ runner[f][o] \in S}
\* mutant: a removed selection is one that has not won
ClosedBooksAll(f) ==
    [void |-> FALSE, markets |-> closed[f], won |-> RunnersOf(f, {"winner"}), absent |-> {}]
ClosedBooks(f) ==
    [void |-> FALSE, markets |-> closed[f], won |-> RunnersOf(f, {"winner"}),
     absent |-> RunnersOf(f, {"removed"})]

(***************************************************************************)
(* The session.  Whoever holds its lock logs in or keeps it alive; a        *)
(* session that cannot be kept is dropped, closed under whoever uses it,    *)
(* and replaced.                                                            *)
(***************************************************************************)
Goes(c, to) == caller' = [caller EXCEPT ![c].at = to]

Calls(c, op) ==
    /\ caller[c].at \in {"idle", "done"}
    /\ \E A \in (SUBSET Subjects(op)) \ {{}} :
           caller' = [caller EXCEPT ![c] = [Idle EXCEPT !.at = "waits", !.op = op, !.asked = A]]
    /\ UNCHANGED <<source, game, closed, runner, client, stale, holder, logins, lapses>>

\* mutant: whether there is a client is asked before the lock is waited for
TakesLockUnasked(c) ==
    /\ caller[c].at = "waits" /\ (Live => holder = "nobody")
    /\ holder' = c
    /\ Goes(c, IF ~Live THEN "login" ELSE IF stale THEN "keeps" ELSE "acquired")
    /\ UNCHANGED <<source, game, closed, runner, client, stale, logins, lapses>>
TakesLock(c) ==
    /\ caller[c].at = "waits" /\ holder = "nobody"
    /\ holder' = c
    /\ Goes(c, IF ~Live THEN "login" ELSE IF stale THEN "keeps" ELSE "acquired")
    /\ UNCHANGED <<source, game, closed, runner, client, stale, logins, lapses>>

LogsIn(c) ==
    /\ caller[c].at = "login"
    /\ logins' = logins + 1
    /\ client' = [NoClient EXCEPT !.number = logins + 1,
                                  !.token = IF source = "exchange" THEN "live" ELSE "none"]
    /\ stale' = FALSE
    /\ Goes(c, "acquired")
    /\ UNCHANGED <<source, game, closed, runner, holder, lapses>>
LoginFails(c) ==
    /\ caller[c].at = "login" /\ source = "exchange" /\ lapses < MaxLapses
    /\ logins' = logins + 1 /\ lapses' = lapses + 1
    /\ holder' = "nobody" /\ Goes(c, "done")
    /\ UNCHANGED <<source, game, closed, runner, client, stale>>

KeepsAlive(c) ==
    /\ caller[c].at = "keeps"
    /\ \/ client.token = "live" /\ UNCHANGED client
       \/ source = "odds-api" /\ UNCHANGED client
    /\ stale' = FALSE
    /\ Goes(c, "acquired")
    /\ UNCHANGED <<source, game, closed, runner, holder, logins, lapses>>
KeepAliveFails(c) ==
    /\ caller[c].at = "keeps" /\ source = "exchange" /\ lapses < MaxLapses
    /\ lapses' = lapses + 1
    /\ client' = NoClient /\ stale' = FALSE
    /\ Goes(c, "login")
    /\ UNCHANGED <<source, game, closed, runner, holder, logins>>

SessionAges ==
    /\ Live /\ ~stale /\ stale' = TRUE
    /\ \/ UNCHANGED client
       \/ client.token = "live" /\ client' = [client EXCEPT !.token = "lapsed"]
    /\ UNCHANGED <<source, game, closed, runner, holder, caller, logins, lapses>>

(***************************************************************************)
(* The call.  What it will ask for is laid out when it starts: priced games *)
(* in batches, results one by one, a slate by competition behind the        *)
(* catalogue, unless a client of odds-api.io already has it; the Exchange's *)
(* catalogue and books are one request each.                                *)
(***************************************************************************)
Batches(S) ==
    LET q == SetToSeq(S)
        upTo(i) == IF i * BatchSize < Len(q) THEN i * BatchSize ELSE Len(q) IN
    [i \in 1..((Len(q) + BatchSize - 1) \div BatchSize) |->
        ToSet(SubSeq(q, (i - 1) * BatchSize + 1, upTo(i)))]
OneByOne(S) == LET q == SetToSeq(S) IN [i \in 1..Len(q) |-> {q[i]}]

Catalogue == {}
ExchangePlan(op, A) == IF op = "slate" THEN <<Catalogue>> \o OneByOne(A) ELSE <<Catalogue, A>>
Planned(op, A) ==
    CASE source = "exchange" -> ExchangePlan(op, A)
      [] source = "odds-api" /\ op = "slate" ->
             IF client.leagues THEN OneByOne(A) ELSE <<Catalogue>> \o OneByOne(A)
      [] source = "odds-api" /\ op = "odds" -> Batches(A)
      [] source = "odds-api" /\ op = "settle" -> OneByOne(A)

BeginsCall(c) ==
    /\ caller[c].at = "acquired"
    /\ holder' = "nobody"
    /\ caller' = [caller EXCEPT ![c].at = "calls", ![c].number = client.number,
                                ![c].todo = Planned(caller[c].op, caller[c].asked)]
    /\ UNCHANGED <<source, game, closed, runner, client, stale, logins, lapses>>

Refused == {"key-refused", "bookmaker-not-on-plan", "bad-request", "not-json", "no-session"}
\* mutant: a rate limit is tried again
RetryableAll(answer) == answer \in {"no-answer", "server-error", "rate-limited"}
Retryable(answer) ==
    answer \in {"no-answer", "server-error"} \/ (answer = "rate-limited" /\ source = "exchange")

(* Only the first MaxBooks games of the Exchange's catalogue come back; the *)
(* ones after them have no market to ask about.                             *)
Listed(A) == LET q == SetToSeq(A) IN ToSet(SubSeq(q, 1, IF Len(q) < MaxBooks THEN Len(q) ELSE MaxBooks))
Reply(op, request) ==
    IF op # "settle" THEN [x \in request |-> Unsettled]
    ELSE IF source = "exchange"
    THEN [f \in request |-> IF f \in Listed(request) THEN ClosedBooks(f) ELSE Unsettled]
    ELSE [f \in request |-> Verdict(f)]
Known(got, reply) ==
    [x \in DOMAIN got \cup DOMAIN reply |-> IF x \in DOMAIN reply THEN reply[x] ELSE got[x]]

Asking(c) == caller[c].at = "calls" /\ caller[c].todo # <<>> /\ caller[c].number = client.number

Answered(c) ==
    /\ Asking(c) /\ client.token # "lapsed"
    /\ LET mine == caller[c] IN
       /\ caller' = [caller EXCEPT ![c].sent = @ + 1, ![c].tries = 0, ![c].todo = Tail(@),
                         ![c].got = Known(@, Reply(mine.op, Head(mine.todo)))]
       /\ client' = IF mine.op = "slate" /\ Head(mine.todo) = Catalogue /\ source = "odds-api"
                    THEN [client EXCEPT !.leagues = TRUE] ELSE client
    /\ UNCHANGED <<source, game, closed, runner, stale, holder, logins, lapses>>

(* A result odds-api.io no longer lists is no result.                       *)
Missing(c) ==
    /\ Asking(c) /\ source = "odds-api" /\ caller[c].op = "settle"
    /\ caller' = [caller EXCEPT ![c].sent = @ + 1, ![c].tries = 0, ![c].todo = Tail(@),
                      ![c].got = Known(@, [f \in Head(caller[c].todo) |-> Unsettled])]
    /\ UNCHANGED <<source, game, closed, runner, client, stale, holder, logins, lapses>>

Repeats(c, answer) ==
    /\ Asking(c) /\ Retryable(answer) /\ caller[c].tries < MaxRetries
    /\ caller' = [caller EXCEPT ![c].sent = @ + 1, ![c].tries = @ + 1,
                      ![c].limited = @ + (IF answer = "rate-limited" THEN 1 ELSE 0)]
    /\ UNCHANGED <<source, game, closed, runner, client, stale, holder, logins, lapses>>

Fails(c, answer) ==
    /\ Asking(c) /\ (answer = "no-session" => client.token = "lapsed")
    /\ Retryable(answer) => caller[c].tries = MaxRetries
    /\ caller' = [caller EXCEPT ![c].at = "done", ![c].sent = @ + 1, ![c].got = <<>>,
                      ![c].limited = @ + (IF answer = "rate-limited" THEN 1 ELSE 0)]
    /\ UNCHANGED <<source, game, closed, runner, client, stale, holder, logins, lapses>>

(* A client that was dropped meanwhile sends nothing more.                  *)
Dropped(c) ==
    /\ caller[c].at = "calls" /\ caller[c].todo # <<>> /\ caller[c].number # client.number
    /\ caller' = [caller EXCEPT ![c].at = "done", ![c].got = <<>>]
    /\ UNCHANGED <<source, game, closed, runner, client, stale, holder, logins, lapses>>

Returns(c) ==
    /\ caller[c].at = "calls" /\ caller[c].todo = <<>>
    /\ Goes(c, "done")
    /\ UNCHANGED <<source, game, closed, runner, client, stale, holder, logins, lapses>>

ProvidersNext ==
    \/ \E f \in Fixtures : GameMoves(f) \/ ScorePosted(f) \/ MarketCloses(f)
    \/ SessionAges
    \/ \E c \in Callers :
           \/ \E op \in Ops : Calls(c, op)
           \/ TakesLock(c) \/ LogsIn(c) \/ LoginFails(c) \/ KeepsAlive(c) \/ KeepAliveFails(c)
           \/ BeginsCall(c) \/ Answered(c) \/ Missing(c) \/ Dropped(c) \/ Returns(c)
           \/ \E answer \in Refused \cup {"no-answer", "server-error", "rate-limited"} :
                  Repeats(c, answer) \/ Fails(c, answer)

ProvidersSpec == ProvidersInit /\ [][ProvidersNext]_providerVars
-----------------------------------------------------------------------------
(* A result is a result: what either provider reports as settled is of a    *)
(* game that was over or off when it was asked about, whatever was          *)
(* published while it was on; nothing is said to have won that has not;     *)
(* nothing loses on a game that was called off; and what the final score    *)
(* makes a winner loses only in a market the Exchange closed without naming *)
(* one.  A call that returns has an answer for every game it was asked      *)
(* about (_settlement_for of both adapters, settle).                        *)
Loses(o, s) == MarketOf(o) \in s.markets /\ o \notin s.won \cup s.absent
NamesNoWinner(s, m) == source = "exchange" /\ \A o \in s.won : MarketOf(o) # m
SettledMeansOver ==
    \A c \in Callers : caller[c].op = "settle" =>
        /\ \A f \in DOMAIN caller[c].got :
               LET s == caller[c].got[f] IN
               /\ s.void => game[f].phase = "off"
               /\ s.markets # {} => game[f].phase \in {"ended", "off"}
               /\ \A o \in s.won : game[f].phase = "ended" /\ o \in Winners(game[f].score)
               /\ \A o \in Selections : Loses(o, s) =>
                      /\ game[f].phase = "ended"
                      /\ o \in Winners(game[f].score) => NamesNoWinner(s, MarketOf(o))
        /\ caller[c].at = "calls" /\ caller[c].todo = <<>> => DOMAIN caller[c].got = caller[c].asked

(* The quota is spared: a call to odds-api.io ends at the first rate limit, *)
(* no call sends more than its planned requests with their repeats (_get,   *)
(* _rpc), and however many callers find the session gone or stale at once   *)
(* it is established once: every login but the first follows a refused      *)
(* login or a session that lapsed (OddsProviderSession.acquire).            *)
Planable(op, A) ==
    IF op = "slate" THEN 1 + Cardinality(A)
    ELSE IF source = "exchange" THEN 2
    ELSE IF op = "odds" THEN (Cardinality(A) + BatchSize - 1) \div BatchSize
    ELSE Cardinality(A)
QuotaIsSpared ==
    /\ logins =< 1 + lapses
    /\ \A c \in Callers :
          LET mine == caller[c] IN
          /\ source = "odds-api" => mine.limited =< 1
          /\ mine.op # "none" => mine.sent =< (1 + MaxRetries) * Planable(mine.op, mine.asked)
=============================================================================
