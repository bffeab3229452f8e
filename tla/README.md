# A verification project for The Coupon

The Coupon is a weekly prediction game. Every league plays a round a week: a
card of fixtures, and each member claims one selection before the deadline.
Claims are exclusive, first come first served. When the games are over the
round is settled and its points enter the league's table. Leagues may charge a
fee per round, kept in a ledger that a bank reader feeds.

One API process (`apps/api/src`, FastAPI, a single replica) serves the web
client, and an in-process scheduler runs its jobs (`max_instances=1`,
`coalesce`, exceptions swallowed and logged). A second process, the payments
service, reads the bank account. Both share one PostgreSQL database under READ
COMMITTED. SQLAlchemy sessions do not expire objects on commit
(`database.py`), so a row held across an `await` is the row as it was read.

## Inventory

| Component | State | Operations | Hard because | Correct when |
|---|---|---|---|---|
| Claims (`routers/picks.py`, `services/gameweek.py`, `models/pick.py`) | gameweeks, their card, picks with three unique keys | submit, open, lock, re-derive windows, link and drop fixtures, release a leaver's claims | the price is awaited in the middle of a submission | no selection held twice, no claim after the deadline, a scored pick stands |
| Completion alert (`services/round_completion.py`, `services/notification_triggers.py`) | one `gameweek_completions` row per round, in-process locks and slots | record, claim, deliver, stamp; the same after a departure | three phases without a session, two paths, restarts | told once, retried until told, nobody blocks |
| Football week (`services/football_week.py`, `services/gameweek.py`) | rounds per date, the weekday, declared extras | discover, retire, populate, refuse, void | long walks with stale settings | one scoring round a week, every round ends |
| Settlement (`services/scoring.py`, `routers/admin.py`) | pick status and points, `settled_at` | sweep, hand settlement, void, corrections, announcements | sweep and operator overlap; results come piecemeal | a verdict is what its market says, a correction holds, the last line sent is true |
| Season calendar (`services/season_calendar.py`) | anchor, extra weeks, round numbers | reanchor, move, declare, withdraw, number, label | names are worked out anew at every read | settled names are kept and differ |
| Membership (`routers/leagues.py`, `routers/league_memberships.py`, `routers/league_join_requests.py`) | memberships, roles, invites, requests | join, leave, remove, promote, demote, approve | counts read before they are written | never without an admin, never over the limit, an invite admits one |
| Ledger (`services/dues.py`, `routers/payments.py`) | append-only entries | charge at opening, on joining, on pick; reverse; pay; repay | two transactions that do not see each other | who played was charged once, the pot covers what it repaid |
| Bank reader (`payments_service/`, `services/payment_notices.py`) | tokens, read cursor, links, sends | connect, refresh, catch up, nudge, notify | restarts between a call and its commit | the stored pair is live, nothing missed, a notice goes out once |
| Sessions (`routers/auth.py`, `services/credentials.py`, `routers/me.py`) | PIN, lock-out, refresh tokens, resets | sign in, refresh, log out, change, reset | commits in the middle of a request | sessions end with the PIN, a lock is earned |
| Odds cache (`services/odds_cache.py`, `odds_session.py`, `odds_pricing.py`) | entries, markers, budget, hold-offs | read, refill, isolate, record | callers queue while prices age | off the card only on evidence, requests rationed |
| Provider clients (`services/odds_api.py`, `betfair.py`, `odds_provider.py`) | one shared session | log in, keep alive, ask, retry | callers find no client, or a stale one | settled means over, the quota is spared |
| Football data (`services/football_data.py`, `fotmob.py`, `live_scores.py`, `match_link.py`, `team_matching.py`) | tables, matches, learnt names, a payload memo | sweep, poll, cross-check, link, show | old payloads meet new rows | scores shown are true, nobody is passed over twice, names keep their meaning |
| Alarms (`services/fotmob_health.py`, `rate_limit.py`, `rename_notice.py`, reminders) | a pending alert, daily counters, markers | raise, collect, report, remind | records kept by a process that restarts | trouble is heard, nobody is told twice |
| Pushes (`services/push_notification_service.py`, `routers/notifications.py`) | subscription rows, mutes, quiet hours | subscribe, send, prepare, record | rows read before a send are written after it | a device is switched off only for cause, one policy for all |
| Pick screen (`apps/web/src/hooks/usePickEditor.ts`) | one submission, a held intent | tap, send, give up, read back, reconnect | the network | the newest intent wins |
| Erasure and export, coupon and slip, avatars, backups, migrations, the rest of the web client | – | – | input and output, text, data | – |

Components talk by shared tables and by direct calls; the only callbacks are
the background task of a submission and the scheduler's jobs. `PROJECT.json`
lists every component with its status and every hazard at its line.

## Modules

The round:

* `Claims` – what a round promises: a selection is granted to one member at a
  time, claims may be given up while the round is being played for, and nothing
  moves once it is decided.
* `LandGrab` – one round of one league. A submission is three steps: `Submit`
  (`submit_pick` up to the await), `Clear` or `Refuse` (the second look at clock
  and claims), `Commit` (the write under the unique keys). Scope and period read
  before the await travel in the submission's record, as the handler's objects
  do. Around them: the clock, the label jobs (`OpenDueGameweeks`,
  `LockDueGameweeks`), settlements, scope and window edits, the slate refresh, the
  roster, and a restart. A settlement is four steps, because `settle_gameweek`
  runs its statements one by one in a READ COMMITTED transaction that its caller
  commits: `SweepBegins` or `OperatorBegins` (the round is read; a sweep then
  awaits the provider), `SettleSelects` (the pending picks), `SettleCounts` (the
  scores are flushed by the count's autoflush, their rows are locked until the
  end, and what others have not committed still counts as pending),
  `SettleCommits` (`scheduler.py:708`, `admin.py:1329`). There may be any number
  of `Sweepers`: `run_scheduled.py` can start one beside the scheduler's. A pick row is
  indexed by its member, which is the player key; `ViolatesKey` is the other two
  keys. `HeldBar` and `DecidedBar` map it to `Claims`.
* `Coupon` – the league around a round, in single steps: who is a member, who has
  picked, and whether picks are still taken. `LandGrab` and `RoundCompletion`
  both implement it (`MovesTheCoupon`), which is why the second may leave out how
  a pick is fought for.
* `RoundCompletion` – the completion row of one round and the tasks that tell
  the league. The pick path runs `PickCommits`, `ReadProgress`,
  `RecordCompletion`, then in the background `EnterFanout` (semaphore),
  `TakeLock`, `Prepare`, `Send`, `Stamp`, `OrdinaryAlert`; the roster path runs
  `Depart`, `RosterRecord`, `RosterTell`, `RosterCommit`, its row uncommitted
  (`inserting`) until the end. `PhaseFails`, `RosterFails` and `Crash` are the
  failures; `lost` counts the tellings whose stamp never committed.
* `FootballWeek` – the rounds of one league in one Wednesday-to-Tuesday week.
  `Refusal` is `settle_refusal`, `MayCreate` is `new_round_refusal`, `Stranded`
  is the selection of `retire_stranded_rounds`. Discovery, the sweep, the hand
  settlement and a pick are split where the code waits.
* `Outcomes`, `Results` – what a fixture's result decides, and how it becomes
  the status of picks: the sweep and the hand settlement (`SweepAsks`,
  `SweepSelects`, `HandSelects`, then `Counts` and `Commits`, with the rows of a
  counted settlement locked as in `LandGrab`), corrections of a pick and of a
  fixture, and the announcement, which reads its lines and tells members one by
  one (`Prepares`, `ReadsLines`, `Tells`). Points and tables are left out: points
  are the price of a pick that won, and a table is computed at every read.
* `SeasonWeeks` – the season's anchor, extra weeks, the numbers and the public
  names of rounds across leagues.

The money:

* `Ledger` – dues, reversals and credit of the members of one league. A member's
  entries on a round are kept as two numbers, what was charged and what still
  stands. The opening (`OpeningReads`, `OpeningCommits`), a pick (`AskToPick`,
  `WritePick`) and a cash-out (`CashOutReads`, `CashOutWrites`) are split where
  another transaction can commit in between.
* `BankLink` – the payments service: connecting, token rotation, the reads by
  timer and by webhook under one lock, the cursor, the account links. A
  transaction is written at most once because its identity is a key (`Written`).
* `PaymentNotices` – the receipts and the two notices about the bank link, sent
  by runs that overlap around a redeploy.

The people:

* `Membership` – doors, requests, invites, roles, departures and deleted
  accounts; each request is a check and a commit, and only the redemption of an
  invite holds a row lock in between (`with_for_update`).
* `Accounts` – PIN, lock-out, resets and the refresh tokens of one account.
* `PickEditor` – the pick screen: posts, checks, the held intent, the network.
* `Pushes`, `Alarms` – the subscription rows of one browser and the policy of
  mutes; the alarms, notices and reminders that must be heard once.

The sources:

* `OddsCache` – a round's odds, the refill under its lock, the markers, the
  hour's budget and hold-offs.
* `Providers` – the shared client: log-ins, staleness, requests, retries.
* `FootballData` – the bounded sweep of league tables, the payload memo, live
  scores and the cross-check of the card.
* `Matches` – stored matches written by the sweep and the poll, learnt names,
  and the scores, forms and links that are read from them.

`MC…` modules are instances for TLC, `…_proofs` hold theorems. Where one
module's concern meets another's, each keeps what it needs: `FootballWeek` has
no labels and no selections, `LandGrab` has no sibling rounds, `Results` has
rounds that are locked and free to settle, `RoundCompletion` has only whether a
member has picked.

## Runs

| Run | Shows |
|---|---|
| `landgrab` | Two submissions race for claims while the roster, the slate and the deadline change, or into the settlement, where a sweep and a hand settlement overlap step by step: no selection, and on the fixture rule no game, is held twice; settled rounds stay decided; scored picks stand; the round implements `Claims`; and there is one way only in which a leaver keeps a claim. |
| `landgrab_fair` | With scope edits and results typed in early, and settlements that do not overlap, every round is settled in the end. |
| `round_completion` | Three tasks of either path and one failure: one telling per lost stamp and one more, no full coupon missed, no standstill, a failed telling retried. |
| `football_week` | Two settings edits between the jobs: one scoring round, no standing lost to a created or settled round, and every round scored or voided in the end. |
| `money` | Ledger, bank reader and notices: who played was charged, the pot covers what was repaid, no payment is missed, the owner and the stored pair are kept, no notice goes out twice. |
| `services` | Membership, accounts, odds cache, football sweep, matches and pick screen. |
| `background` | Results, alarms, pushes, provider sessions and the season's names. |
| `scope_edit_meets_submission` | A pick in flight across a scope edit escapes the fixture rule. |
| `retired_under_a_pick` | A pick landing between a retirement's look and its delete is deleted. |
| `settlements_overlap` | A sweep and a hand settlement each count the other's pick as pending: the round is scored and never settled. |
| `scored_pick_rewritten` | A sweep writes its verdicts over those of a hand settlement that settled the round meanwhile. |
| `moved_price_is_refused` | The button that takes a moved price sends the old one again and is refused for the price it took. |

The last five end in a violation: each states what a comment or docstring of
the repository says, and `findings` quotes it. `moved_price_is_refused` happens
whenever a price has moved; the other windows are narrow (between two statements
of one request, or while a provider answers), and none breaks the keys.

* `settlements_overlap`: the operator's settlement scores one pick and counts,
  the sweep's scores the other and counts, neither has committed, so each finds a
  pick pending and leaves the round as it is. After both commits the round has
  picks, none pending, and is skipped by both selections of every later sweep
  (`scoring.py:312`). An operator who settles it by hand again repairs it.
* `scored_pick_rewritten`: the write is by primary key and does not ask whether
  the row is still pending. Both settlements flip the round and both announce it,
  so the second line told is the one that stands.

### Bounds

* `landgrab`: two members, two requests, two fixtures, two bets, two windows
  (locks at 1 or 2), results from tick 3. Every property relates at most two
  members or two submissions and one claim; two windows suffice for a deadline
  moved either way. An action constraint (`OneRaceAtATime` in `MCLandGrab`)
  keeps the two races apart, since together they are too many states: claims
  race freely until a settlement has begun or results may come, and such a tick
  or settlement is only explored where the slate and the first window stand and
  one bet is in use. Two fixtures still give the members two selections, and of
  a single bet both pick rules say the same, so the settling half keeps one.
* `landgrab_fair`, `settlements_overlap`: one request, one bet and one window,
  since liveness is about results, labels and settlements; no symmetry, which
  would be unsound there.
* `round_completion`: three tasks on two slots, so that two pick paths and a
  roster path meet at the row's key and one of them queues; `MaxFaults = 1`,
  anywhere.
* `football_week`: three dates, so that a cadence, a declared and an undeclared
  round may coexist; one member, since a round is told apart by whether anyone
  picked; `MaxEdits = 2`.
* `money`, `services`, `background` put components that share nothing side by
  side. Each behaviour draws one component and one case of it (`narrow`,
  `about`), and only that component moves, so the state spaces add up. A case
  bounds what its questions do not need: `"week"` has one round and no
  repayments, `"member"` one member and two rounds; `"marker"` has no failures
  of a key, `"budget"` no moving market; `"locks"` mints no session, `"pins"`
  allows no more than two changes. The cases of `MCMoney`, `MCServices` and
  `MCBackground` say each of these in a conjunct. `PickEditor` was also run on
  its own, up to the step at which requests cross, with three dropped connections
  and two decisions, with two and three, and with one and three (at two prices
  except the second).

`Disturbances` and `Overlaps` name what may happen under way. A passing run
leaves out the kinds that break its properties, and each of those is a run of
its own or is described below with its trace: nothing is left out silently.

### Fairness

* The clock and the days pass (`Tick`, `NextDay`; strong for days, which wait
  only for two local statements of a retirement).
* The scheduler repeats its jobs for ever (`LockDueGameweeks`, `SweepBegins`,
  `SweepStarts`), and the provider has every result in the end
  (`Result`, `SweepSettles(Members)`).
* A settlement once begun goes on: `SettleCounts` and `SettleCommits` are local
  statements that wait at most for another settlement's rows. A sweep's select is
  strongly fair: where settlements are kept apart an operator's may come first
  any number of times, but not for ever. Restarts come to an end
  (`<>[][~Restart]_vars`); while they last they take every settlement along.
* A submission ends: the provider client has a timeout (`Refuse` or `Clear`),
  and a cleared one commits.
* The event loop runs every task that can run; `asyncio.Lock`, the semaphore and
  PostgreSQL's lock queue are first come first served, hence strong fairness of
  `Proceed`.
* An operator voids what the Results screen shows as refused: the code offers
  no other end to such a round, so `EveryRoundEnds` is about the guard never
  closing that door.
* The other components state safety only: they promise nothing that a restart or
  a lost answer could not put off.

## Proofs

Every theorem is about the specification of one component, for every value of
its constants: any number of members, requests, events, payments or sessions,
and none of the bounds of the runs except those a module's own guards name. The
assumptions are the named ones (`…Assumption`) of the module. Each rests on an
inductive invariant, found with TLC and then proved action by action.

Most assumptions say that a set is finite or a bound a number. The others are
the code's: picks are keyed by round and member and name an outcome of their own
market (`ResultsAssumption`, the keys of `models/pick.py`); reminders go out more
than one scheduler tick before the deadline (`AlarmsAssumption`).

`LandGrab_proofs`:

* `TypeInvariant`, and `LandGrabIsExclusive`: the unique key is applied at every
  write, and everything else only removes or re-stamps rows.
* `FixtureRuleHolds`, if no scope edit happens under way. The strengthening says
  that every row and every submission carries the league's scope.
* `SettledMeansDecided` and `ScoredMeansFinal`, if nobody settles before the
  games. Neither is inductive: they need `DeadlineInv`, that a scored pick, a
  known result, a settlement or a settled round means the results' time has come,
  and that a cleared submission means it has not.
* `RoundKeepsThePromise`, under the same condition: through `HeldBar` and
  `DecidedBar` every step is a step of `Claims` or leaves the claims alone.
  A settlement that counted nothing left is part of it (`CountsStand`): whatever
  others commit before it does, what is pending is still its own, because nobody
  adds a pending row any more. None of the three minds overlapping settlements.
* `NoRoundIsLeftOut`, which does: if nobody settles early and settlements of the
  round do not overlap, what is not settled has a pick to score or was picked on
  by nobody, so the sweep's two selections leave no round out
  (`SweepReachesEveryRound`). Before the results every row is pending; from then
  on nothing but a settlement writes, and one that leaves the round open has
  counted a row that is nobody else's to score (`OneAtATime`). This is the safety
  half of `RoundSettles`. Both conditions are needed: without the first there is
  the departure after early results (below), without the second the run
  `settlements_overlap`.
* `OnlyALateCommitBreaksTheRule`: a leaver can keep a claim on a round that has
  not locked (`LeaversHoldNoClaim` does not hold, see below), and in one way
  only (`BrokenByALateCommitOnly`): no order of departures, returns, refreshes, edits,
  settlements and label jobs breaks `LeaversHoldNoClaim`, but the commit of a
  cleared submission whose member is outside the league. The membership is looked
  at once, when the submission is accepted, so the departure may have come before
  the second look or after it. Hence `LeaversGiveUp` and the refinement
  `TheRoundIsACoupon`, both for as long as no cleared submission's member is
  outside the league (`NoStrangerIsCleared`); that rules out every departure
  between the membership check and the commit of a submission that gets there.

`RoundCompletion_proofs`: `CompletionTypes`, `TellingIsExclusive`,
`RepeatsAreLostStamps`, `StampsAreEarned`, `FullCouponsAreTold`. The invariant is
`TypeOK`, `Holding` (who is between taking and releasing holds exactly the lock
or the key, and a roster task's key means no committed event) and `Accounts`
(`sent` is `lost`, plus the tellings not yet stamped, plus one if the event is
delivered). For the last, `Promise`: as long as nothing failed, a full coupon
without an event has a task that has yet to look or to write, and an event
without a stamp has a task that will tell; an arrival cannot fill a coupon,
because whoever holds a pick of an open round is in the league. So a coupon
becomes full by a pick or a departure only (`CouponsFillInTwoWays`), which is
what `round_completion.py:132` builds on, and the module moves the league only as
`Coupon` does (`TheLeagueIsACoupon`); that the real round does so too is
`TheRoundIsACoupon` above.

`NobodyStandsStill` is proved by `Held`: whoever the lock or the key names is at
a step that gives it back and waits for nothing, and so is whoever sits in a
slot, unless it waits for that lock. `Waits` lists the guards a task can be held
up by; TLC found "not free and not waiting" to be the same as ENABLED `Proceed`
in every state with three tasks, which is outside the prover. `TasksAdvance`:
`StepsLeft` falls with every step of a task and no other task's step or failure
raises it. Together: tasks that are given turns come to an end.

`FootballWeek_proofs`: `FootballTypes` (`CalendarInv`: nothing scores, settles or
is held by a settlement before its day, and nothing past is retired; `ClaimInv`:
picks are on rounds that are there, and a settled round has none pending). Three
action properties each hold whatever else overlaps, but for one kind that
the hypothesis names and that `retired_under_a_pick`, or a trace described
below, shows cannot be spared:

* `NoPickIsThrownAway` (`PicksAreKept`), without `"retirement"`: `RetireInv`, nobody has picked in
  what a retirement is about to delete.
* `StandingIsKept`, without `"walk"`: `WalkInv`, a walk goes by the league's own
  weekday; then what it creates is intended and blocks nothing
  (`NewRoundsAreIntended`), and what settles or is deleted only removes rivals
  (`StraysStandBack`, `FewerRoundsHelp`).
* `OneRoundScores`, without `"settlement"`: `StaleInv`, if a stray of the sweep's
  own list was scored by hand meanwhile, the sweep has nothing left to score on
  an intended round; so its stale reading of the strays does no harm.

Two more hold whatever overlaps, and are the safety half of `EveryRoundEnds`:

* `NoWeekGetsStuck`: when all open rounds have been played, one of them can be
  scored, closed empty or voided. `OpenInv`: an open round anybody picked in has
  a pick pending. If the guard refuses every open round, the strays wait for an
  open intended one, and what refuses that is a stray that has settled, for
  which nobody waits: it may be voided.
* `OverIsOver`: after the week's last date the open rounds and the dates a
  running walk still has before it only become fewer.

`People_proofs`, on `Membership`: `LeaguesKeepTheInvariant`; `InvitesAdmitOne`, by `Redeemed`:
one call redeems at a time, the invite it locked is active while it does, and a
spent invite has one person to show for it; `RulesHoldServedSingly`, by `Alone`:
as long as no two requests overlapped, what the one under way checked is still
true when it commits.

and on `Accounts`: `AccountTypes`; `SessionsEndWithThePin`, by `FreshInv`: what is
open, and what a request under way will open, is opened under the PIN that
stands, unless the request raced the change; `LocksAreEarned`, by `CountInv`:
as long as no two requests held the counter at once, the count is the number of
wrong PINs, every request that holds it read what it says, and a lock, even one
that is over, was earned.

`Ledger_proofs`: `LedgerTypes` and `EveryDueIsOwed`. Nothing an opening, a pick
or a joiner writes takes a due back (`ChargeOwes`), because the recorded fee of
a round bounds every due on it (`RecordedIsLargest`) and the amounts charged are
that fee or the league's (`AmountsCharged`); reversals touch only rows that gave
up their reason (`ReverseGivesUp`). `DuesAreOwed` needs one thing more:
`OpeningHolds`, that the rounds an opening is about to label are still to open.
`ThePotIsCovered` needs only types, and arithmetic about sums, which is by least
counterexamples: a recursion over rounds and a fold over a finite set have a
solution (`OwedAddsUp`, `PartialSumsExist`, `PartialSumsAgree`), a sum does not
depend on the order of its terms (`AnyTermFirst`) and grows with them
(`SmallerTermsSmallerSum`), and what a round is paid is the difference of two
steps of the credit's reach, so that the payments telescope
(`PaidIsTheDifference`, `NoMoreThanTheCredit`).

`PaymentsService_proofs`, on `BankLink`: `BankTypes`; `TheStoredPairIsLive`, by `TokenInv`: whoever
spends the token spends the connection's, which cannot change hands meanwhile,
and a pair just issued is the live one until it is stored; `TheOwnerIsKept`, an
action property, from the same; `NothingIsMissed`, by `TimeInv`: a transaction is
listed at most `Overlap` after it was made and no read is of the future, so what
the cursor passes was listed when the read asked for it (`CompleteReadWrites`,
`MissStep`).

and on `PaymentNotices`: `NoticeTypes` and `NoticesGoOutOnce`, by `Exclusive`
(what one run has claimed nobody has sent, what it has committed nobody has
pushed, and no two runs hold the same) and `Dated` (an outage is named by a read
there has been).

`Services_proofs`, on four components:

* `OddsCache`: `OddsTypes`; `MarkersRestOnEvidence` by `EvidenceInv` (an entry that
  says nothing, and what a card is about to write, rest on an answer without a
  price or on a refusal of that event alone); `CardsLeaveTheReserve` by
  `RationInv` (one call refills at a time, and the chunks and probes a card has
  left to ask fit under the ceiling it was let in with). That rests on
  arithmetic of chunks: `ChunkIsFull`, `ChunkTakesOne`, `RoundFits`.
* `FootballData`: `NobodyIsPassedTwice` by `TurnsInv`: whoever has been passed
  comes first in the order of the tables, and a run that takes a table has taken
  everyone it passed. The order stays one because a run's stamps put what it
  stored behind the rest as it was (`StampedIsInOrder`), and a run takes a
  beginning of it, which is a count (`TurnsAreTakenInOrder`).
* `Matches`: `NamesKept` by `NamesFree` (what a transaction is about to learn is a
  name nobody has learnt). `ScoresAreTrue` by `ScoresInv`: the payload remembered
  precedes what is so now (`Precedes`: goals only grow, and a final score stays),
  a row, and what a job has got, loaded or is about to set, fits what was said
  last (`Fits`), and the two jobs set different games, for one waits for the
  other's row locks. Either job's commit keeps that (`TheSweepsRowFits`,
  `ThePollsRowFits`); what is read from such rows is true (`FormIsTrue`,
  `ItsOwnOrNone`, `ANameIsOneClub`).
* `PickEditor`: `NewestIntentStands` by `EditorInv`: while nothing has
  crossed, the requests under way are of one intent (the held one, if one is
  held), nothing newer was applied, and the last decision is theirs, was
  answered or is held (`InStep`). Two requests of one intent are part of it: a
  refusal of the one may be heard while the grab of the other is on its way.

`Background_proofs`, on five components that share nothing:

* `Alarms`: `NoTroubleIsDrowned` and `TheyAreToldOnce`, by `AlarmsInv`: loud trouble
  is pending, in a job's hands or excused (`TroubleInv`); a day's counter is
  charged before its one job sends (`DailyInv`, `ChargeStep`); whoever reads or
  writes the marker holds the lock, and a push without a marker is one whose
  marker is about to be written or was lost (`NoticeInv`); the job ran at every
  even tick up to now, and the one reminder went out at the run whose window the
  deadline lies in (`ReminderInv`).
* `Pushes`: `ThereIsOnePolicy` needs only types, and that a difference around the
  clock wraps once (`AroundTheClock`, `QuietIsTheSpan`). `DisabledOnlyForAReason`,
  an action property: by `CountsInv` no count, in the table or in a sender's
  hands, exceeds the failures there have been, and by `StreakInv` the count of
  an active row exceeds the failures in a row only if a stale reading went over
  it.
* `Results`: `EveryVerdictIsEarned` and `LastWordStands`, by `ResultsInv`: a verdict
  was said of the pick's own market (`ResolvedIsSaid`), and what the sweep was
  answered the provider says still, however late it is written (`Stands`,
  `TheProviderStands`); a pick whose correction is to hold is in no settlement's
  hands and gets into none, because it is not pending (`CorrectionHolds`); a
  settled round has nothing pending, a job that announces has decided rounds, and
  its lines were true when read and are true still or excused.
* `Providers`: `ResultsAreResults` and `TheQuotaIsSpared`, by `ProvidersInv`. The
  lock's holder is the only one to find no client or replace it, so log-ins are
  bounded by lapses (`SessionHeld`); what a call sent, less the tries of the
  request under way, plus all tries of those to come stays within its share
  (`WithinShare`), which a request that is answered, repeated or fails does not
  raise; what the books of closed markets show is true of a game that is over or
  off (`BooksAreTrue`), what was asked is known or still to come, and what is
  known was true and stays so because such a game does not move (`Truthful`). That
  the Exchange closes no market of a running game, names no wrong winner and
  removes every runner of a game called off is assumed of it (`MarketCloses`);
  that removed runners are void and not lost, and an unknown market no result, is
  the client's. What a
  call plans is counted by lemmas about laying a finite set out as a sequence
  (`LaidOut`, `EachAlone`, `InBatches`, `WhatIsPlanned`).
* `SeasonWeeks`: `NoTwoByOneName`, by `NumbersInv` (a league's numbers differ, and
  have a greatest) and `NamesOfALeague`: of two rounds that share a week and a
  label the later counts every label of the week and more doubles before it
  than the earlier one, so their names are apart. `SettledNamesStay`, the action
  property, by `NamesInv` (the anchor is a Saturday, what has settled lies behind
  today): while a round has settled the anchor stays, nothing before it is made,
  and nothing is declared in that round's week (`SettledRoundsHold`), so the
  occurrences it is ordered among and its league's earlier rounds stay as they
  were (`OccurrencesHold`, `TheNameHolds`).

What stays with TLC is liveness (`RoundSettles`, `RetriedByTheNextPick`,
`EveryRoundEnds`), which the prover cannot derive from fairness; what is proved
of it is that nothing gets stuck and nothing goes back (`NoRoundIsLeftOut`,
`NobodyStandsStill` with `TasksAdvance`, `NoWeekGetsStuck` with `OverIsOver`).
Every other property of a passing run has its theorem. `OpenInv` of
`NoWeekGetsStuck`, `SweepReachesEveryRound`, `PicksAreKept` and the refinements of
`Coupon` have no passing run of their own: they are proved for every instance.

## What the code does and a property leaves out

Each of these was met while modelling. Where a property excuses a case it does
so by name, in its formula; the rest are outside the modules.

Rounds and picks

* The payment gate, the market subset, request budgets and the settle guard only
  refuse a submission before the await; `LandGrab` leaves them out. Its `Tick`
  waits for cleared submissions before results come: between the second look and
  the commit there are only local statements, and the first result is hours
  after the deadline.
* An operator may type results in before a round locks; nothing in
  `settle_manually` asks the clock (`"early"`). Then a submission in flight can
  leave a pending pick on a settled round; and with a departure a round may keep
  only scored picks and nothing pending, which both paths of the sweep skip
  (`scoring.py:312`).
* `submit_pick` asks for the membership when it accepts a submission
  (`picks.py:291`) and not again. A member who leaves, is removed or erased while
  the price is fetched has no row to release yet, and the row is inserted
  afterwards: the leaver holds a claim on a round that has not locked, and the
  selection stays taken, although `gameweek.py:1575` says that a leaver gives up
  their unlocked picks.
* `LandGrab`'s `"overlap"` lets a settlement select its picks while another has
  selected and not committed. `landgrab` has it; `landgrab_fair` does not, because then a round can stay unsettled (`settlements_overlap`). The
  settle guard's refusal is `FootballWeek`'s subject, and what the results say
  `Results`'s: here a pick is pending or scored, and an operator may decide any
  part of the card.
* `RoundCompletion`: a push that fails is a report, not an exception; which
  members are muted is data. A pick that lands after its member left is
  `LandGrab`'s subject.
* An edit under a discovery walk (`Overlaps` `"walk"`): `discover_fixtures` loads
  every league once (`gameweek.py:1001`) and awaits the provider between them. A
  cadence round stands on weekday 1, date 3 of its week is declared extra, a walk
  starts with both dates, and the weekday is edited to 2 under it. By the weekday
  the walk still goes by, the standing round is intended and date 3 harmless; by
  the league's own, `new_round_refusal` would refuse date 3, because the standing
  round is by now neither cadence nor declared. The round of date 3 is made, and
  the older one, which as the only round of its week could settle, is refused
  from then on, although `gameweek.py:624` says never to create a round that
  would make the guard refuse the week's existing one. An operator can void it.
* `FootballWeek`: the announcement is fused with its commit, and so are a
  settlement's count and commit, with one member: two settlements that count past
  each other are `LandGrab`'s `settlements_overlap`, which `EveryRoundEnds` does
  not see.
  `populate_cadence_rounds` retires in one step: its look and delete are the ones
  discovery has. With `Overlaps = {"settlement"}` the sweep's stale round rows
  (loaded before the provider is asked, `scoring.py:260`) let two rounds of one
  week score: an operator settles a sibling by hand and the weekday is edited
  while the provider answers.
* The sweep and a hand settlement of one round both flip it and both announce
  it, although `notification_triggers.py:763` says a round becomes settled
  exactly once. The overlapping announcement can replace a corrected line by a
  stale one, which carries the same tag. A settlement that selected a pick as
  pending overwrites what another settlement scored meanwhile
  (`scored_pick_rewritten`), and a correction of that other score too, if it came
  before the write: only a correction made while no settlement has the pick in
  hand is sure to hold (`corrected` in `ResultsAreEarned`). If the round was
  settled and the second settlement leaves it so, nobody is told of the new
  verdict, which `LastWordIsTold` excuses by name.
* `gameweek_results` names whoever holds the round's best pick a winner
  (`scoring.py:762`), members who have left since included, while
  `standings_by_league` ranks active memberships only (`scoring.py:670`): the
  winner of a round need not be in the table at all. Points, tables and winners
  are not modelled.
* `correct_pick` tells nobody; a correction leaves pending picks to the provider,
  which may be wrong. A settled round in which everyone lost names every member
  a winner with no points. `match_odds_outcome` takes any runner it does not know
  for the draw.
* Names: withdrawing an extra week asks only about its own date
  (`season_calendar.py:531`, against `:181`) and renames settled rounds of its
  week; dissolving a league before a moved anchor renames rounds of week one, and
  a date added to week one renames a round settled before a moved anchor;
  the next number reuses that of a deleted last round; moving the anchor checks
  settled rounds without locking them. The docstring of
  `models/season_calendar.py` says the anchor is never recomputed, and
  `reanchor_from_earliest_round` does. Rounds settled before their own date are
  left out.

Money

* Two cash-outs, or a cash-out and a due, read one credit before either is
  written (`payments.py:410`); more can be repaid than was owed (`repaying`),
  and the pot shown survives it. A fee edited while two picks read none recorded
  charges both; a joiner can be missed, and a leaver charged, by an opening that
  listed them; a pick in flight can insert a due on a voided round. The insert
  is ON CONFLICT DO NOTHING under the ledger's unique index.
* A top-up in the read that learns the pot is refused. A second league's link
  set after a payment is never read again. A crash between the bank's refresh
  and the commit loses the live pair and asks for a new connection. A nudge
  stamps a success even if its catch-up fails. A reconnection that is needed
  after a stale alarm is told to nobody.

People

* `ServedSinglyKeepsTheRules` is about one request at a time, which is what the
  guards are worth: two admins who leave at once each count the other; concurrent
  doors exceed the limit; `_auto_approve_pending_requests` admits its whole queue
  if there is room for one. `_active_admin_count` counts memberships of deleted
  profiles, and so does the limit. Approving a pending request of somebody
  already in resets their role to player.
* A refresh commits the revocation before it mints, so a PIN change in between
  misses the new token; two concurrent refreshes both mint; a client that
  repeats a refresh whose answer was lost is taken for a replay and loses every
  session. `failed_login_count` is read and written back and can lose a count. A
  later audit row closes a reset's window. Two first PINs can race.
* Erasing an account leaves the name in inboxes and completion events
  (`account_erasure.py:12`), an avatar being uploaded sets `avatar_url` again, and
  an avatar without a URL is orphaned.
* An inline send writes rows it read without a lock over a fresh subscription;
  two concurrent subscriptions insert two rows for one endpoint, and every later
  lookup raises; a browser goes on showing "subscribed" when its row is off.
* Pick screen: `outstandingRef` stays "queued" while its send is under way, so
  two `online` events send it twice, and a hung first send can be sent again
  after a newer pick landed (`usePickEditor.ts:285`); an unconfirmed pick that
  was read back becomes "queued" and is sent at the next `online` event, although
  `:188` says never; "Send now" and the price button do not look at `busy`; a
  decision made offline unlocks the cards while a post waits; the price button
  leaves an older held intent where it is, and the next `online` event sends that
  beside the newer pick, although `:480` says it must not survive; a request that
  timed out can land after the check said it had not. `NewestIntentWins` excuses
  what follows a decision sent while an older one is under way, the price
  button's leaving an older intent held, a timed-out request that lands, and a
  check whose answer is out of date (`crossed`); it does not excuse the same
  intent sent twice. Outside the module: the refresh promise is
  per tab and the 401 branch goes around it, `silentRefresh` reads the stored
  player after its await, and the completion hand-off uses a slate that may be
  old.

Sources

* `_refill` charges one request a chunk although `_get` retries; a new login
  builds a new cache and forgets the hour's spending and hold-offs
  (`odds_session.py:99`); slate walks and settlements ignore the hold-offs;
  overlapping `_charging` counts what another spent. An event without selections
  counts as priced.
* A dead or tableless competition sorts first in the sweep and can starve the
  rest; live scores take the first `limit` competitions of an unordered set; an
  older memo can move a finished match back; `sync_table` stamps `updated_at` when
  no request was made; a fixture is voided on a match list that may be old
  (`slate_verification.py:121`).
* `team_form` fetches once and busy clubs crowd out an idle one; an alias inserted
  by a slate read waits for the sweep's transaction and then fails; one database
  error in a competition leaves the sweep's session broken; a match that ends
  after the last poll waits for a restart or another poll; standings are keyed by
  team alone; a backfill over a poll can leave a finished row with a running
  score; the alias of a promoted club stays in its division; a fixture whose own
  match is unfinished may be shown another game of the same names.
* Alarms: a quiet row inside the hour swallows the block that follows; a blind
  cross-check replaces a pending block; an alert is lost if reporting fails or
  the process restarts; a daily charge is committed before the sending, so a
  failure silences the day; a rename dialog may be open while a boot pushes, and
  a crash between push and marker repeats; a late reminder run doubles or misses.
* A client is closed under callers that still use it when it is dropped
  (`odds_session.py:134`); a catalogue of at most 200 leaves later events without
  markets. A market of the Exchange that closed without naming a winner is
  settled all the same and everybody on it has lost (`betfair.py:562`, `:575`);
  one of a game that was called off is settled with its runners removed, and its
  picks are void. `SettledMeansOver` lets the first be by name (`NamesNoWinner`).
  The catalogue of odds-api.io is "fetched once per client" by its docstring
  (`odds_api.py:582`), but it is looked for, awaited and stored without a lock
  (`:587`): slates that start before the first answer all fetch it, in
  `Providers` as in the code. `QuotaIsSpared` allows every slate the catalogue's
  request and bounds nothing beyond one call.

## Not modelled

Coupon and slip rendering, backups, avatars, migrations, seeds and back-fills;
registration and profile edits; the scrubbing and export of personal data; the
parsing of provider pages; marking the inbox read and the test push; everything
in the web client but the pick screen. They are text, files or data, or hold no
state another component trusts.

## Left to do

Widen the models: registration and profile edits, the second football source's
pages, token refresh across tabs.
