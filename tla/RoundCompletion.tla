--------------------------- MODULE RoundCompletion ---------------------------
(* The all-picked event of one round: recorded by whichever request fills   *)
(* the coupon, told to the league by whichever background task gets to it.  *)
(*                                                                          *)
(* A coupon fills because somebody picks or because somebody who had not    *)
(* picked leaves.  The pick path records the event in a transaction of its  *)
(* own and fans it out after the response, in three phases with no database *)
(* session between them; the roster path records, sends and stamps in one   *)
(* transaction, so its row is invisible, but in the way, until it commits.  *)
EXTENDS Integers, FiniteSets

CONSTANTS
    Members,    \* the profiles that ever belong to the league
    Tasks,      \* request handlers and their background tasks
    NoTask,     \* nobody: a lock that is free
    Slots,      \* fan-outs at a time (_PICK_FANOUT_LIMIT)
    MaxFaults   \* bound on the failures and restarts of a behaviour

ASSUME SlotAssumption == Slots \in Nat \ {0} /\ MaxFaults \in Nat
ASSUME TaskAssumption == NoTask \notin Tasks

VARIABLES
    roster,     \* active members
    picked,     \* members holding a pick in the round
    claimable,  \* the round's status is one that accepts picks
    event,      \* the gameweek_completions row, as committed
    inserting,  \* the roster task whose uncommitted row holds the unique key
    lock,       \* the task holding the round's completion fan-out lock
    tasks,      \* where each task is, and what it knows
    sent,       \* times the league has been told (history)
    lost,       \* tellings whose stamp never committed (history)
    faults      \* failures so far

league == <<roster, picked, claimable>>
told == <<sent, lost>>
vars == <<roster, picked, claimable, event, inserting, lock, tasks, sent, lost, faults>>

PickSteps == {"progress", "recording", "queued", "waiting", "preparing", "sending", "stamping",
              "alerting"}
RosterSteps == {"departed", "telling", "closing"}

(* full: the progress this submission read; first: its insert landed.       *)
TaskState == [pc: {"free"} \cup PickSteps \cup RosterSteps, full: BOOLEAN, first: BOOLEAN]

Free == [pc |-> "free", full |-> FALSE, first |-> FALSE]

(* round_progress: every active member has picked, and there is one.        *)
Full == roster # {} /\ roster \subseteq picked

At(t, step) == tasks[t].pc = step

Goto(t, step) == tasks' = [tasks EXCEPT ![t].pc = step]

(* Once a submission that read a full coupon has tried the completion, it   *)
(* sends its ordinary alert unless it was the one that filled it.           *)
AfterCompletion(t) ==
    tasks' = [tasks EXCEPT ![t] = IF tasks[t].first THEN Free ELSE [@ EXCEPT !.pc = "alerting"]]

(* Tasks inside the semaphore.                                              *)
FanningOut ==
    {t \in Tasks : tasks[t].pc \in {"waiting", "preparing", "sending", "stamping", "alerting"}}

----------------------------------------------------------------------------
(* The request                                                              *)

(* submit_pick's commit: a claim, or a move of one already held.  A pick    *)
(* that outlives its member's departure is LandGrab's subject.              *)
PickCommits(t, m) ==
    /\ At(t, "free")
    /\ claimable
    /\ m \in roster
    /\ picked' = picked \cup {m}
    /\ Goto(t, "progress")
    /\ UNCHANGED <<roster, claimable, event, inserting, lock, told, faults>>

(* Progress is read once, after the commit.                                 *)
ReadProgress(t) ==
    /\ At(t, "progress")
    /\ tasks' = [tasks EXCEPT ![t].pc = IF Full THEN "recording" ELSE "queued",
                              ![t].full = Full]
    /\ UNCHANGED <<league, event, inserting, lock, told, faults>>

(* record_completion: ON CONFLICT DO NOTHING, which waits out a transaction *)
(* that holds the key.                                                      *)
RecordCompletion(t) ==
    /\ At(t, "recording")
    /\ inserting = NoTask
    /\ event' = IF event = "none" THEN "recorded" ELSE event
    /\ tasks' = [tasks EXCEPT ![t].pc = "queued", ![t].first = (event = "none")]
    /\ UNCHANGED <<league, inserting, lock, told, faults>>

----------------------------------------------------------------------------
(* The background task                                                      *)

EnterFanout(t) ==
    /\ At(t, "queued")
    /\ Cardinality(FanningOut) < Slots
    /\ Goto(t, IF tasks[t].full THEN "waiting" ELSE "alerting")
    /\ UNCHANGED <<league, event, inserting, lock, told, faults>>

(* Mutant of TakeLock: tasks of one round do not wait for each other.       *)
TakeNoLock(t) ==
    /\ At(t, "waiting")
    /\ lock' = t
    /\ Goto(t, "preparing")
    /\ UNCHANGED <<league, event, inserting, told, faults>>

TakeLock(t) ==
    /\ At(t, "waiting")
    /\ lock = NoTask
    /\ lock' = t
    /\ Goto(t, "preparing")
    /\ UNCHANGED <<league, event, inserting, told, faults>>

(* Mutants of Prepare: a delivered event is told again; only the task whose *)
(* insert landed may tell it.                                               *)
PrepareDelivered(t) ==
    /\ At(t, "preparing")
    /\ Goto(t, "sending")
    /\ UNCHANGED <<league, event, inserting, lock, told, faults>>

PrepareOwnOnly(t) ==
    /\ At(t, "preparing")
    /\ IF event = "recorded" /\ tasks[t].first
       THEN Goto(t, "sending") /\ UNCHANGED lock
       ELSE AfterCompletion(t) /\ lock' = NoTask
    /\ UNCHANGED <<league, event, inserting, told, faults>>

(* prepare_all_picked_fanout: claim the event if it is waiting to be told.  *)
Prepare(t) ==
    /\ At(t, "preparing")
    /\ IF event = "recorded"
       THEN Goto(t, "sending") /\ UNCHANGED lock
       ELSE AfterCompletion(t) /\ lock' = NoTask
    /\ UNCHANGED <<league, event, inserting, told, faults>>

(* deliver_prepared_fanout: pushes that fail are reports, not exceptions.   *)
Send(t) ==
    /\ At(t, "sending")
    /\ sent' = sent + 1
    /\ Goto(t, "stamping")
    /\ UNCHANGED <<league, event, inserting, lock, lost, faults>>

(* Mutant of Stamp: the lock is not given back.                             *)
StampKeepingLock(t) ==
    /\ At(t, "stamping")
    /\ event' = IF event = "recorded" THEN "delivered" ELSE event
    /\ AfterCompletion(t)
    /\ UNCHANGED <<league, inserting, lock, told, faults>>

(* record_prepared_fanout: stamp delivered_at, then let the next task in.   *)
Stamp(t) ==
    /\ At(t, "stamping")
    /\ event' = IF event = "recorded" THEN "delivered" ELSE event
    /\ lock' = NoTask
    /\ AfterCompletion(t)
    /\ UNCHANGED <<league, inserting, told, faults>>

OrdinaryAlert(t) ==
    /\ At(t, "alerting")
    /\ tasks' = [tasks EXCEPT ![t] = Free]
    /\ UNCHANGED <<league, event, inserting, lock, told, faults>>

----------------------------------------------------------------------------
(* The roster path                                                          *)

(* leave_league, remove_member, account deletion: the departure and the     *)
(* release of the member's unlocked pick commit together.                   *)
Depart(t, m) ==
    /\ At(t, "free")
    /\ m \in roster
    /\ roster' = roster \ {m}
    /\ picked' = IF claimable THEN picked \ {m} ELSE picked
    /\ Goto(t, "departed")
    /\ UNCHANGED <<claimable, event, inserting, lock, told, faults>>

(* Mutant of RosterRecord: a departure never completes a round.             *)
RosterForgets(t) ==
    /\ At(t, "departed")
    /\ inserting = NoTask
    /\ tasks' = [tasks EXCEPT ![t] = Free]
    /\ UNCHANGED <<league, event, inserting, lock, told, faults>>

(* complete_rounds_after_roster_change: write the row of a round this       *)
(* departure filled; the transaction stays open.                            *)
RosterRecord(t) ==
    /\ At(t, "departed")
    /\ inserting = NoTask
    /\ IF claimable /\ Full /\ event = "none"
       THEN inserting' = t /\ Goto(t, "telling")
       ELSE tasks' = [tasks EXCEPT ![t] = Free] /\ UNCHANGED inserting
    /\ UNCHANGED <<league, event, lock, told, faults>>

(* announce_all_picked: pushes go out inside the transaction.               *)
RosterTell(t) ==
    /\ At(t, "telling")
    /\ sent' = sent + 1
    /\ Goto(t, "closing")
    /\ UNCHANGED <<league, event, inserting, lock, lost, faults>>

RosterCommit(t) ==
    /\ At(t, "closing")
    /\ event' = "delivered"
    /\ inserting' = NoTask
    /\ tasks' = [tasks EXCEPT ![t] = Free]
    /\ UNCHANGED <<league, lock, told, faults>>

----------------------------------------------------------------------------
(* Failures                                                                 *)

(* A phase of the pick path raises; the wrapper swallows it and the task    *)
(* goes on to what comes after.                                             *)
PhaseFails(t) ==
    /\ faults < MaxFaults
    /\ \/ /\ At(t, "recording")
          /\ Goto(t, "queued")
          /\ UNCHANGED <<lock, lost>>
       \/ /\ At(t, "preparing") \/ At(t, "stamping")
          /\ AfterCompletion(t)
          /\ lock' = NoTask
          /\ lost' = IF At(t, "stamping") THEN lost + 1 ELSE lost
    /\ faults' = faults + 1
    /\ UNCHANGED <<league, event, inserting, sent>>

(* The roster path raises: its row goes with the rollback.                  *)
RosterFails(t) ==
    /\ faults < MaxFaults
    /\ At(t, "telling") \/ At(t, "closing")
    /\ lost' = IF At(t, "closing") THEN lost + 1 ELSE lost
    /\ inserting' = NoTask
    /\ tasks' = [tasks EXCEPT ![t] = Free]
    /\ faults' = faults + 1
    /\ UNCHANGED <<league, event, lock, sent>>

(* The process restarts: requests, background tasks, in-process locks and   *)
(* open transactions are gone.                                              *)
Crash ==
    /\ faults < MaxFaults
    /\ \E t \in Tasks : ~At(t, "free")
    /\ lost' = lost + Cardinality({t \in Tasks : At(t, "stamping") \/ At(t, "closing")})
    /\ tasks' = [t \in Tasks |-> Free]
    /\ lock' = NoTask
    /\ inserting' = NoTask
    /\ faults' = faults + 1
    /\ UNCHANGED <<league, event, sent>>

----------------------------------------------------------------------------
(* The rest of the league                                                   *)

Join(m) ==
    /\ m \notin roster
    /\ roster' = roster \cup {m}
    /\ UNCHANGED <<picked, claimable, event, inserting, lock, tasks, told, faults>>

(* A fixture is called off and the pick on it goes back.                    *)
ReturnPick(m) ==
    /\ claimable
    /\ m \in picked
    /\ picked' = picked \ {m}
    /\ UNCHANGED <<roster, claimable, event, inserting, lock, tasks, told, faults>>

RoundLocks ==
    /\ claimable
    /\ claimable' = FALSE
    /\ UNCHANGED <<roster, picked, event, inserting, lock, tasks, told, faults>>

----------------------------------------------------------------------------
Init ==
    /\ roster \in SUBSET Members
    /\ picked = {}
    /\ claimable = TRUE
    /\ event = "none"
    /\ inserting = NoTask
    /\ lock = NoTask
    /\ tasks = [t \in Tasks |-> Free]
    /\ sent = 0 /\ lost = 0 /\ faults = 0

(* What a task does once it has something to do.                            *)
Proceed(t) ==
    \/ ReadProgress(t) \/ RecordCompletion(t) \/ EnterFanout(t) \/ TakeLock(t) \/ Prepare(t)
    \/ Send(t) \/ Stamp(t) \/ OrdinaryAlert(t)
    \/ RosterRecord(t) \/ RosterTell(t) \/ RosterCommit(t)

Next ==
    \/ \E t \in Tasks : \/ Proceed(t) \/ PhaseFails(t) \/ RosterFails(t)
                        \/ \E m \in Members : PickCommits(t, m) \/ Depart(t, m)
    \/ \E m \in Members : Join(m) \/ ReturnPick(m)
    \/ Crash \/ RoundLocks

Spec == Init /\ [][Next]_vars

(* The event loop runs every task that can run.  asyncio.Lock, asyncio's    *)
(* semaphore and PostgreSQL's lock queues are first come, first served, so  *)
(* a task that keeps finding its turn free again gets it.                   *)
FairSpec == Spec /\ \A t \in Tasks : SF_vars(Proceed(t))

----------------------------------------------------------------------------
(* Properties                                                               *)

(* Every variable holds a value of its type, and the failures are bounded.  *)
TypeOK ==
    /\ roster \subseteq Members /\ picked \subseteq Members
    /\ claimable \in BOOLEAN
    /\ event \in {"none", "recorded", "delivered"}
    /\ inserting \in Tasks \cup {NoTask} /\ lock \in Tasks \cup {NoTask}
    /\ tasks \in [Tasks -> TaskState]
    /\ sent \in Nat /\ lost \in Nat /\ faults \in 0..MaxFaults

(* The tasks between their decision to tell the league and its outcome.     *)
Telling == {t \in Tasks : tasks[t].pc \in {"sending", "stamping", "telling", "closing"}}

(* Two requests never tell the league at the same time, although the row    *)
(* lock is let go before the pushes and the two paths share no lock.        *)
OneSender == \A t, u \in Telling : t = u

(* "Worth exactly one push per round": the league is told a second time     *)
(* only when a failure or a restart ate the stamp of an earlier telling.    *)
ToldOnce == sent <= 1 + lost

(* A stamped event was told, and the stamp is the one telling that was not  *)
(* lost: no stamp without a push.                                           *)
StampedMeansTold == event = "delivered" => sent > lost

(* Whatever the order of picks, departures and arrivals, once every task    *)
(* has finished without a failure a full coupon has been announced.         *)
FullCouponIsAnnounced ==
    (faults = 0 /\ claimable /\ Full /\ \A t \in Tasks : At(t, "free"))
        => event = "delivered"

(* A telling that failed is tried again by the next pick on the full        *)
(* coupon, so as long as picks keep landing the league hears of it.         *)
RetriedByTheNextPick ==
    ([]<>(\E t \in Tasks : At(t, "waiting"))) => [](event = "recorded" => <>(event = "delivered"))

(* The league this module plays its tasks against is the coupon that every  *)
(* other module of the round moves.                                         *)
League == INSTANCE Coupon

MovesTheCoupon == League!CouponSpec

(* "The count moves for two reasons: somebody picks, or somebody stops      *)
(* being an active member" (complete_rounds_after_roster_change): the two   *)
(* paths that record a completion are all there have to be.  A coupon that  *)
(* still takes picks becomes full by a pick or a departure, never by an     *)
(* arrival, a pick going back or anything else.                             *)
FillsByPickOrDeparture ==
    [][claimable' /\ ~Full /\ Full'
           => \E t \in Tasks, m \in Members : PickCommits(t, m) \/ Depart(t, m)]_vars

(* What a task under way can be waiting for: the unique key, a slot, the    *)
(* lock.  Every other step of it is its own to take.                        *)
Waits(t) ==
    \/ tasks[t].pc \in {"recording", "departed"} /\ inserting # NoTask
    \/ At(t, "queued") /\ Cardinality(FanningOut) >= Slots
    \/ At(t, "waiting") /\ lock # NoTask

(* Nobody waits on everybody: while a task is under way, one of them can    *)
(* take its next step, whoever holds the slots, the lock and the key.       *)
NoStandstill ==
    (\E t \in Tasks : ~At(t, "free")) => \E t \in Tasks : ~At(t, "free") /\ ~Waits(t)

(* How many steps a task has left at most.                                  *)
StepsLeft(t) ==
    CASE tasks[t].pc = "free" -> 0
      [] tasks[t].pc \in {"alerting", "closing"} -> 1
      [] tasks[t].pc \in {"stamping", "telling"} -> 2
      [] tasks[t].pc \in {"sending", "departed"} -> 3
      [] tasks[t].pc = "preparing" -> 4
      [] tasks[t].pc = "waiting" -> 5
      [] tasks[t].pc = "queued" -> 6
      [] tasks[t].pc = "recording" -> 7
      [] tasks[t].pc = "progress" -> 8

(* No task goes round in circles: whatever fails, each of its steps brings  *)
(* it nearer to its end, and another task never sets it back.  A telling    *)
(* that failed is left to the next request.                                 *)
TasksOnlyAdvance ==
    [][\A t \in Tasks :
          ~At(t, "free") => tasks'[t] = tasks[t] \/ StepsLeft(t)' < StepsLeft(t)]_vars
=============================================================================
