------------------------ MODULE RoundCompletion_proofs ------------------------
(* The league is told of a full coupon by one task at a time, and a second  *)
(* time only when the stamp of the first telling was lost.                  *)
(*                                                                          *)
(* OneSender is not inductive: it needs to know that the three phases of a  *)
(* pick path happen under the round's lock, that a roster path tells only   *)
(* while it holds the unique key, and that the event separates the two: a   *)
(* key is held only while nothing is recorded, a pick path sends only what  *)
(* is recorded.  ToldOnce needs the account of every telling: each is       *)
(* stamped, lost, or still on its way to its stamp.                         *)
EXTENDS RoundCompletion, FiniteSetTheorems, TLAPS

Steps == {"free"} \cup PickSteps \cup RosterSteps

UnderLock == {"preparing", "sending", "stamping"}
UnderKey == {"telling", "closing"}

(* Who holds what, and what the event is meanwhile.                         *)
Holding ==
    /\ \A t \in Tasks : tasks[t].pc \in UnderLock => lock = t
    /\ \A t \in Tasks : tasks[t].pc \in UnderKey => inserting = t
    /\ inserting # NoTask => event = "none"
    /\ \A t \in Tasks : tasks[t].pc \in {"sending", "stamping"} => event = "recorded"

Unstamped == {t \in Tasks : At(t, "stamping") \/ At(t, "closing")}

(* Every telling is stamped, lost, or on its way to the stamp.              *)
Accounts ==
    sent = lost + (IF event = "delivered" THEN 1 ELSE 0) + (IF Unstamped = {} THEN 0 ELSE 1)

Inv == TypeOK /\ Holding /\ Accounts

----------------------------------------------------------------------------
(* How a step moves the tasks                                               *)

(* Only the task that acts moves, and it moves to the step named.           *)
LEMMA GotoMoves ==
    ASSUME TypeOK, NEW t \in Tasks, NEW s \in Steps, Goto(t, s)
    PROVE  /\ tasks' \in [Tasks -> TaskState]
           /\ tasks'[t].pc = s
           /\ \A u \in Tasks \ {t} : tasks'[u] = tasks[u]
    BY DEF TypeOK, Goto, TaskState, Steps

(* After the completion a pick path is done or goes on to its own alert.    *)
LEMMA AfterCompletionMoves ==
    ASSUME TypeOK, NEW t \in Tasks, AfterCompletion(t)
    PROVE  /\ tasks' \in [Tasks -> TaskState]
           /\ tasks'[t].pc \in {"free", "alerting"}
           /\ \A u \in Tasks \ {t} : tasks'[u] = tasks[u]
    <1>1. CASE tasks[t].first
        BY <1>1 DEF TypeOK, AfterCompletion, TaskState, Free
    <1>2. CASE ~tasks[t].first
        BY <1>2 DEF TypeOK, AfterCompletion, TaskState, PickSteps
    <1> QED BY <1>1, <1>2

(* A task that ends is free.                                                *)
LEMMA EndMoves ==
    ASSUME TypeOK, NEW t \in Tasks, tasks' = [tasks EXCEPT ![t] = Free]
    PROVE  /\ tasks' \in [Tasks -> TaskState]
           /\ tasks'[t].pc = "free"
           /\ \A u \in Tasks \ {t} : tasks'[u] = tasks[u]
    BY DEF TypeOK, TaskState, Free

(* What a submission learns from the progress it reads and from its insert. *)
LEMMA LearnMoves ==
    ASSUME TypeOK, NEW t \in Tasks, NEW s \in Steps, NEW b \in BOOLEAN,
           \/ tasks' = [tasks EXCEPT ![t].pc = s, ![t].full = b]
           \/ tasks' = [tasks EXCEPT ![t].pc = s, ![t].first = b]
    PROVE  /\ tasks' \in [Tasks -> TaskState]
           /\ tasks'[t].pc = s
           /\ \A u \in Tasks \ {t} : tasks'[u] = tasks[u]
    <1> DEFINE x == [tasks[t] EXCEPT !.pc = s, !.full = b]
               y == [tasks[t] EXCEPT !.pc = s, !.first = b]
    <1>1. tasks[t] \in TaskState
        BY DEF TypeOK
    <1>2. x \in TaskState /\ x.pc = s
        BY <1>1 DEF TaskState, Steps
    <1>3. y \in TaskState /\ y.pc = s
        BY <1>1 DEF TaskState, Steps
    <1>4. tasks' = [tasks EXCEPT ![t] = x] \/ tasks' = [tasks EXCEPT ![t] = y]
        BY DEF TypeOK
    <1> HIDE DEF x, y
    <1> QED BY <1>2, <1>3, <1>4 DEF TypeOK

----------------------------------------------------------------------------
(* Types                                                                    *)

LEMMA InitInv == Init => Inv
    <1> SUFFICES ASSUME Init PROVE Inv
        OBVIOUS
    <1>1. TypeOK
        BY SlotAssumption DEF Init, TypeOK, TaskState, Free
    <1>2. \A t \in Tasks : tasks[t].pc = "free"
        BY DEF Init, Free
    <1>3. Holding
        BY <1>2 DEF Init, Holding, UnderLock, UnderKey
    <1>4. Unstamped = {}
        BY <1>2 DEF Unstamped, At
    <1>5. Accounts
        BY <1>4 DEF Init, Accounts
    <1> QED BY <1>1, <1>3, <1>5 DEF Inv

(* The number of tellings a restart can lose.                               *)
LEMMA UnstampedCount ==
    ASSUME TypeOK, Holding
    PROVE  Cardinality(Unstamped) = IF Unstamped = {} THEN 0 ELSE 1
    <1>1. CASE Unstamped = {}
        BY <1>1, FS_EmptySet
    <1>2. CASE Unstamped # {}
        <2>1. PICK t \in Unstamped : TRUE
            BY <1>2
        <2>2. Unstamped = {t}
            BY <2>1, TaskAssumption DEF Unstamped, At, Holding, UnderLock, UnderKey
        <2> QED BY <1>2, <2>2, FS_Singleton
    <1> QED BY <1>1, <1>2

LEMMA TypeStep ==
    ASSUME Inv, [Next]_vars
    PROVE  TypeOK'
    <1> USE DEF Inv, Steps, PickSteps, RosterSteps
    <1>0. /\ TypeOK
          /\ "free" \in Steps
        BY DEF TypeOK
    <1>1. ASSUME NEW t \in Tasks, NEW m \in Members, PickCommits(t, m)
          PROVE  TypeOK'
        BY <1>0, <1>1, GotoMoves DEF PickCommits, TypeOK, told
    <1>2. ASSUME NEW t \in Tasks, ReadProgress(t)
          PROVE  TypeOK'
        <2> DEFINE f == Full
        <2>1. f \in BOOLEAN
            BY DEF Full
        <2>2. tasks' = [tasks EXCEPT ![t].pc = IF f THEN "recording" ELSE "queued", ![t].full = f]
            BY <1>2 DEF ReadProgress
        <2> HIDE DEF f
        <2>3. tasks' \in [Tasks -> TaskState]
            BY <1>0, <2>1, <2>2, LearnMoves
        <2> QED BY <1>0, <1>2, <2>3 DEF ReadProgress, TypeOK, league, told
    <1>3. ASSUME NEW t \in Tasks, RecordCompletion(t)
          PROVE  TypeOK'
        <2> DEFINE b == event = "none"
        <2>1. b \in BOOLEAN
            OBVIOUS
        <2>2. tasks' = [tasks EXCEPT ![t].pc = "queued", ![t].first = b]
            BY <1>3 DEF RecordCompletion
        <2> HIDE DEF b
        <2>3. tasks' \in [Tasks -> TaskState]
            BY <1>0, <2>1, <2>2, LearnMoves
        <2> QED BY <1>0, <1>3, <2>3 DEF RecordCompletion, TypeOK, league, told
    <1>4. ASSUME NEW t \in Tasks, EnterFanout(t)
          PROVE  TypeOK'
        BY <1>0, <1>4, GotoMoves DEF EnterFanout, TypeOK, league, told
    <1>5. ASSUME NEW t \in Tasks, TakeLock(t)
          PROVE  TypeOK'
        BY <1>0, <1>5, GotoMoves DEF TakeLock, TypeOK, league, told
    <1>6. ASSUME NEW t \in Tasks, Prepare(t)
          PROVE  TypeOK'
        BY <1>0, <1>6, GotoMoves, AfterCompletionMoves DEF Prepare, TypeOK, league, told
    <1>7. ASSUME NEW t \in Tasks, Send(t)
          PROVE  TypeOK'
        BY <1>0, <1>7, GotoMoves DEF Send, TypeOK, league
    <1>8. ASSUME NEW t \in Tasks, Stamp(t)
          PROVE  TypeOK'
        BY <1>0, <1>8, AfterCompletionMoves DEF Stamp, TypeOK, league, told
    <1>9. ASSUME NEW t \in Tasks, OrdinaryAlert(t)
          PROVE  TypeOK'
        BY <1>0, <1>9, EndMoves DEF OrdinaryAlert, TypeOK, league, told
    <1>10. ASSUME NEW t \in Tasks, NEW m \in Members, Depart(t, m)
           PROVE  TypeOK'
        BY <1>0, <1>10, GotoMoves DEF Depart, TypeOK, told
    <1>11. ASSUME NEW t \in Tasks, RosterRecord(t)
           PROVE  TypeOK'
        BY <1>0, <1>11, GotoMoves, EndMoves DEF RosterRecord, TypeOK, league, told
    <1>12. ASSUME NEW t \in Tasks, RosterTell(t)
           PROVE  TypeOK'
        BY <1>0, <1>12, GotoMoves DEF RosterTell, TypeOK, league
    <1>13. ASSUME NEW t \in Tasks, RosterCommit(t)
           PROVE  TypeOK'
        BY <1>0, <1>13, EndMoves DEF RosterCommit, TypeOK, league, told
    <1>14. ASSUME NEW t \in Tasks, PhaseFails(t)
           PROVE  TypeOK'
        <2>1. faults' \in 0..MaxFaults /\ lost' \in Nat
            BY <1>0, <1>14, SlotAssumption DEF PhaseFails, TypeOK
        <2>2. tasks' \in [Tasks -> TaskState]
            BY <1>0, <1>14, GotoMoves, AfterCompletionMoves DEF PhaseFails
        <2> QED BY <1>0, <1>14, <2>1, <2>2 DEF PhaseFails, TypeOK, league
    <1>15. ASSUME NEW t \in Tasks, RosterFails(t)
           PROVE  TypeOK'
        <2>1. faults' \in 0..MaxFaults /\ lost' \in Nat
            BY <1>0, <1>15, SlotAssumption DEF RosterFails, TypeOK
        <2>2. tasks' \in [Tasks -> TaskState]
            BY <1>0, <1>15, EndMoves DEF RosterFails
        <2> QED BY <1>0, <1>15, <2>1, <2>2 DEF RosterFails, TypeOK, league
    <1>16. ASSUME Crash
           PROVE  TypeOK'
        <2>1. Cardinality(Unstamped) \in Nat
            BY <1>0, UnstampedCount
        <2>2. faults' \in 0..MaxFaults /\ lost' \in Nat
            BY <1>0, <1>16, <2>1, SlotAssumption DEF Crash, TypeOK, Unstamped
        <2> QED BY <1>0, <1>16, <2>2 DEF Crash, TypeOK, league, TaskState, Free
    <1>17. ASSUME NEW m \in Members, Join(m) \/ ReturnPick(m)
           PROVE  TypeOK'
        BY <1>0, <1>17 DEF Join, ReturnPick, TypeOK, told
    <1>18. CASE RoundLocks
        BY <1>0, <1>18 DEF RoundLocks, TypeOK, told
    <1>19. CASE UNCHANGED vars
        BY <1>0, <1>19 DEF vars, TypeOK
    <1> QED BY <1>1, <1>2, <1>3, <1>4, <1>5, <1>6, <1>7, <1>8, <1>9, <1>10, <1>11, <1>12,
               <1>13, <1>14, <1>15, <1>16, <1>17, <1>18, <1>19 DEF Next, Proceed

----------------------------------------------------------------------------
(* Who holds what                                                           *)

(* A step by which one task moves to a step that holds nothing, and that    *)
(* takes nothing from another task, keeps Holding.                          *)
LEMMA QuietMove ==
    ASSUME Inv, NEW t \in Tasks,
           tasks'[t].pc \notin UnderLock \cup UnderKey,
           \A u \in Tasks \ {t} : tasks'[u] = tasks[u],
           UNCHANGED <<event, inserting>>,
           lock' = lock \/ tasks[t].pc \in UnderLock
    PROVE  Holding'
    BY DEF Inv, Holding, UnderLock, UnderKey

LEMMA HoldingStep ==
    ASSUME Inv, [Next]_vars
    PROVE  Holding'
    <1> USE DEF Steps, PickSteps, RosterSteps
    <1>0. TypeOK /\ Holding
        BY DEF Inv
    <1>1. ASSUME NEW t \in Tasks, NEW m \in Members, PickCommits(t, m)
          PROVE  Holding'
        BY <1>0, <1>1, GotoMoves, QuietMove DEF PickCommits, UnderLock, UnderKey
    <1>2. ASSUME NEW t \in Tasks, ReadProgress(t)
          PROVE  Holding'
        <2> DEFINE f == Full
        <2>1. f \in BOOLEAN
            BY DEF Full
        <2>2. tasks' = [tasks EXCEPT ![t].pc = IF f THEN "recording" ELSE "queued", ![t].full = f]
            BY <1>2 DEF ReadProgress
        <2> HIDE DEF f
        <2>3. /\ tasks'[t].pc \in {"recording", "queued"}
              /\ \A u \in Tasks \ {t} : tasks'[u] = tasks[u]
            BY <1>0, <2>1, <2>2, LearnMoves
        <2> QED BY <1>2, <2>3, QuietMove DEF ReadProgress, UnderLock, UnderKey
    <1>3. ASSUME NEW t \in Tasks, RecordCompletion(t)
          PROVE  Holding'
        <2> DEFINE b == event = "none"
        <2>1. b \in BOOLEAN
            OBVIOUS
        <2>2. tasks' = [tasks EXCEPT ![t].pc = "queued", ![t].first = b]
            BY <1>3 DEF RecordCompletion
        <2> HIDE DEF b
        <2>3. /\ tasks'[t].pc = "queued"
              /\ \A u \in Tasks \ {t} : tasks'[u] = tasks[u]
            BY <1>0, <2>1, <2>2, LearnMoves
        <2> QED BY <1>0, <1>3, <2>3 DEF RecordCompletion, Holding, UnderLock, UnderKey
    <1>4. ASSUME NEW t \in Tasks, EnterFanout(t)
          PROVE  Holding'
        BY <1>0, <1>4, GotoMoves, QuietMove DEF EnterFanout, UnderLock, UnderKey
    <1>5. ASSUME NEW t \in Tasks, TakeLock(t)
          PROVE  Holding'
        <2>1. \A u \in Tasks : tasks[u].pc \notin UnderLock
            BY <1>0, <1>5, TaskAssumption DEF TakeLock, Holding
        <2> QED BY <1>0, <1>5, <2>1, GotoMoves DEF TakeLock, Holding, UnderLock, UnderKey
    <1>6. ASSUME NEW t \in Tasks, Prepare(t)
          PROVE  Holding'
        <2>1. CASE event = "recorded"
            BY <1>0, <1>6, <2>1, GotoMoves DEF Prepare, At, Holding, UnderLock, UnderKey
        <2>2. CASE event # "recorded"
            BY <1>0, <1>6, <2>2, AfterCompletionMoves, QuietMove
               DEF Prepare, At, UnderLock, UnderKey
        <2> QED BY <2>1, <2>2
    <1>7. ASSUME NEW t \in Tasks, Send(t)
          PROVE  Holding'
        BY <1>0, <1>7, GotoMoves DEF Send, At, Holding, UnderLock, UnderKey
    <1>8. ASSUME NEW t \in Tasks, Stamp(t)
          PROVE  Holding'
        <2>1. event = "recorded" /\ inserting = NoTask
            BY <1>0, <1>8 DEF Stamp, At, Holding, UnderLock, UnderKey
        <2>2. \A u \in Tasks \ {t} : tasks[u].pc \notin UnderLock
            BY <1>0, <1>8 DEF Stamp, At, Holding, UnderLock
        <2> QED BY <1>0, <1>8, <2>1, <2>2, AfterCompletionMoves
                DEF Stamp, Holding, UnderLock, UnderKey
    <1>9. ASSUME NEW t \in Tasks, OrdinaryAlert(t)
          PROVE  Holding'
        BY <1>0, <1>9, EndMoves, QuietMove DEF OrdinaryAlert, UnderLock, UnderKey
    <1>10. ASSUME NEW t \in Tasks, NEW m \in Members, Depart(t, m)
           PROVE  Holding'
        BY <1>0, <1>10, GotoMoves, QuietMove DEF Depart, UnderLock, UnderKey
    <1>11. ASSUME NEW t \in Tasks, RosterRecord(t)
           PROVE  Holding'
        <2>1. \A u \in Tasks : tasks[u].pc \notin UnderKey
            BY <1>0, <1>11, TaskAssumption DEF RosterRecord, Holding
        <2>2. CASE claimable /\ Full /\ event = "none"
            BY <1>0, <1>11, <2>1, <2>2, GotoMoves DEF RosterRecord, Holding, UnderLock, UnderKey
        <2>3. CASE ~(claimable /\ Full /\ event = "none")
            BY <1>0, <1>11, <2>3, EndMoves, QuietMove DEF RosterRecord, UnderLock, UnderKey
        <2> QED BY <2>2, <2>3
    <1>12. ASSUME NEW t \in Tasks, RosterTell(t)
           PROVE  Holding'
        BY <1>0, <1>12, GotoMoves DEF RosterTell, At, Holding, UnderLock, UnderKey
    <1>13. ASSUME NEW t \in Tasks, RosterCommit(t)
           PROVE  Holding'
        <2>1. inserting = t /\ event = "none"
            BY <1>0, <1>13, TaskAssumption DEF RosterCommit, At, Holding, UnderKey
        <2>2. \A u \in Tasks \ {t} : tasks[u].pc \notin UnderKey \cup {"sending", "stamping"}
            BY <1>0, <2>1 DEF Holding, UnderKey
        <2> QED BY <1>0, <1>13, <2>1, <2>2, EndMoves DEF RosterCommit, Holding, UnderLock, UnderKey
    <1>14. ASSUME NEW t \in Tasks, PhaseFails(t)
           PROVE  Holding'
        <2>1. CASE At(t, "recording")
            BY <1>0, <1>14, <2>1, GotoMoves, QuietMove DEF PhaseFails, At, UnderLock, UnderKey
        <2>2. CASE At(t, "preparing") \/ At(t, "stamping")
            BY <1>0, <1>14, <2>2, AfterCompletionMoves, QuietMove
               DEF PhaseFails, At, UnderLock, UnderKey
        <2> QED BY <1>14, <2>1, <2>2 DEF PhaseFails
    <1>15. ASSUME NEW t \in Tasks, RosterFails(t)
           PROVE  Holding'
        <2>1. inserting = t
            BY <1>0, <1>15 DEF RosterFails, At, Holding, UnderKey
        <2>2. \A u \in Tasks \ {t} : tasks[u].pc \notin UnderKey
            BY <1>0, <2>1 DEF Holding
        <2> QED BY <1>0, <1>15, <2>1, <2>2, EndMoves DEF RosterFails, Holding, UnderLock, UnderKey
    <1>16. CASE Crash
        <2>1. \A u \in Tasks : tasks'[u].pc = "free"
            BY <1>16 DEF Crash, Free
        <2> QED BY <1>16, <2>1 DEF Crash, Holding, UnderLock, UnderKey
    <1>17. ASSUME UNCHANGED <<event, inserting, lock, tasks>>
           PROVE  Holding'
        BY <1>0, <1>17 DEF Holding
    <1> QED BY <1>1, <1>2, <1>3, <1>4, <1>5, <1>6, <1>7, <1>8, <1>9, <1>10, <1>11, <1>12,
               <1>13, <1>14, <1>15, <1>16, <1>17
            DEF Next, Proceed, Join, ReturnPick, RoundLocks, vars

----------------------------------------------------------------------------
(* The account of the tellings                                              *)

(* A step of a task that neither starts nor ends a telling, and neither     *)
(* stamps nor loses one.                                                    *)
LEMMA AccountsUntouched ==
    ASSUME Inv, NEW t \in Tasks,
           tasks[t].pc \notin {"stamping", "closing"},
           tasks'[t].pc \notin {"stamping", "closing"},
           \A u \in Tasks \ {t} : tasks'[u] = tasks[u],
           UNCHANGED told,
           event' = event \/ (event = "none" /\ event' = "recorded")
    PROVE  Accounts'
    <1>1. Unstamped' = Unstamped
        BY DEF Unstamped, At
    <1>2. (event' = "delivered") <=> (event = "delivered")
        OBVIOUS
    <1> QED BY <1>1, <1>2 DEF Inv, Accounts, told

(* A task at the end of its telling is the only one of its kind.            *)
LEMMA OnlyOneUnstamped ==
    ASSUME Inv, NEW t \in Unstamped
    PROVE  Unstamped = {t}
    BY TaskAssumption DEF Inv, Unstamped, At, Holding, UnderLock, UnderKey

LEMMA AccountsStep ==
    ASSUME Inv, [Next]_vars
    PROVE  Accounts'
    <1> USE DEF Steps, PickSteps, RosterSteps
    <1>0. TypeOK /\ Holding /\ Accounts /\ sent \in Nat /\ lost \in Nat
        BY DEF Inv, TypeOK
    <1>1. ASSUME NEW t \in Tasks, NEW m \in Members, PickCommits(t, m)
          PROVE  Accounts'
        BY <1>0, <1>1, GotoMoves, AccountsUntouched DEF PickCommits, At
    <1>2. ASSUME NEW t \in Tasks, ReadProgress(t)
          PROVE  Accounts'
        <2> DEFINE f == Full
        <2>1. f \in BOOLEAN
            BY DEF Full
        <2>2. tasks' = [tasks EXCEPT ![t].pc = IF f THEN "recording" ELSE "queued", ![t].full = f]
            BY <1>2 DEF ReadProgress
        <2> HIDE DEF f
        <2>3. /\ tasks'[t].pc \in {"recording", "queued"}
              /\ \A u \in Tasks \ {t} : tasks'[u] = tasks[u]
            BY <1>0, <2>1, <2>2, LearnMoves
        <2> QED BY <1>2, <2>3, AccountsUntouched DEF ReadProgress, At
    <1>3. ASSUME NEW t \in Tasks, RecordCompletion(t)
          PROVE  Accounts'
        <2> DEFINE b == event = "none"
        <2>1. b \in BOOLEAN
            OBVIOUS
        <2>2. tasks' = [tasks EXCEPT ![t].pc = "queued", ![t].first = b]
            BY <1>3 DEF RecordCompletion
        <2> HIDE DEF b
        <2>3. /\ tasks'[t].pc = "queued"
              /\ \A u \in Tasks \ {t} : tasks'[u] = tasks[u]
            BY <1>0, <2>1, <2>2, LearnMoves
        <2> QED BY <1>3, <2>3, AccountsUntouched DEF RecordCompletion, At
    <1>4. ASSUME NEW t \in Tasks, EnterFanout(t)
          PROVE  Accounts'
        BY <1>0, <1>4, GotoMoves, AccountsUntouched DEF EnterFanout, At
    <1>5. ASSUME NEW t \in Tasks, TakeLock(t)
          PROVE  Accounts'
        BY <1>0, <1>5, GotoMoves, AccountsUntouched DEF TakeLock, At
    <1>6. ASSUME NEW t \in Tasks, Prepare(t)
          PROVE  Accounts'
        BY <1>0, <1>6, GotoMoves, AfterCompletionMoves, AccountsUntouched DEF Prepare, At
    <1>7. ASSUME NEW t \in Tasks, Send(t)
          PROVE  Accounts'
        <2>1. event = "recorded" /\ Unstamped = {}
            BY <1>0, <1>7, TaskAssumption
               DEF Send, At, Unstamped, Holding, UnderLock, UnderKey
        <2>2. t \in Unstamped'
            BY <1>0, <1>7, GotoMoves DEF Send, Unstamped, At
        <2> QED BY <1>0, <1>7, <2>1, <2>2 DEF Send, Accounts
    <1>8. ASSUME NEW t \in Tasks, Stamp(t)
          PROVE  Accounts'
        <2>1. event = "recorded" /\ Unstamped = {t}
            BY <1>0, <1>8, OnlyOneUnstamped DEF Stamp, At, Unstamped, Holding
        <2>2. Unstamped' = {}
            BY <1>0, <1>8, <2>1, AfterCompletionMoves DEF Stamp, Unstamped, At
        <2> QED BY <1>0, <1>8, <2>1, <2>2 DEF Stamp, Accounts, told
    <1>9. ASSUME NEW t \in Tasks, OrdinaryAlert(t)
          PROVE  Accounts'
        BY <1>0, <1>9, EndMoves, AccountsUntouched DEF OrdinaryAlert, At
    <1>10. ASSUME NEW t \in Tasks, NEW m \in Members, Depart(t, m)
           PROVE  Accounts'
        BY <1>0, <1>10, GotoMoves, AccountsUntouched DEF Depart, At
    <1>11. ASSUME NEW t \in Tasks, RosterRecord(t)
           PROVE  Accounts'
        BY <1>0, <1>11, GotoMoves, EndMoves, AccountsUntouched DEF RosterRecord, At
    <1>12. ASSUME NEW t \in Tasks, RosterTell(t)
           PROVE  Accounts'
        <2>1. event = "none" /\ Unstamped = {}
            BY <1>0, <1>12, TaskAssumption
               DEF RosterTell, At, Unstamped, Holding, UnderLock, UnderKey
        <2>2. t \in Unstamped'
            BY <1>0, <1>12, GotoMoves DEF RosterTell, Unstamped, At
        <2> QED BY <1>0, <1>12, <2>1, <2>2 DEF RosterTell, Accounts
    <1>13. ASSUME NEW t \in Tasks, RosterCommit(t)
           PROVE  Accounts'
        <2>1. event = "none" /\ Unstamped = {t}
            BY <1>0, <1>13, OnlyOneUnstamped, TaskAssumption
               DEF RosterCommit, At, Unstamped, Holding, UnderKey
        <2>2. Unstamped' = {}
            BY <1>0, <1>13, <2>1, EndMoves DEF RosterCommit, Unstamped, At
        <2> QED BY <1>0, <1>13, <2>1, <2>2 DEF RosterCommit, Accounts, told
    <1>14. ASSUME NEW t \in Tasks, PhaseFails(t)
           PROVE  Accounts'
        <2>1. CASE At(t, "recording")
            <3>1. Goto(t, "queued") /\ UNCHANGED <<told, event>>
                BY <1>14, <2>1 DEF PhaseFails, At, told
            <3> QED BY <1>0, <2>1, <3>1, GotoMoves, AccountsUntouched DEF At
        <2>2. CASE At(t, "preparing")
            <3>1. AfterCompletion(t) /\ UNCHANGED <<told, event>>
                BY <1>14, <2>2 DEF PhaseFails, At, told
            <3> QED BY <1>0, <2>2, <3>1, AfterCompletionMoves, AccountsUntouched DEF At
        <2>3. CASE At(t, "stamping")
            <3>1. event = "recorded" /\ Unstamped = {t}
                BY <1>0, <2>3, OnlyOneUnstamped DEF At, Unstamped, Holding
            <3>2. AfterCompletion(t) /\ UNCHANGED <<sent, event>> /\ lost' = lost + 1
                BY <1>14, <2>3 DEF PhaseFails, At
            <3>3. Unstamped' = {}
                BY <1>0, <3>1, <3>2, AfterCompletionMoves DEF Unstamped, At
            <3> QED BY <1>0, <3>1, <3>2, <3>3 DEF Accounts
        <2> QED BY <1>14, <2>1, <2>2, <2>3 DEF PhaseFails
    <1>15. ASSUME NEW t \in Tasks, RosterFails(t)
           PROVE  Accounts'
        <2>1. CASE At(t, "telling")
            <3>1. tasks' = [tasks EXCEPT ![t] = Free] /\ UNCHANGED <<told, event>>
                BY <1>15, <2>1 DEF RosterFails, At, told
            <3> QED BY <1>0, <2>1, <3>1, EndMoves, AccountsUntouched DEF At
        <2>2. CASE At(t, "closing")
            <3>1. event = "none" /\ Unstamped = {t}
                BY <1>0, <2>2, OnlyOneUnstamped, TaskAssumption
                   DEF At, Unstamped, Holding, UnderKey
            <3>2. /\ tasks' = [tasks EXCEPT ![t] = Free]
                  /\ UNCHANGED <<sent, event>> /\ lost' = lost + 1
                BY <1>15, <2>2 DEF RosterFails, At
            <3>3. Unstamped' = {}
                BY <1>0, <3>1, <3>2, EndMoves DEF Unstamped, At
            <3> QED BY <1>0, <3>1, <3>2, <3>3 DEF Accounts
        <2> QED BY <1>15, <2>1, <2>2 DEF RosterFails
    <1>16. CASE Crash
        <2>1. Unstamped' = {}
            BY <1>16 DEF Crash, Unstamped, At, Free
        <2>2. lost' = lost + (IF Unstamped = {} THEN 0 ELSE 1)
            BY <1>0, <1>16, UnstampedCount DEF Crash, Unstamped
        <2> QED BY <1>0, <1>16, <2>1, <2>2 DEF Crash, Accounts
    <1>17. ASSUME UNCHANGED <<event, tasks, told>>
           PROVE  Accounts'
        BY <1>0, <1>17 DEF Accounts, Unstamped, At, told
    <1> QED BY <1>1, <1>2, <1>3, <1>4, <1>5, <1>6, <1>7, <1>8, <1>9, <1>10, <1>11, <1>12,
               <1>13, <1>14, <1>15, <1>16, <1>17
            DEF Next, Proceed, Join, ReturnPick, RoundLocks, vars, told

----------------------------------------------------------------------------
(* The promise of a telling                                                 *)

(* The tasks that have yet to look whether the coupon is full, or have and  *)
(* are about to write the event; the tasks that will tell a written one.    *)
Completing(t) == tasks[t].pc \in {"progress", "recording", "departed", "telling", "closing"}
Announcing(t) ==
    \/ tasks[t].pc \in {"waiting", "preparing", "sending", "stamping"}
    \/ At(t, "queued") /\ tasks[t].full

(* Without a failure, a full coupon nobody wrote down has a task that will, *)
(* and an event nobody stamped has a task that will tell of it.             *)
Promise ==
    /\ claimable => picked \subseteq roster
    /\ \A t \in Tasks : At(t, "recording") => tasks[t].full
    /\ faults = 0 /\ event = "recorded" => \E t \in Tasks : Announcing(t)
    /\ faults = 0 /\ event = "none" /\ claimable /\ Full => \E t \in Tasks : Completing(t)

(* A step of one task hands the promise to its own next step, or the task   *)
(* had none to keep.                                                        *)
LEMMA PromiseHandedOn ==
    ASSUME Inv, Promise, NEW t \in Tasks, UNCHANGED league,
           \A u \in Tasks \ {t} : tasks'[u] = tasks[u],
           tasks'[t].pc = "recording" => tasks'[t].full,
           faults' = 0 =>
               /\ faults = 0
               /\ event' = "recorded" => Announcing(t)' \/ (event = "recorded" /\ ~Announcing(t))
               /\ event' = "none" /\ claimable /\ Full =>
                      event = "none" /\ (Completing(t)' \/ ~Completing(t))
    PROVE  Promise'
    <1>1. claimable' = claimable /\ (claimable' => picked' \subseteq roster') /\ (Full' <=> Full)
        BY DEF league, Promise, Full
    <1>2. \A u \in Tasks : At(u, "recording")' => tasks'[u].full
        BY DEF Promise, At
    <1>3. ASSUME faults' = 0, event' = "recorded"
          PROVE  \E u \in Tasks : Announcing(u)'
        <2>1. CASE Announcing(t)'
            BY <2>1
        <2>2. CASE event = "recorded" /\ ~Announcing(t)
            <3>1. PICK u \in Tasks : Announcing(u)
                BY <1>3, <2>2 DEF Promise
            <3>2. Announcing(u)'
                BY <2>2, <3>1 DEF Announcing, At
            <3> QED BY <3>2
        <2> QED BY <1>3, <2>1, <2>2
    <1>4. ASSUME faults' = 0, event' = "none", claimable', Full'
          PROVE  \E u \in Tasks : Completing(u)'
        <2>1. PICK u \in Tasks : Completing(u)
            BY <1>1, <1>4 DEF Promise
        <2>2. CASE u = t
            BY <1>1, <1>4, <2>1, <2>2
        <2>3. CASE u # t
            BY <2>1, <2>3 DEF Completing
        <2> QED BY <2>2, <2>3
    <1> QED BY <1>1, <1>2, <1>3, <1>4 DEF Promise

LEMMA PromiseStep ==
    ASSUME Inv, Promise, [Next]_vars
    PROVE  Promise'
    <1> USE DEF Steps, PickSteps, RosterSteps
    <1>0. TypeOK /\ Holding
        BY DEF Inv
    (* A commit or a departure has yet to look.                             *)
    <1>1. ASSUME NEW t \in Tasks, NEW s \in {"progress", "departed"}, Goto(t, s), At(t, "free"),
                 claimable' => picked' \subseteq roster', UNCHANGED <<event, faults>>
          PROVE  Promise'
        <2>1. /\ tasks'[t].pc = s
              /\ \A u \in Tasks \ {t} : tasks'[u] = tasks[u]
            BY <1>0, <1>1, GotoMoves
        <2>2. \A u \in Tasks : At(u, "recording")' => tasks'[u].full
            BY <1>1, <2>1 DEF Promise, At
        <2>3. \A u \in Tasks : Announcing(u) => Announcing(u)'
            BY <1>1, <2>1 DEF Announcing, At
        <2>4. Completing(t)'
            BY <1>1, <2>1 DEF Completing
        <2> QED BY <1>1, <2>2, <2>3, <2>4 DEF Promise
    <1>2. ASSUME NEW t \in Tasks, NEW m \in Members, PickCommits(t, m)
          PROVE  Promise'
        BY <1>1, <1>2 DEF PickCommits, Promise
    <1>3. ASSUME NEW t \in Tasks, NEW m \in Members, Depart(t, m)
          PROVE  Promise'
        BY <1>1, <1>3 DEF Depart, Promise
    <1>4. ASSUME NEW t \in Tasks, ReadProgress(t)
          PROVE  Promise'
        <2> DEFINE f == Full
                   x == [tasks[t] EXCEPT !.pc = IF f THEN "recording" ELSE "queued", !.full = f]
        <2>1. f \in BOOLEAN
            BY DEF Full
        <2>2. tasks' = [tasks EXCEPT ![t] = x] /\ tasks[t] \in TaskState
            BY <1>0, <1>4 DEF ReadProgress, TypeOK
        <2>3. x.full = f /\ x.pc = IF f THEN "recording" ELSE "queued"
            <3> HIDE DEF f
            <3> QED BY <2>2 DEF TaskState
        <2> HIDE DEF x
        <2>4. tasks'[t] = x /\ \A u \in Tasks \ {t} : tasks'[u] = tasks[u]
            BY <1>0, <2>2 DEF TypeOK
        <2>5. UNCHANGED <<league, event, faults>> /\ ~Announcing(t)
            BY <1>4 DEF ReadProgress, Announcing, At
        <2>6. Full => Completing(t)'
            BY <2>3, <2>4 DEF Completing
        <2>7. tasks'[t].pc = "recording" => tasks'[t].full
            BY <2>3, <2>4
        <2> HIDE DEF f
        <2> QED BY <2>4, <2>5, <2>6, <2>7, PromiseHandedOn
    <1>5. ASSUME NEW t \in Tasks, RecordCompletion(t)
          PROVE  Promise'
        <2> DEFINE b == event = "none"
                   x == [tasks[t] EXCEPT !.pc = "queued", !.first = b]
        <2>1. b \in BOOLEAN
            OBVIOUS
        <2>2. tasks' = [tasks EXCEPT ![t] = x] /\ tasks[t] \in TaskState
            BY <1>0, <1>5 DEF RecordCompletion, TypeOK
        <2>3. x.pc = "queued" /\ x.full = tasks[t].full
            <3> HIDE DEF b
            <3> QED BY <2>2 DEF TaskState
        <2> HIDE DEF x
        <2>4. tasks'[t] = x /\ \A u \in Tasks \ {t} : tasks'[u] = tasks[u]
            BY <1>0, <2>2 DEF TypeOK
        <2>5. Announcing(t)' /\ tasks'[t].pc # "recording"
            BY <1>5, <2>3, <2>4 DEF RecordCompletion, Promise, Announcing, At
        <2>6. UNCHANGED <<league, faults>> /\ event' # "none"
            BY <1>5 DEF RecordCompletion
        <2> QED BY <2>4, <2>5, <2>6, PromiseHandedOn
    <1>6. ASSUME NEW t \in Tasks, EnterFanout(t)
          PROVE  Promise'
        <2>1. /\ tasks'[t].pc = IF tasks[t].full THEN "waiting" ELSE "alerting"
              /\ \A u \in Tasks \ {t} : tasks'[u] = tasks[u]
            BY <1>0, <1>6, GotoMoves DEF EnterFanout
        <2> QED BY <1>6, <2>1, PromiseHandedOn DEF EnterFanout, Announcing, Completing, At
    <1>7. ASSUME NEW t \in Tasks, TakeLock(t) \/ Send(t)
          PROVE  Promise'
        <2>1. /\ tasks'[t].pc \in {"preparing", "stamping"}
              /\ \A u \in Tasks \ {t} : tasks'[u] = tasks[u]
            BY <1>0, <1>7, GotoMoves DEF TakeLock, Send
        <2> QED BY <1>7, <2>1, PromiseHandedOn DEF TakeLock, Send, Announcing, Completing, At
    <1>8. ASSUME NEW t \in Tasks, Prepare(t)
          PROVE  Promise'
        <2>1. CASE event = "recorded"
            <3>1. /\ tasks'[t].pc = "sending"
                  /\ \A u \in Tasks \ {t} : tasks'[u] = tasks[u]
                BY <1>0, <1>8, <2>1, GotoMoves DEF Prepare
            <3> QED BY <1>8, <2>1, <3>1, PromiseHandedOn DEF Prepare, Announcing
        <2>2. CASE event # "recorded"
            <3>1. /\ tasks'[t].pc \in {"free", "alerting"}
                  /\ \A u \in Tasks \ {t} : tasks'[u] = tasks[u]
                BY <1>0, <1>8, <2>2, AfterCompletionMoves DEF Prepare
            <3> QED BY <1>8, <2>2, <3>1, PromiseHandedOn DEF Prepare, Completing, At
        <2> QED BY <2>1, <2>2
    <1>9. ASSUME NEW t \in Tasks, Stamp(t)
          PROVE  Promise'
        <2>1. event = "recorded" /\ event' = "delivered"
            BY <1>0, <1>9 DEF Stamp, At, Holding
        <2>2. /\ tasks'[t].pc \in {"free", "alerting"}
              /\ \A u \in Tasks \ {t} : tasks'[u] = tasks[u]
            BY <1>0, <1>9, AfterCompletionMoves DEF Stamp
        <2> QED BY <1>9, <2>1, <2>2, PromiseHandedOn DEF Stamp
    <1>10. ASSUME NEW t \in Tasks, OrdinaryAlert(t)
           PROVE  Promise'
        <2>1. /\ tasks'[t].pc = "free"
              /\ \A u \in Tasks \ {t} : tasks'[u] = tasks[u]
            BY <1>0, <1>10, EndMoves DEF OrdinaryAlert
        <2> QED BY <1>10, <2>1, PromiseHandedOn DEF OrdinaryAlert, Announcing, Completing, At
    <1>11. ASSUME NEW t \in Tasks, RosterRecord(t)
           PROVE  Promise'
        <2>1. UNCHANGED <<league, event, faults>> /\ ~Announcing(t)
            BY <1>11 DEF RosterRecord, Announcing, At
        <2>2. CASE claimable /\ Full /\ event = "none"
            <3>1. /\ tasks'[t].pc = "telling"
                  /\ \A u \in Tasks \ {t} : tasks'[u] = tasks[u]
                BY <1>0, <1>11, <2>2, GotoMoves DEF RosterRecord
            <3> QED BY <2>1, <3>1, PromiseHandedOn DEF Completing
        <2>3. CASE ~(claimable /\ Full /\ event = "none")
            <3>1. /\ tasks'[t].pc = "free"
                  /\ \A u \in Tasks \ {t} : tasks'[u] = tasks[u]
                BY <1>0, <1>11, <2>3, EndMoves DEF RosterRecord
            <3> QED BY <2>1, <2>3, <3>1, PromiseHandedOn
        <2> QED BY <2>2, <2>3
    <1>12. ASSUME NEW t \in Tasks, RosterTell(t)
           PROVE  Promise'
        <2>1. /\ tasks'[t].pc = "closing"
              /\ \A u \in Tasks \ {t} : tasks'[u] = tasks[u]
            BY <1>0, <1>12, GotoMoves DEF RosterTell
        <2> QED BY <1>12, <2>1, PromiseHandedOn DEF RosterTell, Announcing, Completing, At
    <1>13. ASSUME NEW t \in Tasks, RosterCommit(t)
           PROVE  Promise'
        <2>1. /\ tasks'[t].pc = "free"
              /\ \A u \in Tasks \ {t} : tasks'[u] = tasks[u]
            BY <1>0, <1>13, EndMoves DEF RosterCommit
        <2> QED BY <1>13, <2>1, PromiseHandedOn DEF RosterCommit
    <1>14. ASSUME faults' # 0, UNCHANGED league,
                  \A u \in Tasks : At(u, "recording")' => tasks'[u].full
           PROVE  Promise'
        BY <1>14 DEF Promise, league
    <1>15. ASSUME NEW t \in Tasks, PhaseFails(t) \/ RosterFails(t)
           PROVE  Promise'
        <2>1. /\ tasks'[t].pc \in {"queued", "free", "alerting"}
              /\ \A u \in Tasks \ {t} : tasks'[u] = tasks[u]
            BY <1>0, <1>15, GotoMoves, AfterCompletionMoves, EndMoves DEF PhaseFails, RosterFails
        <2>2. faults' # 0 /\ UNCHANGED league
            BY <1>0, <1>15 DEF PhaseFails, RosterFails, TypeOK
        <2> QED BY <1>14, <2>1, <2>2 DEF Promise, At
    <1>16. CASE Crash
        <2>1. \A u \in Tasks : tasks'[u].pc = "free"
            BY <1>16 DEF Crash, Free
        <2>2. faults' # 0 /\ UNCHANGED league
            BY <1>0, <1>16 DEF Crash, TypeOK
        <2> QED BY <1>14, <2>1, <2>2 DEF At
    <1>17. ASSUME UNCHANGED <<event, tasks, faults>>,
                  claimable' => claimable /\ picked' \subseteq roster' /\ (Full' => Full)
           PROVE  Promise'
        BY <1>17 DEF Promise, Announcing, Completing, At
    (* An arrival has not picked, so the coupon it finds full was not.      *)
    <1>18. ASSUME NEW m \in Members, Join(m)
           PROVE  Promise'
        <2>1. claimable => picked \subseteq roster
            BY DEF Promise
        <2> QED BY <1>17, <1>18, <2>1 DEF Join, Full
    <1>19. ASSUME NEW m \in Members, ReturnPick(m)
           PROVE  Promise'
        <2>1. claimable => picked \subseteq roster
            BY DEF Promise
        <2> QED BY <1>17, <1>19, <2>1 DEF ReturnPick, Full
    <1>20. CASE RoundLocks \/ UNCHANGED vars
        <2>1. claimable => picked \subseteq roster
            BY DEF Promise
        <2> QED BY <1>17, <1>20, <2>1 DEF RoundLocks, vars, Full
    <1> QED BY <1>2, <1>3, <1>4, <1>5, <1>6, <1>7, <1>8, <1>9, <1>10, <1>11, <1>12, <1>13,
               <1>15, <1>16, <1>18, <1>19, <1>20 DEF Next, Proceed

----------------------------------------------------------------------------
(* Nobody waits on everybody                                                *)

(* Whoever is named as the holder of the lock or of the key is at a step    *)
(* that gives it back.                                                      *)
Held ==
    /\ lock # NoTask => tasks[lock].pc \in UnderLock
    /\ inserting # NoTask => tasks[inserting].pc \in UnderKey

(* A task that holds nothing before and after its step leaves the holders   *)
(* as they are.                                                             *)
LEMMA NoHolderMoves ==
    ASSUME Inv, Held, NEW t \in Tasks, tasks[t].pc \notin UnderLock \cup UnderKey,
           \A u \in Tasks \ {t} : tasks'[u] = tasks[u], UNCHANGED <<lock, inserting>>
    PROVE  Held'
    BY DEF Inv, TypeOK, Held

(* A task under the lock keeps it or gives it back.                         *)
LEMMA TheHolderMoves ==
    ASSUME Inv, Held, NEW t \in Tasks, tasks[t].pc \in UnderLock, UNCHANGED inserting,
           \A u \in Tasks \ {t} : tasks'[u] = tasks[u],
           lock' = NoTask \/ (lock' = lock /\ tasks'[t].pc \in UnderLock)
    PROVE  Held'
    BY DEF Inv, TypeOK, Held, Holding, UnderLock, UnderKey

(* A roster task under the key keeps it or gives it back.                   *)
LEMMA TheInserterMoves ==
    ASSUME Inv, Held, NEW t \in Tasks, tasks[t].pc \in UnderKey, UNCHANGED lock,
           \A u \in Tasks \ {t} : tasks'[u] = tasks[u],
           inserting' = NoTask \/ (inserting' = inserting /\ tasks'[t].pc \in UnderKey)
    PROVE  Held'
    BY DEF Inv, TypeOK, Held, Holding, UnderLock, UnderKey

LEMMA HeldStep ==
    ASSUME Inv, Held, [Next]_vars
    PROVE  Held'
    <1> USE DEF Steps, PickSteps, RosterSteps
    <1>0. TypeOK
        BY DEF Inv
    <1>1. ASSUME NEW t \in Tasks, NEW m \in Members, PickCommits(t, m) \/ Depart(t, m)
          PROVE  Held'
        <2>1. \A u \in Tasks \ {t} : tasks'[u] = tasks[u]
            BY <1>0, <1>1, GotoMoves DEF PickCommits, Depart
        <2> QED BY <1>1, <2>1, NoHolderMoves DEF PickCommits, Depart, At, UnderLock, UnderKey
    <1>2. ASSUME NEW t \in Tasks, ReadProgress(t) \/ RecordCompletion(t)
          PROVE  Held'
        <2>1. \A u \in Tasks \ {t} : tasks'[u] = tasks[u]
            BY <1>0, <1>2 DEF ReadProgress, RecordCompletion, TypeOK
        <2> QED BY <1>2, <2>1, NoHolderMoves DEF ReadProgress, RecordCompletion, At, UnderLock, UnderKey
    <1>3. ASSUME NEW t \in Tasks, EnterFanout(t) \/ OrdinaryAlert(t)
          PROVE  Held'
        <2>1. \A u \in Tasks \ {t} : tasks'[u] = tasks[u]
            BY <1>0, <1>3, GotoMoves, EndMoves DEF EnterFanout, OrdinaryAlert
        <2> QED BY <1>3, <2>1, NoHolderMoves DEF EnterFanout, OrdinaryAlert, At, UnderLock, UnderKey
    <1>4. ASSUME NEW t \in Tasks, TakeLock(t)
          PROVE  Held'
        <2>1. tasks'[t].pc = "preparing" /\ \A u \in Tasks \ {t} : tasks'[u] = tasks[u]
            BY <1>0, <1>4, GotoMoves DEF TakeLock
        <2> QED BY <1>0, <1>4, <2>1 DEF TakeLock, Held, TypeOK, At, UnderLock, UnderKey
    <1>5. ASSUME NEW t \in Tasks, Prepare(t) \/ Send(t) \/ Stamp(t)
          PROVE  Held'
        <2>1. /\ \A u \in Tasks \ {t} : tasks'[u] = tasks[u]
              /\ lock' = NoTask \/ (lock' = lock /\ tasks'[t].pc \in {"sending", "stamping"})
            BY <1>0, <1>5, GotoMoves, AfterCompletionMoves DEF Prepare, Send, Stamp
        <2> QED BY <1>5, <2>1, TheHolderMoves DEF Prepare, Send, Stamp, At, UnderLock
    <1>6. ASSUME NEW t \in Tasks, RosterRecord(t)
          PROVE  Held'
        <2>1. CASE inserting' = t /\ Goto(t, "telling")
            <3>1. tasks'[t].pc = "telling" /\ \A u \in Tasks \ {t} : tasks'[u] = tasks[u]
                BY <1>0, <2>1, GotoMoves
            <3> QED BY <1>0, <1>6, <2>1, <3>1
                    DEF RosterRecord, Held, TypeOK, At, UnderLock, UnderKey
        <2>2. CASE tasks' = [tasks EXCEPT ![t] = Free] /\ UNCHANGED inserting
            <3>1. \A u \in Tasks \ {t} : tasks'[u] = tasks[u]
                BY <1>0, <2>2, EndMoves
            <3> QED BY <1>6, <2>2, <3>1, NoHolderMoves DEF RosterRecord, At, UnderLock, UnderKey
        <2> QED BY <1>6, <2>1, <2>2 DEF RosterRecord
    <1>7. ASSUME NEW t \in Tasks, RosterTell(t) \/ RosterCommit(t) \/ RosterFails(t)
          PROVE  Held'
        <2>1. /\ \A u \in Tasks \ {t} : tasks'[u] = tasks[u]
              /\ inserting' = NoTask \/ (inserting' = inserting /\ tasks'[t].pc = "closing")
            BY <1>0, <1>7, GotoMoves, EndMoves DEF RosterTell, RosterCommit, RosterFails
        <2> QED BY <1>7, <2>1, TheInserterMoves
                DEF RosterTell, RosterCommit, RosterFails, At, UnderKey
    <1>8. ASSUME NEW t \in Tasks, PhaseFails(t)
          PROVE  Held'
        <2>1. CASE At(t, "recording") /\ Goto(t, "queued") /\ UNCHANGED lock
            <3>1. \A u \in Tasks \ {t} : tasks'[u] = tasks[u]
                BY <1>0, <2>1, GotoMoves
            <3> QED BY <1>8, <2>1, <3>1, NoHolderMoves DEF PhaseFails, At, UnderLock, UnderKey
        <2>2. CASE (At(t, "preparing") \/ At(t, "stamping")) /\ AfterCompletion(t) /\ lock' = NoTask
            <3>1. \A u \in Tasks \ {t} : tasks'[u] = tasks[u]
                BY <1>0, <2>2, AfterCompletionMoves
            <3> QED BY <1>8, <2>2, <3>1, TheHolderMoves DEF PhaseFails, At, UnderLock
        <2> QED BY <1>8, <2>1, <2>2 DEF PhaseFails
    <1>9. CASE Crash
        BY <1>9 DEF Crash, Held
    <1>10. ASSUME UNCHANGED <<lock, inserting, tasks>>
           PROVE  Held'
        BY <1>10 DEF Held
    <1> QED BY <1>1, <1>2, <1>3, <1>4, <1>5, <1>6, <1>7, <1>8, <1>9, <1>10
            DEF Next, Proceed, Join, ReturnPick, RoundLocks, vars

(* Follow whoever is waited for: a key's holder tells or closes, a lock's   *)
(* holder prepares, sends or stamps, and in a slot there is somebody who    *)
(* goes on or waits for the lock.                                           *)
LEMMA SomebodyGoesOn ==
    ASSUME Inv, Held
    PROVE  NoStandstill
    <1> SUFFICES ASSUME NEW t \in Tasks, ~At(t, "free")
                 PROVE  \E u \in Tasks : ~At(u, "free") /\ ~Waits(u)
        BY DEF NoStandstill
    <1>1. CASE inserting # NoTask
        BY <1>1 DEF Inv, TypeOK, Held, At, Waits, UnderKey
    <1>2. CASE lock # NoTask
        BY <1>2 DEF Inv, TypeOK, Held, At, Waits, UnderLock
    <1>3. CASE inserting = NoTask /\ lock = NoTask
        <2>1. CASE Waits(t)
            <3>1. Cardinality(FanningOut) >= Slots
                BY <1>3, <2>1 DEF Waits
            <3>2. FanningOut # {}
                BY <3>1, FS_EmptySet, SlotAssumption
            <3>3. PICK u \in FanningOut : TRUE
                BY <3>2
            <3> QED BY <1>3, <3>3 DEF FanningOut, At, Waits
        <2>2. CASE ~Waits(t)
            BY <2>2
        <2> QED BY <2>1, <2>2
    <1> QED BY <1>1, <1>2, <1>3

----------------------------------------------------------------------------
(* The theorems                                                             *)

LEMMA Invariance == Spec => []Inv
    <1>1. Inv /\ [Next]_vars => Inv'
        BY TypeStep, HoldingStep, AccountsStep DEF Inv
    <1> QED BY InitInv, <1>1, PTL DEF Spec

LEMMA ThePromiseIsKept == Spec => []Promise
    <1>1. Init => Promise
        BY DEF Init, Promise, At, Free, Full
    <1>2. Inv /\ Promise /\ [Next]_vars => Promise'
        BY PromiseStep
    <1> QED BY Invariance, <1>1, <1>2, PTL DEF Spec

(* Every column and every task's record keeps its type, whatever fails.     *)
THEOREM CompletionTypes == Spec => []TypeOK
    <1>1. Inv => TypeOK
        BY DEF Inv
    <1> QED BY Invariance, <1>1, PTL

(* However many requests and departures race, one task at a time tells the  *)
(* league: the in-process lock, the unique key and the event's own column   *)
(* are enough although no two of the paths share all three.                 *)
THEOREM TellingIsExclusive == Spec => []OneSender
    <1>1. Inv => OneSender
        BY TaskAssumption DEF Inv, Holding, OneSender, Telling, UnderLock, UnderKey
    <1> QED BY Invariance, <1>1, PTL

(* The league hears of a full coupon once more than its stamps were lost at *)
(* most: without a failure, exactly once.                                   *)
THEOREM RepeatsAreLostStamps == Spec => []ToldOnce
    <1>1. Inv => ToldOnce
        <2> SUFFICES ASSUME Inv PROVE ToldOnce
            OBVIOUS
        <2>1. ~(event = "delivered" /\ Unstamped # {})
            BY TaskAssumption DEF Inv, Holding, Unstamped, At, UnderKey
        <2> QED BY <2>1 DEF Inv, Accounts, ToldOnce, TypeOK
    <1> QED BY Invariance, <1>1, PTL

(* No event is stamped as delivered unless a telling of it went out.        *)
THEOREM StampsAreEarned == Spec => []StampedMeansTold
    <1>1. Inv => StampedMeansTold
        BY DEF Inv, Accounts, StampedMeansTold, TypeOK
    <1> QED BY Invariance, <1>1, PTL

(* Whatever the order of picks, departures and arrivals, once every task    *)
(* has finished without a failure a full coupon has been announced: at      *)
(* every moment some task owes the event, or owes the telling of it.        *)
THEOREM FullCouponsAreTold == Spec => []FullCouponIsAnnounced
    <1>1. Inv /\ Promise => FullCouponIsAnnounced
        BY DEF Inv, TypeOK, Promise, Completing, Announcing, At, FullCouponIsAnnounced
    <1> QED BY Invariance, ThePromiseIsKept, <1>1, PTL

(* The tasks, their locks and their failures only ever move the coupon as   *)
(* the league does: by a pick, a departure, an arrival, a pick that goes    *)
(* back, or the deadline.                                                   *)
THEOREM TheLeagueIsACoupon == Spec => MovesTheCoupon
    <1>1. Init => League!CouponInit
        BY DEF Init, League!CouponInit
    <1>2. [Next]_vars => [League!CouponNext]_<<roster, picked, claimable>>
        <2> SUFFICES ASSUME [Next]_vars
                     PROVE  [League!CouponNext]_<<roster, picked, claimable>>
            OBVIOUS
        <2>1. ASSUME NEW t \in Tasks, NEW m \in Members, PickCommits(t, m) \/ Depart(t, m)
              PROVE  League!CouponNext
            <3>1. League!Pick(m) \/ League!Depart(m)
                BY <2>1 DEF PickCommits, Depart, League!Pick, League!Depart
            <3> QED BY <3>1 DEF League!CouponNext
        <2>2. ASSUME NEW m \in Members, Join(m)
              PROVE  League!CouponNext
            BY <2>2 DEF Join, League!Join, League!CouponNext
        <2>3. ASSUME NEW m \in Members, ReturnPick(m)
              PROVE  League!CouponNext
            <3>1. League!Return({m}) /\ {m} \in SUBSET Members
                BY <2>3 DEF ReturnPick, League!Return
            <3> QED BY <3>1 DEF League!CouponNext
        <2>4. CASE RoundLocks
            BY <2>4 DEF RoundLocks, League!Lock, League!CouponNext
        <2>5. CASE UNCHANGED league
            BY <2>5 DEF league
        <2> QED BY <2>1, <2>2, <2>3, <2>4, <2>5
                DEF Next, Proceed, ReadProgress, RecordCompletion, EnterFanout, TakeLock, Prepare,
                    Send, Stamp, OrdinaryAlert, RosterRecord, RosterTell, RosterCommit, PhaseFails,
                    RosterFails, Crash, league, vars
    <1> QED BY <1>1, <1>2, PTL DEF Spec, MovesTheCoupon, League!CouponSpec

(* A coupon that still takes picks becomes full by a pick or a departure    *)
(* only: whoever arrives has not picked, for any members and tasks.         *)
THEOREM CouponsFillInTwoWays == Spec => FillsByPickOrDeparture
    <1>1. Inv /\ Promise /\ [Next]_vars =>
              [claimable' /\ ~Full /\ Full'
                   => \E t \in Tasks, m \in Members : PickCommits(t, m) \/ Depart(t, m)]_vars
        <2> SUFFICES ASSUME Promise, Next, claimable', ~Full, Full',
                            \A t \in Tasks, m \in Members : ~PickCommits(t, m) /\ ~Depart(t, m)
                     PROVE  FALSE
            OBVIOUS
        <2>1. CASE UNCHANGED league
            BY <2>1 DEF league, Full
        <2>2. ASSUME NEW m \in Members, Join(m)
              PROVE  FALSE
            BY <2>2 DEF Join, Full, Promise
        <2>3. ASSUME NEW m \in Members, ReturnPick(m)
              PROVE  FALSE
            BY <2>3 DEF ReturnPick, Full
        <2> QED BY <2>1, <2>2, <2>3
                DEF Next, Proceed, ReadProgress, RecordCompletion, EnterFanout, TakeLock, Prepare,
                    Send, Stamp, OrdinaryAlert, RosterRecord, RosterTell, RosterCommit, PhaseFails,
                    RosterFails, Crash, RoundLocks, league
    <1> QED BY Invariance, ThePromiseIsKept, <1>1, PTL DEF Spec, FillsByPickOrDeparture

(* While a task is under way, one of them can take its next step, for any   *)
(* number of tasks, slots and failures.                                     *)
THEOREM NobodyStandsStill == Spec => []NoStandstill
    <1>1. Init => Held
        BY DEF Init, Held
    <1>2. Inv /\ Held /\ [Next]_vars => Held'
        BY HeldStep
    <1>3. Inv /\ Held => NoStandstill
        BY SomebodyGoesOn
    <1> QED BY Invariance, <1>1, <1>2, <1>3, PTL DEF Spec

(* Each step of a task brings it nearer to its end, and no task sets        *)
(* another one back, whatever fails.                                        *)
THEOREM TasksAdvance == Spec => TasksOnlyAdvance
    <1> DEFINE Advances == \A t \in Tasks :
                   ~At(t, "free") => tasks'[t] = tasks[t] \/ StepsLeft(t)' < StepsLeft(t)
    <1>1. ASSUME Inv, [Next]_vars
          PROVE  Advances
        <2> USE DEF Steps, PickSteps, RosterSteps
        <2>0. TypeOK
            BY <1>1 DEF Inv
        <2>1. ASSUME NEW t \in Tasks, \A u \in Tasks \ {t} : tasks'[u] = tasks[u],
                     At(t, "free") \/ StepsLeft(t)' < StepsLeft(t)
              PROVE  Advances
            BY <2>1
        <2>2. ASSUME NEW t \in Tasks, NEW m \in Members, PickCommits(t, m) \/ Depart(t, m)
              PROVE  Advances
            <3>1. \A u \in Tasks \ {t} : tasks'[u] = tasks[u]
                BY <2>0, <2>2, GotoMoves DEF PickCommits, Depart
            <3> QED BY <2>1, <2>2, <3>1 DEF PickCommits, Depart
        <2>3. ASSUME NEW t \in Tasks, ReadProgress(t)
              PROVE  Advances
            <3>1. /\ tasks'[t].pc \in {"recording", "queued"}
                  /\ \A u \in Tasks \ {t} : tasks'[u] = tasks[u]
                BY <2>0, <2>3 DEF ReadProgress, TypeOK, TaskState
            <3>2. StepsLeft(t)' < StepsLeft(t)
                BY <2>3, <3>1 DEF ReadProgress, At, StepsLeft
            <3> QED BY <2>1, <3>1, <3>2
        <2>4. ASSUME NEW t \in Tasks, RecordCompletion(t)
              PROVE  Advances
            <3>1. /\ tasks'[t].pc = "queued"
                  /\ \A u \in Tasks \ {t} : tasks'[u] = tasks[u]
                BY <2>0, <2>4 DEF RecordCompletion, TypeOK, TaskState
            <3>2. StepsLeft(t)' < StepsLeft(t)
                BY <2>4, <3>1 DEF RecordCompletion, At, StepsLeft
            <3> QED BY <2>1, <3>1, <3>2
        <2>5. ASSUME NEW t \in Tasks, NEW s \in Steps, Goto(t, s),
                     \/ At(t, "queued") /\ s \in {"waiting", "alerting"}
                     \/ At(t, "waiting") /\ s = "preparing"
                     \/ At(t, "preparing") /\ s = "sending"
                     \/ At(t, "sending") /\ s = "stamping"
                     \/ At(t, "departed") /\ s = "telling"
                     \/ At(t, "telling") /\ s = "closing"
                     \/ At(t, "recording") /\ s = "queued"
              PROVE  Advances
            <3>1. tasks'[t].pc = s /\ \A u \in Tasks \ {t} : tasks'[u] = tasks[u]
                BY <2>0, <2>5, GotoMoves
            <3>2. StepsLeft(t)' < StepsLeft(t)
                BY <2>5, <3>1 DEF At, StepsLeft
            <3> QED BY <2>1, <3>1, <3>2
        <2>6. ASSUME NEW t \in Tasks, At(t, "preparing") \/ At(t, "stamping"), AfterCompletion(t)
              PROVE  Advances
            <3>1. /\ tasks'[t].pc \in {"free", "alerting"}
                  /\ \A u \in Tasks \ {t} : tasks'[u] = tasks[u]
                BY <2>0, <2>6, AfterCompletionMoves
            <3>2. StepsLeft(t)' < StepsLeft(t)
                BY <2>6, <3>1 DEF At, StepsLeft
            <3> QED BY <2>1, <3>1, <3>2
        <2>7. ASSUME NEW t \in Tasks, ~At(t, "free"), tasks' = [tasks EXCEPT ![t] = Free]
              PROVE  Advances
            <3>1. tasks'[t].pc = "free" /\ \A u \in Tasks \ {t} : tasks'[u] = tasks[u]
                BY <2>0, <2>7, EndMoves
            <3>2. tasks[t].pc \in Steps
                BY <2>0 DEF TypeOK, TaskState
            <3>3. StepsLeft(t)' < StepsLeft(t)
                BY <2>7, <3>1, <3>2 DEF At, StepsLeft
            <3> QED BY <2>1, <3>1, <3>3
        <2>8. ASSUME NEW t \in Tasks, EnterFanout(t) \/ TakeLock(t) \/ Prepare(t) \/ Send(t)
              PROVE  Advances
            BY <2>5, <2>6, <2>8 DEF EnterFanout, TakeLock, Prepare, Send
        <2>9. ASSUME NEW t \in Tasks, Stamp(t) \/ OrdinaryAlert(t)
              PROVE  Advances
            BY <2>6, <2>7, <2>9 DEF Stamp, OrdinaryAlert, At
        <2>10. ASSUME NEW t \in Tasks,
                      RosterRecord(t) \/ RosterTell(t) \/ RosterCommit(t) \/ RosterFails(t)
               PROVE  Advances
            BY <2>5, <2>7, <2>10 DEF RosterRecord, RosterTell, RosterCommit, RosterFails, At
        <2>11. ASSUME NEW t \in Tasks, PhaseFails(t)
               PROVE  Advances
            BY <2>5, <2>6, <2>11 DEF PhaseFails
        <2>12. CASE Crash
            <3>1. \A t \in Tasks : tasks'[t].pc = "free" /\ tasks[t].pc \in Steps
                BY <2>0, <2>12 DEF Crash, Free, TypeOK, TaskState
            <3>2. \A t \in Tasks : ~At(t, "free") => StepsLeft(t)' < StepsLeft(t)
                BY <3>1 DEF At, StepsLeft
            <3> QED BY <3>2
        <2>13. ASSUME UNCHANGED tasks
               PROVE  Advances
            BY <2>13
        <2> QED BY <1>1, <2>2, <2>3, <2>4, <2>8, <2>9, <2>10, <2>11, <2>12, <2>13
                DEF Next, Proceed, Join, ReturnPick, RoundLocks, vars
    <1> QED BY Invariance, <1>1, PTL DEF Spec, TasksOnlyAdvance
=============================================================================
