------------------------------- MODULE Alarms -------------------------------
(* What reaches people without their asking: trouble with the football      *)
(* source, the daily alarms (no rounds, no backup), the notice of a changed *)
(* sign-in name and the reminder before a deadline.  Each must be heard     *)
(* once and not again, with the record of it kept by a process that may     *)
(* restart, a row, a counter or nothing but the time the job runs.          *)
EXTENDS Integers, FiniteSets

CONSTANTS
    Reporters,    \* jobs that may report at the same time
    Sustained,    \* failures in a row that count as trouble
    LoudGap,      \* hours a football alert silences a loud one
    QuietGap,     \* hours it silences a quiet one
    Boots,        \* processes that may be starting at the same time
    Dismissals,   \* tabs the notice may be dismissed in
    LastDay,      \* bound on the days
    LastTick,     \* bound on the clock, in half hours
    Offset        \* ticks between a reminder and the deadline
Tasks == Boots \cup Dismissals

ASSUME AlarmsAssumption ==
    /\ Sustained \in Nat \ {0} /\ LoudGap \in Nat \ {0} /\ QuietGap \in Nat
    /\ LoudGap =< QuietGap /\ LastDay \in Nat /\ LastTick \in Nat
    /\ Offset \in Nat /\ Offset > 1   \* a round is reminded of while it can still be picked in
    /\ Boots \cap Dismissals = {} /\ "free" \notin Tasks

VARIABLES
    failures,  \* failed requests in a row (counted up to Sustained)
    pending,   \* the trouble waiting to be collected, or "none"
    report,    \* report[j]: the trouble a job has collected and is reporting
    sending,   \* the jobs that found no alert inside the cooldown
    degraded,  \* hours since the last football_provider_degraded row
    unheard,   \* (history) loud trouble came after the last loud alert
    spared,    \* (history) a loud alert was dropped: cooldown, failure or restart
    bucket,    \* bucket[k]: the day an alarm's durable counter is of, and its hits
    telling,   \* telling[j]: the alarm and the day a job has charged for
    heard,     \* heard[k]: days whose alarm went out
    failed,    \* failed[k]: (history) days on which an alarm was charged and lost
    twice,     \* (history) alarms that went out a second time in a day
    day,       \* the day
    lock,      \* the task holding the notice's advisory lock, or "free"
    task,      \* task[t]: where a boot's or a dismissal's transaction stands
    markers,   \* display_name_changed rows of the member
    pushes,    \* (history) pushes of the notice delivered
    torn,      \* (history) pushes whose marker was lost with the transaction
    tick,      \* the clock
    round,     \* the round: status, opens, locks
    ran,       \* the tick the reminder job last ran at
    reminders, \* reminders a member without a pick got
    strayed    \* (history) a run was late or lost, or the deadline moved
troubleVars == <<failures, pending, report, sending, degraded, unheard, spared>>
dailyVars == <<bucket, telling, heard, failed, twice, day>>
noticeVars == <<lock, task, markers, pushes, torn>>
reminderVars == <<tick, round, ran, reminders, strayed>>
alarmVars == <<troubleVars, dailyVars, noticeVars, reminderVars>>

Loud(t) == t \in {"blocked", "blind"}
Kinds == {"discovery-silence", "backup-failed"}
Pickable == {"scheduled", "open"}

AlarmsInit ==
    /\ failures = 0 /\ pending = "none" /\ report = [j \in Reporters |-> "none"] /\ sending = {}
    /\ degraded = QuietGap + 1 /\ unheard = FALSE /\ spared = FALSE
    /\ bucket = [k \in Kinds |-> [day |-> 0, hits |-> 0]]
    /\ telling = [j \in Reporters |-> [kind |-> "none", day |-> 0]]
    /\ heard = [k \in Kinds |-> {}] /\ failed = [k \in Kinds |-> {}]
    /\ twice = {} /\ day = 1
    /\ lock = "free" /\ task = [t \in Tasks |-> "off"]
    /\ markers = 0 /\ pushes = 0 /\ torn = 0
    /\ tick = 0 /\ ran = -2 /\ reminders = 0 /\ strayed = FALSE
    /\ round \in [status : {"scheduled"}, opens : 0..LastTick, locks : 0..LastTick]
    /\ round.opens < round.locks

(***************************************************************************)
(* Trouble with the football source.  The process counts failures and keeps *)
(* one verdict; the end of any football job collects it, and the row of the *)
(* last alert, whichever it was, is the cooldown.                           *)
(***************************************************************************)
\* mutant: the latest trouble replaces whatever is waiting
RaiseLatest(t) == pending' = t
Raise(t) == pending' = IF Loud(pending) /\ ~Loud(t) THEN pending ELSE t

RequestSucceeds ==
    /\ failures' = 0
    /\ UNCHANGED <<pending, report, sending, degraded, unheard, spared>>

RequestFails ==
    LET n == IF failures < Sustained THEN failures + 1 ELSE failures IN
    /\ failures' = n
    /\ IF n = Sustained THEN Raise("unreachable") ELSE UNCHANGED pending
    /\ UNCHANGED <<report, sending, degraded, unheard, spared>>

RequestRefused ==
    /\ failures' = 0 /\ Raise("blocked") /\ unheard' = TRUE
    /\ UNCHANGED <<report, sending, degraded, spared>>

CrossCheckSawNothing ==
    /\ Raise("blind") /\ unheard' = TRUE
    /\ UNCHANGED <<failures, report, sending, degraded, spared>>

TakesAlert(j) ==
    /\ report[j] = "none" /\ pending # "none"
    /\ report' = [report EXCEPT ![j] = pending] /\ pending' = "none"
    /\ UNCHANGED <<failures, sending, degraded, unheard, spared>>

CoolingDown(t) == degraded =< (IF Loud(t) THEN LoudGap ELSE QuietGap)

(* Inside a cooldown nothing is written or sent.                            *)
ChecksCooldown(j) ==
    /\ report[j] # "none" /\ j \notin sending
    /\ IF CoolingDown(report[j])
       THEN /\ spared' = (spared \/ Loud(report[j]))
            /\ report' = [report EXCEPT ![j] = "none"] /\ UNCHANGED sending
       ELSE /\ sending' = sending \cup {j} /\ UNCHANGED <<report, spared>>
    /\ UNCHANGED <<failures, pending, degraded, unheard>>

(* The row, and the pushes if the trouble is loud.                          *)
Reports(j) ==
    /\ j \in sending
    /\ degraded' = 0
    /\ unheard' = (unheard /\ (Loud(pending) \/ ~Loud(report[j])))
    /\ spared' = (spared /\ ~Loud(report[j]))
    /\ report' = [report EXCEPT ![j] = "none"] /\ sending' = sending \ {j}
    /\ UNCHANGED <<failures, pending>>

ReportFails(j) ==
    /\ report[j] # "none"
    /\ spared' = (spared \/ Loud(report[j]))
    /\ report' = [report EXCEPT ![j] = "none"] /\ sending' = sending \ {j}
    /\ UNCHANGED <<failures, pending, degraded, unheard>>

(* Nothing of it outlives the process but the row.                          *)
Restarts ==
    /\ failures' = 0 /\ pending' = "none" /\ report' = [j \in Reporters |-> "none"] /\ sending' = {}
    /\ spared' = (spared \/ Loud(pending) \/ \E j \in Reporters : Loud(report[j]))
    /\ UNCHANGED <<degraded, unheard>>

HourPasses ==
    /\ degraded =< QuietGap /\ degraded' = degraded + 1
    /\ UNCHANGED <<failures, pending, report, sending, unheard, spared>>

TroubleNext ==
    \/ RequestSucceeds \/ RequestFails \/ RequestRefused \/ CrossCheckSawNothing
    \/ \E j \in Reporters : TakesAlert(j) \/ ChecksCooldown(j) \/ Reports(j) \/ ReportFails(j)
    \/ Restarts \/ HourPasses

(***************************************************************************)
(* The daily alarms: one hit a day on a counter that is committed before    *)
(* anything is sent.                                                        *)
(***************************************************************************)
\* mutant: the counter of a day that is over still refuses
ChargedForGood(k) == [bucket[k] EXCEPT !.hits = @ + 1]
Charged(k) == IF bucket[k].day < day THEN [day |-> day, hits |-> 1]
              ELSE [bucket[k] EXCEPT !.hits = @ + 1]

Charges(j, k) ==
    /\ telling[j].kind = "none"
    /\ bucket' = [bucket EXCEPT ![k] = Charged(k)]
    /\ bucket[k].day = day => bucket[k].hits < 2   \* bound
    /\ telling' = IF Charged(k).hits > 1 THEN telling
                  ELSE [telling EXCEPT ![j] = [kind |-> k, day |-> day]]
    /\ UNCHANGED <<heard, failed, twice, day>>

(* The alarm is about rounds that stopped coming, or a league with members  *)
(* and nothing left to claim.                                               *)
Stale(hours) == hours \in {"never", "too long ago"}
DiscoveryReports(j) ==
    /\ \E newest \in {"never", "too long ago", "lately"}, starved \in BOOLEAN :
           Stale(newest) \/ starved
    /\ Charges(j, "discovery-silence")
BackupFails(j) == Charges(j, "backup-failed")

TellsAdmins(j) ==
    /\ telling[j].kind # "none"
    /\ LET k == telling[j].kind IN
       /\ heard' = [heard EXCEPT ![k] = @ \cup {telling[j].day}]
       /\ twice' = IF telling[j].day \in heard[k] THEN twice \cup {k} ELSE twice
    /\ telling' = [telling EXCEPT ![j] = [kind |-> "none", day |-> 0]]
    /\ UNCHANGED <<bucket, failed, day>>
TellingFails(j) ==
    /\ telling[j].kind # "none"
    /\ failed' = [failed EXCEPT ![telling[j].kind] = @ \cup {telling[j].day}]
    /\ telling' = [telling EXCEPT ![j] = [kind |-> "none", day |-> 0]]
    /\ UNCHANGED <<bucket, heard, twice, day>>

(* Only a counter whose window has closed is pruned.                        *)
Prunes ==
    /\ bucket' = [k \in Kinds |-> IF bucket[k].day < day THEN [day |-> 0, hits |-> 0] ELSE bucket[k]]
    /\ UNCHANGED <<telling, heard, failed, twice, day>>
DayPasses ==
    /\ day < LastDay /\ day' = day + 1
    /\ UNCHANGED <<bucket, telling, heard, failed, twice>>

DailyNext ==
    \/ \E j \in Reporters : DiscoveryReports(j) \/ BackupFails(j) \/ TellsAdmins(j) \/ TellingFails(j)
    \/ Prunes \/ DayPasses

(***************************************************************************)
(* The changed sign-in name: a push at boot or a dialog in the app, under   *)
(* one advisory lock, until a marker says the member has been told.         *)
(***************************************************************************)
Locks(t) ==
    /\ task[t] = "waits" /\ lock = "free"
    /\ lock' = t /\ task' = [task EXCEPT ![t] = "reads"]
    /\ UNCHANGED <<markers, pushes, torn>>

(* The dialog is offered to a member without a marker.                      *)
Starts(t) ==
    /\ task[t] = "off" /\ (t \in Dismissals => markers = 0)
    /\ task' = [task EXCEPT ![t] = "waits"]
    /\ UNCHANGED <<lock, markers, pushes, torn>>

Ends(t) == lock' = IF lock = t THEN "free" ELSE lock

(* Nobody to reach (no subscription, muted, quiet hours): no marker.        *)
ReadsMarker(t) ==
    /\ task[t] = "reads"
    /\ \/ markers > 0 /\ task' = [task EXCEPT ![t] = "off"] /\ Ends(t) /\ UNCHANGED pushes
       \/ /\ markers = 0 /\ t \in Boots
          /\ task' = [task EXCEPT ![t] = "off"] /\ Ends(t) /\ UNCHANGED pushes
       \/ /\ markers = 0 /\ task' = [task EXCEPT ![t] = "writes"]
          /\ pushes' = pushes + (IF t \in Boots THEN 1 ELSE 0)
          /\ UNCHANGED lock
    /\ UNCHANGED <<markers, torn>>
WritesMarker(t) ==
    /\ task[t] = "writes"
    /\ markers' = markers + 1
    /\ task' = [task EXCEPT ![t] = "off"] /\ Ends(t)
    /\ UNCHANGED <<pushes, torn>>
Aborts(t) ==
    /\ task[t] \in {"reads", "writes"} /\ torn < 1   \* bound
    /\ torn' = torn + (IF task[t] = "writes" /\ t \in Boots THEN 1 ELSE 0)
    /\ task' = [task EXCEPT ![t] = "off"] /\ Ends(t)
    /\ UNCHANGED <<markers, pushes>>

NoticeNext ==
    \E t \in Tasks : Starts(t) \/ Locks(t) \/ ReadsMarker(t) \/ WritesMarker(t) \/ Aborts(t)

(***************************************************************************)
(* The reminder: an hourly job keeps no record of whom it reminded; a round *)
(* is due when its deadline is one job's interval wide around the offset.   *)
(***************************************************************************)
\* mutant: a deadline at the far end of the window is due as well
DueToTheEnd(now) ==
    /\ round.status \in Pickable /\ round.opens =< now
    /\ round.locks >= now + Offset - 1 /\ round.locks =< now + Offset + 1
Due(now) ==
    /\ round.status \in Pickable /\ round.opens =< now
    /\ round.locks >= now + Offset - 1 /\ round.locks < now + Offset + 1

OnTime(t) == t % 2 = 0
RemindersRun ==
    /\ ran < tick /\ (OnTime(tick) \/ ran < tick - 1)
    /\ ran' = tick
    /\ strayed' = (strayed \/ ~OnTime(tick))
    /\ reminders' = reminders + (IF Due(tick) THEN 1 ELSE 0)
    /\ UNCHANGED <<tick, round>>

(* The label job and the lock sweep follow the clock when they run; a       *)
(* window edit moves an unlocked round.                                     *)
Relabels ==
    /\ \/ round.status = "scheduled" /\ round.opens =< tick /\ round' = [round EXCEPT !.status = "open"]
       \/ round.status \in Pickable /\ round.locks =< tick /\ round' = [round EXCEPT !.status = "locked"]
    /\ UNCHANGED <<tick, ran, reminders, strayed>>
DeadlineMoves ==
    /\ round.status \in Pickable /\ tick < round.locks
    /\ \E l \in (tick + 1)..LastTick : l > round.opens /\ round' = [round EXCEPT !.locks = l]
    /\ strayed' = TRUE
    /\ UNCHANGED <<tick, ran, reminders>>
TimePasses ==
    /\ tick < LastTick /\ tick' = tick + 1
    /\ strayed' = (strayed \/ (OnTime(tick) /\ ran < tick))
    /\ UNCHANGED <<round, ran, reminders>>

ReminderNext == RemindersRun \/ Relabels \/ DeadlineMoves \/ TimePasses

(* The four share nothing.                                                  *)
AlarmsNext ==
    \/ TroubleNext /\ UNCHANGED <<dailyVars, noticeVars, reminderVars>>
    \/ DailyNext /\ UNCHANGED <<troubleVars, noticeVars, reminderVars>>
    \/ NoticeNext /\ UNCHANGED <<troubleVars, dailyVars, reminderVars>>
    \/ ReminderNext /\ UNCHANGED <<troubleVars, dailyVars, noticeVars>>

AlarmsSpec == AlarmsInit /\ [][AlarmsNext]_alarmVars
-----------------------------------------------------------------------------
LoudIsHeard ==
    unheard => Loud(pending) \/ (\E j \in Reporters : Loud(report[j])) \/ spared

SpentMeansHeard ==
    /\ twice = {}
    /\ \A k \in Kinds :
           bucket[k].hits > 0 /\ Charged(k).hits > 1
           => \/ day \in heard[k] \cup failed[k]
              \/ \E j \in Reporters : telling[j] = [kind |-> k, day |-> day]

(* A refusal by the football source, or a card nobody could check, is never *)
(* drowned by the ordinary failures around it: until the admins hear of it  *)
(* it is waiting as loud trouble or in the hands of a reporting job, unless *)
(* an alert of the last hour, a failed report or a restart swallowed it     *)
(* (FotMobHealth._raise_alert, take_alert, report_football_provider_health).*)
(* And a daily alarm goes out at most once a day, and a counter that        *)
(* refuses it refuses because the alarm did go out that day, is going out,  *)
(* or failed on its way: never because of another day's                     *)
(* (charge_durable_limit, the prune, notify_discovery_silence,              *)
(* notify_backup_failed).                                                   *)
TroubleIsHeard == LoudIsHeard /\ SpentMeansHeard

(* A renamed member is told once: one marker at most, whichever channel     *)
(* writes it, and one push more only where a transaction that had pushed    *)
(* was lost (send_rename_notices, acknowledge_in_app_notice).  And a member *)
(* who owes a pick gets exactly one reminder of a round that was claimable  *)
(* when its hour came and whose deadline stayed where it was, although      *)
(* nothing records it, provided the job ran on every hour                   *)
(* (gameweeks_due_a_reminder, run_pick_reminders).                          *)
MembersAreToldOnce ==
    /\ markers =< 1 /\ pushes =< 1 + torn
    /\ ~strayed =>
          /\ reminders =< 1
          /\ round.opens + Offset =< round.locks /\ round.locks =< tick + Offset - 2
             => reminders = 1
=============================================================================
