-------------------------- MODULE Background_proofs --------------------------
(* What the work in the background keeps: alarms and reminders, pushes,     *)
(* results, the provider's client and the season's names.  The components   *)
(* share no state; each has its own part below, for any number of jobs,     *)
(* senders, picks, callers and leagues.                                     *)
EXTENDS Results, Alarms, Pushes, Providers, SeasonWeeks, FiniteSetTheorems, SequenceTheorems,
        WellFoundedInduction, TLAPS

-----------------------------------------------------------------------------
(* Trouble with the football source: loud trouble is waiting, in a job's    *)
(* hands, or excused.                                                       *)
Troubles == {"none", "unreachable", "blocked", "blind"}
TroubleInv ==
    /\ pending \in Troubles /\ report \in [Reporters -> Troubles] /\ sending \subseteq Reporters
    /\ LoudIsHeard

LEMMA TroubleStep ==
    ASSUME TroubleInv, TroubleNext
    PROVE  TroubleInv'
<1> USE DEF TroubleInv, Troubles, Loud, LoudIsHeard
<1>1. CASE RequestSucceeds \/ HourPasses
  BY <1>1 DEF RequestSucceeds, HourPasses
<1>2. CASE RequestFails
  BY <1>2 DEF RequestFails, Raise
<1>3. CASE RequestRefused \/ CrossCheckSawNothing
  BY <1>3 DEF RequestRefused, CrossCheckSawNothing, Raise
<1>4. ASSUME NEW j \in Reporters, TakesAlert(j) PROVE TroubleInv'
  BY <1>4 DEF TakesAlert
<1>5. ASSUME NEW j \in Reporters, ChecksCooldown(j) PROVE TroubleInv'
  <2>1. CASE CoolingDown(report[j])
    BY <1>5, <2>1 DEF ChecksCooldown
  <2>2. CASE ~CoolingDown(report[j])
    BY <1>5, <2>2 DEF ChecksCooldown
  <2> QED
    BY <2>1, <2>2
<1>6. ASSUME NEW j \in Reporters, Reports(j) PROVE TroubleInv'
  BY <1>6 DEF Reports
<1>7. ASSUME NEW j \in Reporters, ReportFails(j) PROVE TroubleInv'
  BY <1>7 DEF ReportFails
<1>8. CASE Restarts
  BY <1>8 DEF Restarts
<1> QED
  BY <1>1, <1>2, <1>3, <1>4, <1>5, <1>6, <1>7, <1>8 DEF TroubleNext

-----------------------------------------------------------------------------
(* The daily alarms: a counter of today has counted, and stands for the one *)
(* alarm of today, which went out, failed or is in one job's hands.         *)
Tellings == [kind : Kinds \cup {"none"}, day : Nat]
DailyInv ==
    /\ day \in Nat \ {0} /\ twice = {}
    /\ bucket \in [Kinds -> [day : Nat, hits : Nat]]
    /\ telling \in [Reporters -> Tellings]
    /\ heard \in [Kinds -> SUBSET Nat] /\ failed \in [Kinds -> SUBSET Nat]
    /\ \A k \in Kinds :
          /\ bucket[k].day =< day
          /\ \A d \in heard[k] : d =< day /\ (d = day => bucket[k].day = day)
          /\ bucket[k].day = day =>
                /\ bucket[k].hits > 0
                /\ \/ day \in heard[k] \cup failed[k]
                   \/ \E j \in Reporters : telling[j] = [kind |-> k, day |-> day]
    /\ \A j \in Reporters : telling[j].kind # "none" =>
          /\ telling[j].day =< day /\ telling[j].day \notin heard[telling[j].kind]
          /\ telling[j].day = day => bucket[telling[j].kind].day = day
          /\ \A i \in Reporters : telling[i] = telling[j] => i = j

LEMMA CountersAreHeard ==
    ASSUME DailyInv
    PROVE  SpentMeansHeard
<1> SUFFICES ASSUME NEW k \in Kinds, bucket[k].hits > 0, Charged(k).hits > 1
             PROVE  bucket[k].day = day
  BY DEF DailyInv, SpentMeansHeard
<1>1. ~(bucket[k].day < day)
  BY DEF Charged
<1>2. bucket[k].day \in Nat /\ day \in Nat /\ bucket[k].day =< day
  BY DEF DailyInv
<1> QED
  BY <1>1, <1>2

LEMMA ChargeStep ==
    ASSUME DailyInv, NEW j \in Reporters, NEW k \in Kinds, Charges(j, k)
    PROVE  DailyInv'
<1> DEFINE now == [kind |-> k, day |-> day]
<1>1. /\ telling[j].kind = "none" /\ day \in Nat \ {0} /\ now \in Tellings
      /\ bucket[k] \in [day : Nat, hits : Nat] /\ bucket[k].day =< day
      /\ UNCHANGED <<heard, failed, twice, day>>
  BY DEF Charges, DailyInv, Tellings
<1> bucket[k].day \in Nat /\ bucket[k].hits \in Nat /\ k # "none"
  BY <1>1 DEF Kinds
<1>2. CASE bucket[k].day < day
  <2>1. Charged(k) = [day |-> day, hits |-> 1]
    BY <1>2 DEF Charged
  <2>2. bucket' = [bucket EXCEPT ![k] = [day |-> day, hits |-> 1]] /\ telling' = [telling EXCEPT ![j] = now]
    BY <2>1 DEF Charges
  <2>3. day \notin heard[k] /\ \A i \in Reporters : telling[i] # now
    <3>1. day \notin heard[k]
      BY <1>1, <1>2 DEF DailyInv
    <3>2. ASSUME NEW i \in Reporters, telling[i] = now PROVE FALSE
      <4>1. telling[i].kind = k /\ telling[i].day = day
        BY <3>2
      <4> QED
        BY <1>1, <1>2, <4>1 DEF DailyInv
    <3> QED
      BY <3>1, <3>2
  <2>4. bucket' \in [Kinds -> [day : Nat, hits : Nat]] /\ telling' \in [Reporters -> Tellings]
    BY <1>1, <2>2 DEF DailyInv
  <2>5. /\ bucket'[k] = [day |-> day, hits |-> 1] /\ telling'[j] = now
        /\ \A l \in Kinds : l # k => bucket'[l] = bucket[l]
        /\ \A i \in Reporters : i # j => telling'[i] = telling[i]
    BY <2>2 DEF DailyInv
  <2>6. \A l \in Kinds :
          /\ bucket'[l].day =< day
          /\ \A d \in heard[l] : d =< day /\ (d = day => bucket'[l].day = day)
          /\ bucket'[l].day = day =>
                /\ bucket'[l].hits > 0
                /\ \/ day \in heard[l] \cup failed[l]
                   \/ \E i \in Reporters : telling'[i] = [kind |-> l, day |-> day]
    <3> SUFFICES ASSUME NEW l \in Kinds
                 PROVE  /\ bucket'[l].day =< day
                        /\ \A d \in heard[l] : d =< day /\ (d = day => bucket'[l].day = day)
                        /\ bucket'[l].day = day =>
                              /\ bucket'[l].hits > 0
                              /\ \/ day \in heard[l] \cup failed[l]
                                 \/ \E i \in Reporters : telling'[i] = [kind |-> l, day |-> day]
      OBVIOUS
    <3>1. CASE l = k
      BY <1>1, <2>5, <3>1 DEF DailyInv
    <3>2. CASE l # k
      <4>1. \A i \in Reporters : telling[i] = [kind |-> l, day |-> day] => telling'[i] = telling[i]
        BY <1>1, <2>5 DEF Kinds
      <4>2. bucket'[l] = bucket[l]
        BY <2>5, <3>2
      <4>3. bucket[l].day = day =>
              /\ bucket[l].hits > 0
              /\ \/ day \in heard[l] \cup failed[l]
                 \/ \E i \in Reporters : telling[i] = [kind |-> l, day |-> day]
        BY DEF DailyInv
      <4>4. bucket[l].day =< day /\ \A d \in heard[l] : d =< day /\ (d = day => bucket[l].day = day)
        BY DEF DailyInv
      <4> QED
        BY <4>1, <4>2, <4>3, <4>4
    <3> QED
      BY <3>1, <3>2
  <2>7. \A i \in Reporters : telling'[i].kind # "none" =>
          /\ telling'[i].day =< day /\ telling'[i].day \notin heard[telling'[i].kind]
          /\ telling'[i].day = day => bucket'[telling'[i].kind].day = day
          /\ \A h \in Reporters : telling'[h] = telling'[i] => h = i
    <3> SUFFICES ASSUME NEW i \in Reporters, telling'[i].kind # "none"
                 PROVE  /\ telling'[i].day =< day /\ telling'[i].day \notin heard[telling'[i].kind]
                        /\ telling'[i].day = day => bucket'[telling'[i].kind].day = day
                        /\ \A h \in Reporters : telling'[h] = telling'[i] => h = i
      OBVIOUS
    <3>1. CASE i = j
      BY <1>1, <2>3, <2>5, <3>1
    <3>2. CASE i # j
      <4>1. telling'[i] = telling[i] /\ telling[i].kind \in Kinds /\ telling[i] # now
        BY <2>3, <2>5, <3>2 DEF DailyInv, Tellings
      <4>2. telling[i].day = day => bucket'[telling[i].kind].day = day
        <5>1. bucket'[telling[i].kind].day = day \/ bucket'[telling[i].kind] = bucket[telling[i].kind]
          BY <2>5, <4>1
        <5>2. telling[i].day = day => bucket[telling[i].kind].day = day
          BY <3>2, <2>5 DEF DailyInv
        <5> QED
          BY <5>1, <5>2
      <4>3. \A h \in Reporters : telling'[h] = telling[i] => h = i
        BY <2>5, <3>2, <4>1 DEF DailyInv
      <4> QED
        BY <3>2, <4>1, <4>2, <4>3 DEF DailyInv
    <3> QED
      BY <3>1, <3>2
  <2> QED
    BY <1>1, <2>4, <2>6, <2>7 DEF DailyInv
<1>3. CASE ~(bucket[k].day < day)
  <2>1. bucket[k].day = day /\ bucket[k].hits > 0
    <3>1. bucket[k].day = day
      BY <1>1, <1>3
    <3> QED
      BY <3>1 DEF DailyInv
  <2>2. Charged(k).hits > 1 /\ Charged(k).day = day /\ Charged(k) \in [day : Nat, hits : Nat]
    BY <1>1, <1>3, <2>1 DEF Charged
  <2>3. telling' = telling /\ bucket' = [bucket EXCEPT ![k] = Charged(k)]
    BY <2>2 DEF Charges
  <2>4. /\ bucket' \in [Kinds -> [day : Nat, hits : Nat]]
        /\ \A l \in Kinds : bucket'[l].day = bucket[l].day
                            /\ (bucket[l].hits > 0 => bucket'[l].hits > 0)
    BY <2>1, <2>2, <2>3 DEF DailyInv
  <2> QED
    BY <1>1, <2>3, <2>4 DEF DailyInv, Tellings
<1> QED
  BY <1>2, <1>3

LEMMA DailyStep ==
    ASSUME DailyInv, DailyNext
    PROVE  DailyInv'
<1>1. ASSUME NEW j \in Reporters, DiscoveryReports(j) \/ BackupFails(j) PROVE DailyInv'
  BY <1>1, ChargeStep DEF DiscoveryReports, BackupFails, Kinds
<1> DEFINE Idle1 == [kind |-> "none", day |-> 0]
<1>2. ASSUME NEW j \in Reporters, telling[j].kind # "none",
             telling' = [telling EXCEPT ![j] = Idle1],
             UNCHANGED <<bucket, twice, day>>,
             \/ heard' = [heard EXCEPT ![telling[j].kind] = @ \cup {telling[j].day}] /\ failed' = failed
             \/ failed' = [failed EXCEPT ![telling[j].kind] = @ \cup {telling[j].day}] /\ heard' = heard
      PROVE  DailyInv'
  <2> DEFINE k == telling[j].kind
  <2>1. k \in Kinds /\ telling[j].day \in Nat /\ telling[j].day =< day /\ Idle1 \in Tellings
        /\ telling[j] = [kind |-> k, day |-> telling[j].day]
    BY <1>2 DEF DailyInv, Tellings
  <2>2. telling' \in [Reporters -> Tellings]
        /\ \A i \in Reporters : telling'[i].kind # "none" => i # j /\ telling'[i] = telling[i]
    <3>1. telling \in [Reporters -> Tellings] /\ Idle1.kind = "none"
      BY DEF DailyInv
    <3>2. telling'[j] = Idle1 /\ \A i \in Reporters : i # j => telling'[i] = telling[i]
      BY <1>2, <3>1
    <3>3. telling' \in [Reporters -> Tellings]
      BY <1>2, <2>1, <3>1
    <3> QED
      BY <3>1, <3>2, <3>3
  <2>3. heard' \in [Kinds -> SUBSET Nat] /\ failed' \in [Kinds -> SUBSET Nat]
    <3>1. heard \in [Kinds -> SUBSET Nat] /\ failed \in [Kinds -> SUBSET Nat]
      BY DEF DailyInv
    <3>2. /\ heard[k] \cup {telling[j].day} \in SUBSET Nat
          /\ failed[k] \cup {telling[j].day} \in SUBSET Nat
      BY <2>1, <3>1
    <3> HIDE DEF k
    <3>3. CASE heard' = [heard EXCEPT ![k] = @ \cup {telling[j].day}] /\ failed' = failed
      BY <3>1, <3>2, <3>3
    <3>4. CASE failed' = [failed EXCEPT ![k] = @ \cup {telling[j].day}] /\ heard' = heard
      BY <3>1, <3>2, <3>4
    <3> QED
      BY <1>2, <3>3, <3>4 DEF k
  <2>4. /\ \A l \in Kinds : heard[l] \subseteq heard'[l] /\ failed[l] \subseteq failed'[l]
        /\ \A l \in Kinds : \A d \in heard'[l] : d \in heard[l] \/ (l = k /\ d = telling[j].day)
        /\ telling[j].day \in heard'[k] \cup failed'[k]
    <3>1. heard \in [Kinds -> SUBSET Nat] /\ failed \in [Kinds -> SUBSET Nat] /\ k \in Kinds
      BY <2>1 DEF DailyInv
    <3> HIDE DEF k
    <3>2. CASE heard' = [heard EXCEPT ![k] = @ \cup {telling[j].day}] /\ failed' = failed
      BY <3>1, <3>2
    <3>3. CASE failed' = [failed EXCEPT ![k] = @ \cup {telling[j].day}] /\ heard' = heard
      BY <3>1, <3>3
    <3> QED
      BY <1>2, <3>2, <3>3 DEF k
  <2>5. \A l \in Kinds :
          /\ bucket'[l].day =< day'
          /\ \A d \in heard'[l] : d =< day' /\ (d = day' => bucket'[l].day = day')
    <3> SUFFICES ASSUME NEW l \in Kinds
                 PROVE  /\ bucket[l].day =< day
                        /\ \A d \in heard'[l] : d =< day /\ (d = day => bucket[l].day = day)
      BY <1>2
    <3>1. /\ bucket[l].day =< day
          /\ \A d \in heard[l] : d =< day /\ (d = day => bucket[l].day = day)
      BY DEF DailyInv
    <3>2. telling[j].day =< day /\ (telling[j].day = day => bucket[k].day = day)
      BY <1>2, <2>1 DEF DailyInv
    <3> HIDE DEF k
    <3> QED
      BY <2>4, <3>1, <3>2
  <2>6. \A l \in Kinds : bucket'[l].day = day' =>
          /\ bucket'[l].hits > 0
          /\ \/ day' \in heard'[l] \cup failed'[l]
             \/ \E i \in Reporters : telling'[i] = [kind |-> l, day |-> day']
    <3> SUFFICES ASSUME NEW l \in Kinds, bucket[l].day = day
                 PROVE  /\ bucket[l].hits > 0
                        /\ \/ day \in heard'[l] \cup failed'[l]
                           \/ \E i \in Reporters : telling'[i] = [kind |-> l, day |-> day]
      BY <1>2
    <3>1. bucket[l].hits > 0
      BY DEF DailyInv
    <3>2. CASE day \in heard[l] \cup failed[l]
      BY <2>4, <3>1, <3>2
    <3>3. ASSUME NEW i \in Reporters, telling[i] = [kind |-> l, day |-> day]
          PROVE  \/ day \in heard'[l] \cup failed'[l]
                 \/ telling'[i] = [kind |-> l, day |-> day]
      <4>1. CASE i = j
        <5>1. l = k /\ telling[j].day = day
          BY <3>3, <4>1
        <5> QED
          BY <2>4, <5>1
      <4>2. CASE i # j
        BY <1>2, <3>3, <4>2 DEF DailyInv
      <4> QED
        BY <4>1, <4>2
    <3> QED
      BY <3>1, <3>2, <3>3 DEF DailyInv
  <2>7. \A i \in Reporters : telling'[i].kind # "none" =>
          /\ telling'[i].day =< day' /\ telling'[i].day \notin heard'[telling'[i].kind]
          /\ telling'[i].day = day' => bucket'[telling'[i].kind].day = day'
          /\ \A h \in Reporters : telling'[h] = telling'[i] => h = i
    <3> SUFFICES ASSUME NEW i \in Reporters, i # j, telling'[i] = telling[i], telling[i].kind # "none"
                 PROVE  /\ telling[i].day =< day /\ telling[i].day \notin heard'[telling[i].kind]
                        /\ telling[i].day = day => bucket[telling[i].kind].day = day
                        /\ \A h \in Reporters : telling'[h] = telling[i] => h = i
      BY <1>2, <2>2
    <3>1. telling[i] # telling[j] /\ telling[i].kind \in Kinds
          /\ telling[i] = [kind |-> telling[i].kind, day |-> telling[i].day]
      BY <1>2 DEF DailyInv, Tellings
    <3>2. telling[i].day \notin heard'[telling[i].kind]
      BY <2>1, <2>4, <3>1 DEF DailyInv
    <3>3. \A h \in Reporters : telling'[h] = telling[i] => h = i
      BY <2>2 DEF DailyInv
    <3> QED
      BY <3>2, <3>3 DEF DailyInv
  <2> QED
    BY <1>2, <2>2, <2>3, <2>5, <2>6, <2>7 DEF DailyInv
<1>3. ASSUME NEW j \in Reporters, TellsAdmins(j) PROVE DailyInv'
  <2>1. telling[j].day \notin heard[telling[j].kind]
    BY <1>3 DEF TellsAdmins, DailyInv
  <2> QED
    BY <1>2, <1>3, <2>1 DEF TellsAdmins
<1>4. ASSUME NEW j \in Reporters, TellingFails(j) PROVE DailyInv'
  BY <1>2, <1>4 DEF TellingFails
<1>5. CASE Prunes
  <2>1. /\ bucket' \in [Kinds -> [day : Nat, hits : Nat]]
        /\ \A k \in Kinds : IF bucket[k].day < day THEN bucket'[k].day = 0 ELSE bucket'[k] = bucket[k]
        /\ \A k \in Kinds : bucket[k].day \in Nat /\ bucket[k].day =< day
        /\ day \in Nat \ {0}
    BY <1>5 DEF Prunes, DailyInv
  <2>2. \A k \in Kinds : bucket'[k].day =< day /\ (bucket'[k].day = day <=> bucket[k].day = day)
                         /\ (bucket[k].day = day => bucket'[k] = bucket[k])
    BY <2>1
  <2> QED
    BY <1>5, <2>1, <2>2 DEF Prunes, DailyInv, Tellings
<1>6. CASE DayPasses
  <2>1. /\ day' = day + 1 /\ day \in Nat /\ UNCHANGED <<bucket, telling, heard, failed, twice>>
        /\ \A k \in Kinds : bucket[k].day \in Nat /\ bucket[k].day =< day
        /\ \A k \in Kinds : \A d \in heard[k] : d \in Nat /\ d =< day
        /\ \A j \in Reporters : telling[j].kind # "none" => telling[j].day \in Nat /\ telling[j].day =< day
    BY <1>6 DEF DayPasses, DailyInv, Tellings
  <2>2. /\ \A k \in Kinds : bucket[k].day =< day' /\ bucket[k].day # day'
        /\ \A k \in Kinds : \A d \in heard[k] : d =< day' /\ d # day'
        /\ \A j \in Reporters : telling[j].kind # "none" => telling[j].day =< day' /\ telling[j].day # day'
    BY <2>1
  <2> QED
    BY <2>1, <2>2 DEF DailyInv
<1> QED
  BY <1>1, <1>3, <1>4, <1>5, <1>6 DEF DailyNext

-----------------------------------------------------------------------------
(* The changed name: whoever reads or writes the marker holds the lock, and *)
(* a push without a marker is one whose marker is about to be written or    *)
(* was lost.                                                                *)
NoticeInv ==
    /\ markers \in 0..1 /\ pushes \in Nat /\ torn \in Nat
    /\ task \in [Tasks -> {"off", "waits", "reads", "writes"}]
    /\ \A t \in Tasks : task[t] \in {"reads", "writes"} => lock = t
    /\ \A t \in Tasks : task[t] = "writes" => markers = 0
    /\ pushes =< 1 + torn
    /\ markers = 0 /\ (\A t \in Boots : task[t] # "writes") => pushes =< torn

LEMMA NoticeStep ==
    ASSUME NoticeInv, NoticeNext
    PROVE  NoticeInv'
<1> PICK t \in Tasks : Starts(t) \/ Locks(t) \/ ReadsMarker(t) \/ WritesMarker(t) \/ Aborts(t)
  BY DEF NoticeNext
<1> Boots \subseteq Tasks /\ "free" \notin Tasks
  BY AlarmsAssumption DEF Tasks
<1>1. CASE Starts(t) \/ Locks(t)
  BY <1>1 DEF NoticeInv, Starts, Locks
<1>2. CASE ReadsMarker(t)
  <2>1. lock = t /\ \A u \in Tasks : u # t => task[u] \notin {"reads", "writes"}
    BY <1>2 DEF ReadsMarker, NoticeInv
  <2>2. CASE task' = [task EXCEPT ![t] = "off"] /\ UNCHANGED <<markers, pushes, torn>>
    BY <1>2, <2>1, <2>2 DEF ReadsMarker, NoticeInv
  <2>3. CASE markers = 0 /\ task' = [task EXCEPT ![t] = "writes"]
             /\ pushes' = pushes + (IF t \in Boots THEN 1 ELSE 0)
             /\ UNCHANGED <<markers, torn, lock>>
    <3>1. pushes =< torn
      BY <1>2, <2>1, <2>3 DEF ReadsMarker, NoticeInv
    <3>2. pushes' \in Nat /\ pushes' =< 1 + torn /\ (t \notin Boots => pushes' =< torn)
      BY <2>3, <3>1 DEF NoticeInv
    <3> QED
      BY <2>1, <2>3, <3>2 DEF NoticeInv
  <2> QED
    BY <1>2, <2>2, <2>3 DEF ReadsMarker
<1>3. CASE WritesMarker(t)
  <2>1. lock = t /\ \A u \in Tasks : u # t => task[u] \notin {"reads", "writes"}
    BY <1>3 DEF WritesMarker, NoticeInv
  <2> QED
    BY <1>3, <2>1 DEF WritesMarker, NoticeInv
<1>4. CASE Aborts(t)
  <2>1. lock = t /\ \A u \in Tasks : u # t => task[u] \notin {"reads", "writes"}
    BY <1>4 DEF Aborts, NoticeInv
  <2>2. torn' \in Nat /\ torn =< torn' /\ (t \in Boots /\ task[t] = "writes" => torn' = torn + 1)
    BY <1>4 DEF Aborts, NoticeInv
  <2> QED
    BY <1>4, <2>1, <2>2 DEF Aborts, NoticeInv
<1> QED
  BY <1>1, <1>2, <1>3, <1>4

-----------------------------------------------------------------------------
(* The reminder.  While no run is late and the deadline stands, the job ran *)
(* at every even tick up to now, and the one reminder went out at the run   *)
(* whose window the deadline lies in.                                       *)
ReminderInv ==
    /\ tick \in Nat /\ ran \in Int /\ reminders \in Nat /\ strayed \in BOOLEAN
    /\ round \in [status : {"scheduled", "open", "locked"}, opens : Nat, locks : Nat]
    /\ ran =< tick
    /\ round.status = "locked" => round.locks =< tick
    /\ ~strayed =>
          /\ ran % 2 = 0 /\ ran >= tick - 2
          /\ reminders =< 1
          /\ reminders = 1 => round.locks =< ran + Offset
          /\ round.opens + Offset =< round.locks /\ round.locks =< ran + Offset => reminders = 1

LEMMA ReminderStep ==
    ASSUME ReminderInv, ReminderNext
    PROVE  ReminderInv'
<1> Offset \in Nat /\ Offset > 1
  BY AlarmsAssumption
<1>1. CASE RemindersRun
  <2>1. ran' = tick /\ ran < tick /\ UNCHANGED <<tick, round>>
        /\ strayed' = (strayed \/ ~OnTime(tick))
        /\ reminders' = reminders + (IF Due(tick) THEN 1 ELSE 0)
    BY <1>1 DEF RemindersRun
  <2>2. reminders' \in Nat /\ strayed' \in BOOLEAN
    BY <2>1 DEF ReminderInv
  <2>3. CASE ~strayed'
    <3>1. ~strayed /\ tick % 2 = 0 /\ ran % 2 = 0 /\ ran >= tick - 2
      BY <2>1, <2>3 DEF ReminderInv, OnTime
    <3>2. ran = tick - 2
      BY <2>1, <3>1 DEF ReminderInv
    <3>3. CASE Due(tick)
      <4>1. round.locks > ran + Offset /\ round.locks =< tick + Offset
        BY <3>2, <3>3 DEF Due, ReminderInv
      <4>2. reminders = 0
        BY <3>1, <3>2, <4>1 DEF ReminderInv
      <4> QED
        BY <2>1, <2>2, <3>1, <3>3, <4>1, <4>2 DEF ReminderInv
    <3>4. CASE ~Due(tick)
      <4>1. round.opens + Offset =< round.locks /\ round.locks =< tick + Offset
              => round.locks =< ran + Offset
        <5> SUFFICES ASSUME round.opens + Offset =< round.locks, round.locks =< tick + Offset,
                            round.locks > ran + Offset
                     PROVE  FALSE
          BY DEF ReminderInv
        <5>1. round.locks >= tick + Offset - 1 /\ round.opens =< tick /\ round.locks > tick
          BY <3>2 DEF ReminderInv
        <5>2. round.status \in Pickable
          BY <5>1 DEF ReminderInv, Pickable
        <5> QED
          BY <3>4, <5>1, <5>2 DEF Due, ReminderInv
      <4>2. round.locks =< ran + Offset => round.locks =< tick + Offset
        BY <2>1 DEF ReminderInv
      <4> QED
        BY <2>1, <2>2, <3>1, <3>4, <4>1, <4>2 DEF ReminderInv
    <3> QED
      BY <3>3, <3>4
  <2> QED
    BY <2>1, <2>2, <2>3 DEF ReminderInv
<1>2. CASE Relabels
  <2>1. /\ round' \in [status : {"scheduled", "open", "locked"}, opens : Nat, locks : Nat]
        /\ round'.opens = round.opens /\ round'.locks = round.locks
        /\ round'.status = "locked" => round.locks =< tick
    BY <1>2 DEF Relabels, ReminderInv, Pickable
  <2> QED
    BY <1>2, <2>1 DEF Relabels, ReminderInv
<1>3. CASE DeadlineMoves
  <2>1. PICK l \in (tick + 1)..LastTick : round' = [round EXCEPT !.locks = l]
    BY <1>3 DEF DeadlineMoves
  <2>2. l \in Nat
    BY <2>1, AlarmsAssumption DEF ReminderInv
  <2>3. round' \in [status : {"scheduled", "open", "locked"}, opens : Nat, locks : Nat]
        /\ round'.status # "locked"
    BY <1>3, <2>1, <2>2 DEF DeadlineMoves, ReminderInv, Pickable
  <2> QED
    BY <1>3, <2>3 DEF DeadlineMoves, ReminderInv
<1>4. CASE TimePasses
  <2>1. tick' = tick + 1 /\ strayed' = (strayed \/ (OnTime(tick) /\ ran < tick))
        /\ UNCHANGED <<round, ran, reminders>>
    BY <1>4 DEF TimePasses
  <2>2. ~strayed' => ~strayed /\ ran >= tick' - 2
    <3> SUFFICES ASSUME ~strayed' PROVE ran >= tick' - 2
      BY <2>1
    <3>1. ran % 2 = 0 /\ ran >= tick - 2 /\ ran =< tick /\ tick \in Nat /\ ran \in Int
      BY <2>1 DEF ReminderInv
    <3>2. tick % 2 = 0 => ran = tick
      <4>1. ~(OnTime(tick) /\ ran < tick)
        BY <2>1, Zenon
      <4> QED
        BY <3>1, <4>1 DEF OnTime
    <3>3. ran # tick - 2
      BY <3>1, <3>2
    <3> QED
      BY <2>1, <3>1, <3>3
  <2> QED
    BY <2>1, <2>2 DEF ReminderInv
<1> QED
  BY <1>1, <1>2, <1>3, <1>4 DEF ReminderNext

-----------------------------------------------------------------------------
AlarmsInv == TroubleInv /\ DailyInv /\ NoticeInv /\ ReminderInv

LEMMA AlarmsStart == AlarmsInit => AlarmsInv
<1> SUFFICES ASSUME AlarmsInit PROVE AlarmsInv
  OBVIOUS
<1>1. TroubleInv
  BY DEF AlarmsInit, TroubleInv, Troubles, LoudIsHeard
<1>2. DailyInv
  BY DEF AlarmsInit, DailyInv, Tellings, Kinds
<1>3. NoticeInv
  BY DEF AlarmsInit, NoticeInv
<1>4. ReminderInv
  <2>1. /\ tick = 0 /\ ran = -2 /\ reminders = 0 /\ strayed = FALSE
        /\ round.status = "scheduled" /\ round.opens \in Nat /\ round.locks \in Nat
        /\ round \in [status : {"scheduled", "open", "locked"}, opens : Nat, locks : Nat]
        /\ Offset \in Nat
    BY AlarmsAssumption DEF AlarmsInit
  <2>2. ran % 2 = 0 /\ ran \in Int /\ ran =< tick /\ ran >= tick - 2
    <3>1. -2 \in Int /\ (-2) % 2 = 0 /\ -2 =< 0 /\ -2 >= 0 - 2
      OBVIOUS
    <3> QED
      BY <2>1, <3>1
  <2>3. ~(round.opens + Offset =< round.locks /\ round.locks =< ran + Offset)
    BY <2>1
  <2>4. tick \in Nat /\ reminders \in Nat /\ reminders =< 1 /\ reminders # 1
    BY <2>1
  <2>5. strayed \in BOOLEAN /\ round.status # "locked"
    <3>1. strayed = FALSE /\ round.status = "scheduled"
      BY <2>1, Zenon
    <3> QED
      BY <3>1
  <2>6. round \in [status : {"scheduled", "open", "locked"}, opens : Nat, locks : Nat]
    BY <2>1
  <2> QED
    BY <2>2, <2>3, <2>4, <2>5, <2>6, Zenon DEF ReminderInv
<1> QED
  BY <1>1, <1>2, <1>3, <1>4 DEF AlarmsInv

LEMMA AlarmsStep == AlarmsInv /\ [AlarmsNext]_alarmVars => AlarmsInv'
<1> SUFFICES ASSUME AlarmsInv, [AlarmsNext]_alarmVars PROVE AlarmsInv'
  OBVIOUS
<1>1. UNCHANGED troubleVars => TroubleInv'
  BY DEF AlarmsInv, TroubleInv, LoudIsHeard, troubleVars
<1>2. UNCHANGED dailyVars => DailyInv'
  BY DEF AlarmsInv, DailyInv, dailyVars
<1>3. UNCHANGED noticeVars => NoticeInv'
  BY DEF AlarmsInv, NoticeInv, noticeVars
<1>4. UNCHANGED reminderVars => ReminderInv'
  BY DEF AlarmsInv, ReminderInv, reminderVars
<1>5. (TroubleNext => TroubleInv') /\ (DailyNext => DailyInv')
      /\ (NoticeNext => NoticeInv') /\ (ReminderNext => ReminderInv')
  BY TroubleStep, DailyStep, NoticeStep, ReminderStep DEF AlarmsInv
<1> QED
  BY <1>1, <1>2, <1>3, <1>4, <1>5 DEF AlarmsInv, AlarmsNext, alarmVars

(* Loud trouble is never drowned, and a daily alarm goes out at most once a *)
(* day and is silent only for its own (FotMobHealth, charge_durable_limit). *)
THEOREM NoTroubleIsDrowned == AlarmsSpec => []TroubleIsHeard
<1>1. AlarmsInv => TroubleIsHeard
  BY CountersAreHeard DEF AlarmsInv, TroubleInv, TroubleIsHeard
<1> QED
  BY <1>1, AlarmsStart, AlarmsStep, PTL DEF AlarmsSpec

LEMMA RemindedOnce ==
    ASSUME ReminderInv, ~strayed
    PROVE  /\ reminders =< 1
           /\ round.opens + Offset =< round.locks /\ round.locks =< tick + Offset - 2
              => reminders = 1
<1>1. /\ reminders \in Nat /\ tick \in Nat /\ ran \in Int /\ Offset \in Nat
      /\ round.opens \in Nat /\ round.locks \in Nat
  BY AlarmsAssumption DEF ReminderInv
<1> QED
  BY <1>1 DEF ReminderInv

(* A renamed member is told once, and one who owes a pick is reminded once, *)
(* on a clock nobody disturbed (send_rename_notices, run_pick_reminders).   *)
THEOREM TheyAreToldOnce == AlarmsSpec => []MembersAreToldOnce
<1>1. AlarmsInv => MembersAreToldOnce
  BY RemindedOnce DEF AlarmsInv, NoticeInv, MembersAreToldOnce
<1> QED
  BY <1>1, AlarmsStart, AlarmsStep, PTL DEF AlarmsSpec

-----------------------------------------------------------------------------
(* The policy of pushes                                                     *)
HourOrUnset == (0..(Hours - 1)) \cup {Unset}
PolicyTypeOK ==
    policy \in [global : BOOLEAN, muted : SUBSET Categories, start : HourOrUnset, end : HourOrUnset,
                league : {"in", "muted", "left"}, keys : BOOLEAN]
AllAgree == \A m \in Messages, t \in 0..(Hours - 1) : Agree(m, t)

(* Around the clock a difference below zero wraps once.                     *)
LEMMA AroundTheClock ==
    ASSUME NEW H \in Nat \ {0}, NEW a \in 0..(H - 1), NEW b \in 0..(H - 1)
    PROVE  (a - b) % H = IF b =< a THEN a - b ELSE a - b + H
  OBVIOUS

LEMMA QuietIsTheSpan ==
    ASSUME PolicyTypeOK, policy.start # Unset, policy.end # Unset, NEW t \in 0..(Hours - 1)
    PROVE  Quiet(t) <=> (t - policy.start) % Hours < (policy.end - policy.start) % Hours
<1>1. policy.start \in 0..(Hours - 1) /\ policy.end \in 0..(Hours - 1) /\ Hours \in Nat \ {0}
  BY PushesAssumption DEF PolicyTypeOK, HourOrUnset
<1>2. (t - policy.start) % Hours = IF policy.start =< t THEN t - policy.start ELSE t - policy.start + Hours
  BY <1>1, AroundTheClock
<1>3. (policy.end - policy.start) % Hours
      = IF policy.start =< policy.end THEN policy.end - policy.start
        ELSE policy.end - policy.start + Hours
  BY <1>1, AroundTheClock
<1> QED
  BY <1>1, <1>2, <1>3 DEF Quiet

LEMMA ThePolicyIsOne == PolicyTypeOK => AllAgree
<1> SUFFICES ASSUME PolicyTypeOK, NEW m \in Messages, NEW t \in 0..(Hours - 1)
             PROVE  Agree(m, t)
  BY DEF AllAgree
<1>1. Prepared(m, t) = Collected(m, t)
  BY DEF Prepared, Collected, Inboxable, Nothing, Subscribed
<1>2. Inboxable(m) => (Prepared(m, t).inbox <=> InBell(m))
  <2> SUFFICES ASSUME Inboxable(m) PROVE Prepared(m, t).inbox <=> InBell(m)
    OBVIOUS
  <2>1. CASE InBell(m)
    BY <2>1 DEF Prepared, Inboxable, InBell, CategoryMuted, Nothing
  <2>2. CASE ~InBell(m)
    BY <2>2 DEF Prepared, Inboxable, InBell, CategoryMuted, Nothing
  <2> QED
    BY <2>1, <2>2
<1> QED
  BY <1>1, <1>2, QuietIsTheSpan DEF Agree

LEMMA PolicyStep == PolicyTypeOK /\ [PushesNext]_pushVars => PolicyTypeOK'
<1> SUFFICES ASSUME PolicyTypeOK, PolicyNext PROVE PolicyTypeOK'
  BY DEF PolicyTypeOK, PushesNext, pushVars
<1>1. CASE PatchesPreferences
  BY <1>1 DEF PatchesPreferences, PolicyTypeOK, HourOrUnset
<1>2. CASE MutesLeague \/ LeavesLeague
  BY <1>2 DEF MutesLeague, LeavesLeague, PolicyTypeOK
<1>3. CASE ConfiguresPush
  BY <1>3 DEF ConfiguresPush, PolicyTypeOK
<1> QED
  BY <1>1, <1>2, <1>3 DEF PolicyNext

(* However a message is sent, it passes one policy, the bell shows what it  *)
(* shows and quiet hours are their span (_prepare_notification,             *)
(* prepare_collected_notifications, _visible_inbox_filters, _is_quiet).     *)
THEOREM ThereIsOnePolicy == PushesSpec => OnePolicy
<1>1. PushesInit => PolicyTypeOK
  BY DEF PushesInit, PolicyTypeOK, HourOrUnset
<1>2. AllAgree' => [policy' # policy => \A m \in Messages, t \in 0..(Hours - 1) : Agree(m, t)']_policy
  BY DEF AllAgree
<1> QED
  BY <1>1, <1>2, PolicyStep, ThePolicyIsOne, PTL DEF PushesSpec, OnePolicy

-----------------------------------------------------------------------------
(* The rows of a device.  No count, in the table or in a sender's hands, is *)
(* above the failures there have been; and the count of a row that is still *)
(* sent to, unless a stale reading went over it, is not above the failures  *)
(* in a row.                                                                *)
RowRecords == [active : BOOLEAN, fails : Int]
SomeRows(V) == UNION {[S -> V] : S \in SUBSET Rows}
DeliveryTypeOK ==
    /\ row \in [Rows -> RowRecords]
    /\ tab \in [Tabs -> [at : {"idle", "subscribe", "unsubscribe"}, seen : RowRecords, of : SUBSET Rows]]
    /\ sender \in [Senders -> [how : Ways \cup {"idle"}, seen : SomeRows(RowRecords),
                               outcome : SomeRows(Outcomes)]]
    /\ streak \in [Rows -> Nat] /\ refusals \in [Rows -> Nat] /\ overtaken \subseteq Rows
CountsInv ==
    /\ \A r \in Rows : row[r].fails =< refusals[r]
    /\ \A s \in Senders : \A r \in DOMAIN sender[s].seen : sender[s].seen[r].fails =< refusals[r]
StreakInv == \A r \in Rows \ overtaken : row[r].active => row[r].fails =< streak[r]
DeliveryInv == DeliveryTypeOK /\ CountsInv /\ StreakInv

LEMMA SomeRowsOf ==
    ASSUME NEW V, NEW f \in SomeRows(V)
    PROVE  DOMAIN f \subseteq Rows /\ \A r \in DOMAIN f : f[r] \in V
  BY DEF SomeRows

LEMMA NoRows == ASSUME NEW V PROVE <<>> \in SomeRows(V) /\ DOMAIN <<>> = {}
<1>1. DOMAIN <<>> = {} /\ <<>> = [i \in {} |-> <<>>[i]]
  OBVIOUS
<1>2. <<>> \in [{} -> V]
  BY <1>1
<1> QED
  BY <1>1, <1>2 DEF SomeRows

LEMMA NobodySends ==
    /\ NoSend \in [how : Ways \cup {"idle"}, seen : SomeRows(RowRecords), outcome : SomeRows(Outcomes)]
    /\ DOMAIN NoSend.seen = {}
  BY NoRows DEF NoSend

LEMMA ARow ==
    ASSUME NEW a \in BOOLEAN, NEW n \in Int
    PROVE  [active |-> a, fails |-> n] \in RowRecords
  BY DEF RowRecords

LEMMA TheRows == NewRow \in RowRecords /\ NoRow \in RowRecords
<1>1. TRUE \in BOOLEAN /\ FALSE \in BOOLEAN /\ 0 \in Int /\ -1 \in Int
  OBVIOUS
<1>2. [active |-> TRUE, fails |-> 0] \in RowRecords /\ [active |-> FALSE, fails |-> -1] \in RowRecords
  BY <1>1, ARow, Zenon
<1> QED
  BY <1>2, Zenon DEF NewRow, NoRow

LEMMA FlushedIsARow ==
    ASSUME DeliveryTypeOK, NEW r \in Rows, NEW seen \in RowRecords, NEW new \in RowRecords
    PROVE  Flushed(r, seen, new) \in RowRecords
  BY DEF DeliveryTypeOK, RowRecords, Flushed

(* What a recorded send makes of a row.                                     *)
LEMMA CountedIsARow ==
    ASSUME NEW old \in RowRecords, NEW o \in {"sent", "failed"}
    PROVE  /\ Counted(old, o) \in RowRecords
           /\ o = "sent" => Counted(old, o).active = old.active /\ Counted(old, o).fails = 0
           /\ o = "failed" => /\ Counted(old, o).active <=> (old.active /\ old.fails + 1 < Threshold)
                              /\ Counted(old, o).fails = old.fails + 1
<1>1. CASE o = "sent"
  BY <1>1 DEF Counted, RowRecords
<1>2. CASE o = "failed"
  <2>1. Counted(old, o) = [active |-> old.active /\ old.fails + 1 < Threshold, fails |-> old.fails + 1]
    BY <1>2 DEF Counted
  <2>2. (old.active /\ old.fails + 1 < Threshold) \in BOOLEAN /\ old.fails + 1 \in Int
    BY DEF RowRecords
  <2>3. Counted(old, o) \in RowRecords
    BY <2>1, <2>2, ARow, Zenon
  <2>4. Counted(old, o).active <=> (old.active /\ old.fails + 1 < Threshold)
    BY <1>2 DEF Counted
  <2>5. Counted(old, o).fails = old.fails + 1
    BY <1>2 DEF Counted
  <2> QED
    BY <1>2, <2>3, <2>4, <2>5
<1> QED
  BY <1>1, <1>2

(* A send that is recorded, row by row.                                     *)
Held(s, r) == IF sender[s].how = "prepared" THEN row[r] ELSE sender[s].seen[r]
Told(s) == {r \in DOMAIN sender[s].seen : sender[s].outcome[r] \in {"sent", "failed"}}

LEMMA RecordsRowByRow ==
    ASSUME DeliveryInv, NEW s \in Senders, Records(s)
    PROVE  /\ Told(s) \subseteq Rows
           /\ \A r \in Rows : r \notin Told(s) =>
                 /\ row'[r] = row[r] /\ streak'[r] = streak[r] /\ refusals'[r] = refusals[r]
                 /\ r \in overtaken' <=> r \in overtaken
           /\ \A r \in Told(s) :
                 /\ Held(s, r) \in RowRecords /\ Held(s, r).fails =< refusals[r]
                 /\ row'[r] = Flushed(r, Held(s, r), Counted(Held(s, r), sender[s].outcome[r]))
                 /\ sender[s].outcome[r] = "sent" => streak'[r] = 0 /\ refusals'[r] = refusals[r]
                 /\ sender[s].outcome[r] = "failed" =>
                       /\ streak'[r] = streak[r] + 1 /\ refusals'[r] = refusals[r] + 1
                       /\ r \in overtaken => r \in overtaken'
                 /\ row[r] # Held(s, r) => r \in overtaken'
<1>1. sender[s].seen \in SomeRows(RowRecords)
  BY DEF DeliveryInv, DeliveryTypeOK
<1>2. Told(s) \subseteq DOMAIN sender[s].seen /\ DOMAIN sender[s].seen \subseteq Rows
  BY <1>1, SomeRowsOf DEF Told
<1>3. \A r \in Told(s) : Held(s, r) \in RowRecords /\ Held(s, r).fails =< refusals[r]
  <2>1. \A r \in Told(s) : row[r] \in RowRecords /\ sender[s].seen[r] \in RowRecords
    BY <1>1, <1>2, SomeRowsOf DEF DeliveryInv, DeliveryTypeOK
  <2> QED
    BY <1>2, <2>1 DEF Held, DeliveryInv, CountsInv
<1>4. /\ row' = [r \in Rows |-> IF r \in Told(s)
                 THEN Flushed(r, Held(s, r), Counted(Held(s, r), sender[s].outcome[r])) ELSE row[r]]
      /\ streak' = [r \in Rows |-> IF r \notin Told(s) THEN streak[r]
                    ELSE IF sender[s].outcome[r] = "sent" THEN 0 ELSE streak[r] + 1]
      /\ refusals' = [r \in Rows |-> IF r \in Told(s) /\ sender[s].outcome[r] = "failed"
                      THEN refusals[r] + 1 ELSE refusals[r]]
      /\ overtaken' = (overtaken \ {r \in Told(s) : sender[s].outcome[r] = "sent"})
                      \cup {r \in Told(s) : row[r] # Held(s, r)}
  BY DEF Records, Held, Told
<1> QED
  BY <1>2, <1>3, <1>4

LEMMA RecordsStep ==
    ASSUME DeliveryInv, NEW s \in Senders, Records(s)
    PROVE  DeliveryInv'
<1>1. sender' = [sender EXCEPT ![s] = NoSend] /\ UNCHANGED tab /\ Threshold \in Nat
  BY PushesAssumption DEF Records
<1> DEFINE o(r) == sender[s].outcome[r]
           new(r) == Counted(Held(s, r), o(r))
<1>2. \A r \in Told(s) : o(r) \in {"sent", "failed"}
  BY DEF Told
<1>3. \A r \in Told(s) : Held(s, r) \in RowRecords /\ new(r) \in RowRecords
  BY <1>2, RecordsRowByRow, CountedIsARow
<1>4. DeliveryTypeOK'
  <2>1. NoSend \in [how : Ways \cup {"idle"}, seen : SomeRows(RowRecords), outcome : SomeRows(Outcomes)]
    BY NobodySends
  <2>2. sender' \in [Senders -> [how : Ways \cup {"idle"}, seen : SomeRows(RowRecords),
                                outcome : SomeRows(Outcomes)]]
    BY <1>1, <2>1 DEF DeliveryInv, DeliveryTypeOK
  <2>3. \A r \in Rows : row'[r] \in RowRecords
    BY <1>3, RecordsRowByRow, FlushedIsARow DEF DeliveryInv, DeliveryTypeOK
  <2>4. \A r \in Rows : streak'[r] \in Nat /\ refusals'[r] \in Nat
    BY <1>2, RecordsRowByRow DEF DeliveryInv, DeliveryTypeOK
  <2>5. /\ row' = [r \in Rows |-> row'[r]] /\ streak' = [r \in Rows |-> streak'[r]]
        /\ refusals' = [r \in Rows |-> refusals'[r]] /\ overtaken' \subseteq Rows
    <3>1. Told(s) \subseteq Rows /\ overtaken \subseteq Rows
      BY RecordsRowByRow DEF DeliveryInv, DeliveryTypeOK
    <3>2. overtaken' \subseteq overtaken \cup Told(s)
      BY DEF Records, Told
    <3> QED
      BY <3>1, <3>2 DEF Records
  <2> QED
    BY <1>1, <2>2, <2>3, <2>4, <2>5 DEF DeliveryInv, DeliveryTypeOK
<1>5. CountsInv'
  <2>1. \A r \in Rows : refusals[r] \in Nat /\ refusals'[r] \in Nat /\ refusals[r] =< refusals'[r]
    BY <1>2, RecordsRowByRow DEF DeliveryInv, DeliveryTypeOK
  <2>2. ASSUME NEW r \in Rows PROVE row'[r].fails =< refusals'[r]
    <3>1. CASE r \notin Told(s)
      BY <3>1, RecordsRowByRow DEF DeliveryInv, CountsInv
    <3>2. CASE r \in Told(s)
      <4>1. row'[r].fails \in {new(r).fails, row[r].fails}
        <5>1. row'[r] = Flushed(r, Held(s, r), new(r))
          BY <3>2, RecordsRowByRow
        <5> HIDE DEF new
        <5> QED
          BY <5>1 DEF Flushed
      <4>2. new(r).fails =< refusals'[r]
        <5>1. /\ Held(s, r) \in RowRecords /\ Held(s, r).fails \in Int
              /\ Held(s, r).fails =< refusals[r]
          BY <3>2, RecordsRowByRow DEF RowRecords
        <5>2. CASE o(r) = "sent"
          <6>1. new(r).fails = 0
            BY <5>1, <5>2, CountedIsARow
          <6> QED
            BY <2>1, <6>1
        <5>3. CASE o(r) = "failed"
          <6>1. new(r).fails = Held(s, r).fails + 1
            BY <5>1, <5>3, CountedIsARow
          <6>2. refusals'[r] = refusals[r] + 1
            BY <3>2, <5>3, RecordsRowByRow
          <6> QED
            BY <2>1, <5>1, <6>1, <6>2
        <5> QED
          BY <1>2, <3>2, <5>2, <5>3
      <4>3. row[r].fails =< refusals'[r]
        <5>1. row[r].fails \in Int /\ row[r].fails =< refusals[r]
          BY DEF DeliveryInv, DeliveryTypeOK, CountsInv, RowRecords
        <5> QED
          BY <2>1, <5>1
      <4> QED
        BY <4>1, <4>2, <4>3
    <3> QED
      BY <3>1, <3>2
  <2>3. ASSUME NEW i \in Senders, NEW r \in DOMAIN sender'[i].seen
        PROVE  sender'[i].seen[r].fails =< refusals'[r]
    <3>1. i # s /\ sender'[i] = sender[i]
      BY <1>1, <2>3 DEF NoSend, DeliveryInv, DeliveryTypeOK
    <3>2. sender[i].seen \in SomeRows(RowRecords)
      BY DEF DeliveryInv, DeliveryTypeOK
    <3>3. r \in Rows /\ sender[i].seen[r].fails \in Int
      <4>1. r \in DOMAIN sender[i].seen
        BY <3>1
      <4>2. r \in Rows /\ sender[i].seen[r] \in RowRecords
        BY <3>2, <4>1, SomeRowsOf
      <4> QED
        BY <4>2 DEF RowRecords
    <3>4. sender[i].seen[r].fails =< refusals[r]
      BY <3>1 DEF DeliveryInv, CountsInv
    <3> QED
      BY <2>1, <3>1, <3>3, <3>4
  <2> QED
    BY <2>2, <2>3 DEF CountsInv
<1>6. StreakInv'
  <2> SUFFICES ASSUME NEW r \in Rows, r \notin overtaken', row'[r].active
               PROVE  row'[r].fails =< streak'[r]
    BY DEF StreakInv
  <2>1. CASE r \notin Told(s)
    BY <2>1, RecordsRowByRow DEF DeliveryInv, StreakInv
  <2>2. CASE r \in Told(s) /\ o(r) = "sent"
    <3>1. row[r] = Held(s, r) /\ streak'[r] = 0 /\ row'[r] = Flushed(r, row[r], new(r))
      BY <2>2, RecordsRowByRow
    <3>2. new(r).fails = 0
      BY <1>3, <2>2, CountedIsARow
    <3>3. row'[r].fails = 0
      <4> HIDE DEF new
      <4> QED
        BY <3>1, <3>2 DEF Flushed
    <3> QED
      BY <3>1, <3>3
  <2>3. CASE r \in Told(s) /\ o(r) = "failed"
    <3>1. row[r] = Held(s, r) /\ r \notin overtaken /\ streak'[r] = streak[r] + 1
      BY <2>3, RecordsRowByRow
    <3>2. /\ row[r].active \in BOOLEAN /\ row[r].fails \in Int /\ streak[r] \in Nat
          /\ new(r).active <=> (row[r].active /\ row[r].fails + 1 < Threshold)
          /\ new(r).fails = row[r].fails + 1
      <4>1. row[r] \in RowRecords /\ streak[r] \in Nat
        BY <1>3, <2>3, <3>1 DEF DeliveryInv, DeliveryTypeOK
      <4>2. /\ new(r).active <=> (row[r].active /\ row[r].fails + 1 < Threshold)
            /\ new(r).fails = row[r].fails + 1
        BY <2>3, <3>1, <4>1, CountedIsARow
      <4> QED
        BY <4>1, <4>2 DEF RowRecords
    <3>3. row'[r] = Flushed(r, row[r], new(r))
      BY <2>3, <3>1, RecordsRowByRow
    <3>4. row[r].active /\ row'[r].fails = row[r].fails + 1
      <4>1. row'[r].active => row[r].active
        BY <3>2, <3>3 DEF Flushed
      <4>2. row'[r].fails = row[r].fails + 1
        BY <3>2, <3>3 DEF Flushed
      <4> QED
        BY <4>1, <4>2
    <3> QED
      BY <3>1, <3>2, <3>4 DEF DeliveryInv, StreakInv
  <2> QED
    BY <1>2, <2>1, <2>2, <2>3
<1> QED
  BY <1>4, <1>5, <1>6 DEF DeliveryInv

LEMMA UpdatesStep ==
    ASSUME DeliveryInv, NEW t \in Tabs, Updates(t)
    PROVE  DeliveryInv'
<1> DEFINE seen == tab[t].seen
           new == IF tab[t].at = "subscribe" THEN NewRow ELSE [seen EXCEPT !.active = FALSE]
<1>1. PICK r \in tab[t].of :
        /\ row' = [row EXCEPT ![r] = Flushed(r, seen, new)]
        /\ overtaken' = IF row[r] # seen THEN overtaken \cup {r} ELSE overtaken \ {r}
        /\ streak' = IF tab[t].at = "subscribe" THEN [streak EXCEPT ![r] = 0] ELSE streak
  BY DEF Updates
<1>2. r \in Rows /\ seen \in RowRecords /\ NoTab \in [at : {"idle", "subscribe", "unsubscribe"},
                                                       seen : RowRecords, of : SUBSET Rows]
  BY DEF DeliveryInv, DeliveryTypeOK, NoTab, NoRow, RowRecords
<1>3. /\ new \in RowRecords /\ Flushed(r, seen, new) \in RowRecords
      /\ tab' = [tab EXCEPT ![t] = NoTab] /\ UNCHANGED <<sender, refusals>>
  <2>1. new \in RowRecords
    <3>1. NewRow \in RowRecords
      BY TheRows
    <3>2. [seen EXCEPT !.active = FALSE] \in RowRecords
      BY <1>2 DEF RowRecords
    <3> QED
      BY <3>1, <3>2
  <2> QED
    BY <1>2, <2>1, FlushedIsARow DEF Updates, DeliveryInv
<1>4. DeliveryTypeOK'
  <2>1. row' \in [Rows -> RowRecords] /\ overtaken' \subseteq Rows /\ streak' \in [Rows -> Nat]
    BY <1>1, <1>2, <1>3 DEF DeliveryInv, DeliveryTypeOK
  <2>2. tab' \in [Tabs -> [at : {"idle", "subscribe", "unsubscribe"}, seen : RowRecords, of : SUBSET Rows]]
    BY <1>2, <1>3 DEF DeliveryInv, DeliveryTypeOK
  <2> QED
    BY <1>3, <2>1, <2>2 DEF DeliveryInv, DeliveryTypeOK
<1>5. /\ row'[r] = Flushed(r, seen, new) /\ \A q \in Rows : q # r => row'[q] = row[q]
      /\ \A q \in Rows : refusals[q] \in Nat
  BY <1>1, <1>2 DEF DeliveryInv, DeliveryTypeOK
<1>6. row'[r].fails \in {0, row[r].fails}
  <2>1. CASE tab[t].at = "subscribe"
    BY <1>5, <2>1 DEF Flushed, NewRow
  <2>2. CASE tab[t].at # "subscribe"
    BY <1>2, <1>5, <2>2 DEF Flushed, RowRecords
  <2> QED
    BY <2>1, <2>2
<1>7. CountsInv'
  BY <1>2, <1>3, <1>5, <1>6 DEF DeliveryInv, CountsInv
<1>8. StreakInv'
  <2> SUFFICES ASSUME NEW q \in Rows, q \notin overtaken', row'[q].active
               PROVE  row'[q].fails =< streak'[q]
    BY DEF StreakInv
  <2>1. CASE q # r
    <3>1. q \notin overtaken /\ row'[q] = row[q] /\ streak'[q] = streak[q]
      BY <1>1, <1>2, <1>5, <2>1 DEF DeliveryInv, DeliveryTypeOK
    <3> QED
      BY <3>1 DEF DeliveryInv, StreakInv
  <2>2. CASE q = r
    <3>1. row[r] = seen
      BY <1>1, <2>2
    <3>2. CASE tab[t].at = "subscribe"
      <4>1. streak'[r] = 0
        BY <1>1, <1>2, <3>2 DEF DeliveryInv, DeliveryTypeOK
      <4>2. row'[r].fails = 0
        BY <1>5, <3>1, <3>2 DEF Flushed, NewRow
      <4> QED
        BY <2>2, <4>1, <4>2
    <3>3. CASE tab[t].at # "subscribe"
      <4>1. new.active = FALSE
        BY <1>2, <3>3 DEF RowRecords
      <4>2. ~row'[r].active
        <5>1. row'[r].active = IF new.active # seen.active THEN new.active ELSE row[r].active
          BY <1>5 DEF Flushed
        <5>2. row'[r].active = FALSE
          <6> HIDE DEF new, seen
          <6> QED
            BY <3>1, <4>1, <5>1
        <5> QED
          BY <5>2
      <4> QED
        BY <2>2, <4>2
    <3> QED
      BY <3>2, <3>3
  <2> QED
    BY <2>1, <2>2
<1> QED
  BY <1>4, <1>7, <1>8 DEF DeliveryInv

LEMMA DeliveryStep ==
    ASSUME DeliveryInv, DeliveryNext
    PROVE  DeliveryInv'
<1>1. ASSUME NEW t \in Tabs, NEW what \in {"subscribe", "unsubscribe"}, LooksUp(t, what)
      PROVE  DeliveryInv'
  <2>1. /\ tab' = [tab EXCEPT ![t] = [at |-> what, of |-> There,
                        seen |-> IF There = {} THEN NoRow ELSE row[CHOOSE r \in There : TRUE]]]
        /\ UNCHANGED <<row, sender, streak, refusals, overtaken>>
    BY <1>1 DEF LooksUp
  <2>2. There \subseteq Rows
        /\ (IF There = {} THEN NoRow ELSE row[CHOOSE r \in There : TRUE]) \in RowRecords
    BY DEF There, NoRow, RowRecords, DeliveryInv, DeliveryTypeOK
  <2>3. tab' \in [Tabs -> [at : {"idle", "subscribe", "unsubscribe"}, seen : RowRecords, of : SUBSET Rows]]
    BY <2>1, <2>2 DEF DeliveryInv, DeliveryTypeOK
  <2> QED
    BY <2>1, <2>3 DEF DeliveryInv, DeliveryTypeOK, CountsInv, StreakInv
<1>2. ASSUME NEW t \in Tabs, Inserts(t) PROVE DeliveryInv'
  <2>1. PICK r \in Rows : row' = [row EXCEPT ![r] = NewRow]
    BY <1>2 DEF Inserts
  <2>2. tab' = [tab EXCEPT ![t] = NoTab] /\ UNCHANGED <<sender, streak, refusals, overtaken>>
    BY <1>2 DEF Inserts
  <2>3. NewRow \in RowRecords /\ NewRow.fails = 0
        /\ NoTab \in [at : {"idle", "subscribe", "unsubscribe"}, seen : RowRecords, of : SUBSET Rows]
    BY DEF NewRow, NoTab, NoRow, RowRecords
  <2>4. DeliveryTypeOK'
    BY <2>1, <2>2, <2>3 DEF DeliveryInv, DeliveryTypeOK
  <2>5. \A q \in Rows : row'[q] = (IF q = r THEN NewRow ELSE row[q])
                        /\ refusals[q] \in Nat /\ streak[q] \in Nat
    BY <2>1 DEF DeliveryInv, DeliveryTypeOK
  <2> QED
    BY <2>2, <2>3, <2>4, <2>5 DEF DeliveryInv, CountsInv, StreakInv
<1>3. ASSUME NEW s \in Senders, NEW how \in Ways, Reads(s, how) PROVE DeliveryInv'
  <2> DEFINE sent == [how |-> how, seen |-> [r \in Active |-> row[r]], outcome |-> <<>>]
  <2>1. sender' = [sender EXCEPT ![s] = sent] /\ UNCHANGED <<row, tab, streak, refusals, overtaken>>
    BY <1>3 DEF Reads
  <2>2. Active \subseteq Rows
    BY DEF Active, There
  <2>3. [r \in Active |-> row[r]] \in SomeRows(RowRecords) /\ <<>> \in SomeRows(Outcomes)
    <3>1. [r \in Active |-> row[r]] \in [Active -> RowRecords]
      BY <2>2 DEF DeliveryInv, DeliveryTypeOK
    <3>2. [r \in Active |-> row[r]] \in SomeRows(RowRecords)
      BY <2>2, <3>1 DEF SomeRows
    <3> QED
      BY <3>2, NoRows
  <2>4. DeliveryTypeOK'
    <3>1. sent \in [how : Ways \cup {"idle"}, seen : SomeRows(RowRecords), outcome : SomeRows(Outcomes)]
      BY <2>2, <2>3
    <3> QED
      BY <2>1, <3>1 DEF DeliveryInv, DeliveryTypeOK
  <2>5. \A i \in Senders : \A r \in DOMAIN sender'[i].seen : sender'[i].seen[r].fails =< refusals[r]
    <3> SUFFICES ASSUME NEW i \in Senders, NEW r \in DOMAIN sender'[i].seen
                 PROVE  sender'[i].seen[r].fails =< refusals[r]
      OBVIOUS
    <3>1. CASE i = s
      <4>1. sender'[i].seen = [q \in Active |-> row[q]]
        BY <2>1, <2>2, <3>1 DEF DeliveryInv, DeliveryTypeOK
      <4> QED
        BY <2>2, <4>1 DEF DeliveryInv, CountsInv
    <3>2. CASE i # s
      BY <2>1, <3>2 DEF DeliveryInv, DeliveryTypeOK, CountsInv
    <3> QED
      BY <3>1, <3>2
  <2> QED
    BY <2>1, <2>4, <2>5 DEF DeliveryInv, CountsInv, StreakInv
<1>4. ASSUME NEW s \in Senders, Delivers(s) PROVE DeliveryInv'
  <2>1. PICK o \in [DOMAIN sender[s].seen -> Outcomes] : sender' = [sender EXCEPT ![s].outcome = o]
    BY <1>4 DEF Delivers
  <2>2. UNCHANGED <<row, tab, streak, refusals, overtaken>>
    BY <1>4 DEF Delivers
  <2>3. o \in SomeRows(Outcomes)
    <3>1. sender[s].seen \in SomeRows(RowRecords)
      BY DEF DeliveryInv, DeliveryTypeOK
    <3>2. DOMAIN sender[s].seen \subseteq Rows
      BY <3>1, SomeRowsOf
    <3> QED
      BY <3>2 DEF SomeRows
  <2>4. DeliveryTypeOK'
    BY <2>1, <2>2, <2>3 DEF DeliveryInv, DeliveryTypeOK
  <2>5. \A i \in Senders : sender'[i].seen = sender[i].seen
    BY <2>1 DEF DeliveryInv, DeliveryTypeOK
  <2> QED
    BY <2>2, <2>4, <2>5 DEF DeliveryInv, CountsInv, StreakInv
<1>5. ASSUME NEW s \in Senders, Lost(s) PROVE DeliveryInv'
  <2>1. sender' = [sender EXCEPT ![s] = NoSend] /\ UNCHANGED <<row, tab, streak, refusals, overtaken>>
    BY <1>5 DEF Lost
  <2>2. NoSend \in [how : Ways \cup {"idle"}, seen : SomeRows(RowRecords), outcome : SomeRows(Outcomes)]
        /\ DOMAIN NoSend.seen = {}
    BY NobodySends
  <2>3. DeliveryTypeOK'
    BY <2>1, <2>2 DEF DeliveryInv, DeliveryTypeOK
  <2>4. \A i \in Senders : \A r \in DOMAIN sender'[i].seen : sender'[i] = sender[i]
    BY <2>1, <2>2 DEF DeliveryInv, DeliveryTypeOK
  <2> QED
    BY <2>1, <2>3, <2>4 DEF DeliveryInv, CountsInv, StreakInv
<1> QED
  BY <1>1, <1>2, <1>3, <1>4, <1>5, UpdatesStep, RecordsStep DEF DeliveryNext

(* One step switches a row off: the member's own unsubscribe, or a send     *)
(* whose failure is the last of enough.                                     *)
LEMMA SwitchedOffForAReason ==
    ASSUME DeliveryInv, DeliveryNext, NEW r \in Active, ~row'[r].active
    PROVE  \/ \E t \in Tabs : Unsubscribes(t)
           \/ refusals'[r] >= Threshold /\ (streak'[r] >= Threshold \/ r \in overtaken')
<1>1. /\ r \in Rows /\ row[r].active = TRUE /\ row[r] \in RowRecords
      /\ streak[r] \in Nat /\ refusals[r] \in Nat /\ Threshold \in Nat
  BY PushesAssumption DEF Active, There, DeliveryInv, DeliveryTypeOK, RowRecords
<1>2. row'[r] # row[r]
  BY <1>1
<1>3. ASSUME NEW t \in Tabs, Inserts(t) PROVE FALSE
  <2>1. PICK q \in Rows : row' = [row EXCEPT ![q] = NewRow]
    BY <1>3 DEF Inserts
  <2> QED
    BY <1>1, <2>1 DEF NewRow, DeliveryInv, DeliveryTypeOK
<1>4. ASSUME NEW t \in Tabs, Updates(t) PROVE Unsubscribes(t)
  <2>1. tab[t].at \in {"subscribe", "unsubscribe"} /\ tab'[t] = NoTab
    BY <1>4 DEF Updates, DeliveryInv, DeliveryTypeOK
  <2>2. tab[t].at # "subscribe"
    <3> SUFFICES ASSUME tab[t].at = "subscribe" PROVE FALSE
      OBVIOUS
    <3>1. PICK q \in tab[t].of : row' = [row EXCEPT ![q] = Flushed(q, tab[t].seen, NewRow)]
      BY <1>4 DEF Updates
    <3>2. row'[r] = Flushed(r, tab[t].seen, NewRow)
      BY <1>1, <1>2, <3>1 DEF DeliveryInv, DeliveryTypeOK
    <3>3. row'[r].active = IF TRUE # tab[t].seen.active THEN TRUE ELSE row[r].active
      BY <3>2 DEF Flushed, NewRow
    <3>4. row'[r].active = TRUE
      BY <1>1, <3>3
    <3> QED
      BY <3>4
  <2> QED
    BY <2>1, <2>2 DEF Unsubscribes, NoTab
<1>5. ASSUME NEW s \in Senders, Records(s)
      PROVE  refusals'[r] >= Threshold /\ (streak'[r] >= Threshold \/ r \in overtaken')
  <2> DEFINE held == Held(s, r)
             new == Counted(held, sender[s].outcome[r])
  <2>1. r \in Told(s) /\ sender[s].outcome[r] \in {"sent", "failed"}
    BY <1>1, <1>2, <1>5, RecordsRowByRow DEF Told
  <2>2. /\ held \in RowRecords /\ held.fails =< refusals[r] /\ row'[r] = Flushed(r, held, new)
        /\ held.active \in BOOLEAN /\ held.fails \in Int
    BY <1>5, <2>1, RecordsRowByRow DEF RowRecords
  <2>3. new.active # held.active /\ new.active = FALSE
    BY <1>1, <2>2 DEF Flushed
  <2>4. sender[s].outcome[r] = "failed" /\ ~(held.fails + 1 < Threshold)
    <3>1. sender[s].outcome[r] # "sent"
      <4>1. sender[s].outcome[r] = "sent" => new.active = held.active
        BY <2>2, CountedIsARow
      <4> QED
        BY <2>3, <4>1
    <3>2. new.active <=> (held.active /\ held.fails + 1 < Threshold)
      BY <2>1, <2>2, <3>1, CountedIsARow
    <3>3. held.active = TRUE
      BY <2>2, <2>3
    <3>4. ~(held.fails + 1 < Threshold)
      <4> HIDE DEF new, held
      <4> QED
        BY <2>3, <3>2, <3>3
    <3> QED
      BY <2>1, <3>1, <3>4
  <2>5. refusals'[r] = refusals[r] + 1 /\ streak'[r] = streak[r] + 1
        /\ (r \notin overtaken' => r \notin overtaken /\ row[r] = held)
    BY <1>5, <2>1, <2>4, RecordsRowByRow
  <2>6. refusals'[r] >= Threshold
    BY <1>1, <2>2, <2>4, <2>5
  <2>7. ASSUME r \notin overtaken' PROVE streak'[r] >= Threshold
    <3>1. held.fails =< streak[r]
      BY <1>1, <2>5, <2>7 DEF DeliveryInv, StreakInv
    <3> QED
      BY <1>1, <2>2, <2>4, <2>5, <3>1
  <2> QED
    BY <2>6, <2>7
<1>6. ASSUME UNCHANGED row PROVE FALSE
  BY <1>2, <1>6
<1> QED
  BY <1>3, <1>4, <1>5, <1>6 DEF DeliveryNext, LooksUp, Reads, Delivers, Lost

(* A device stops being sent to because its member unsubscribed it or       *)
(* because enough sends to it failed one after the other                    *)
(* (deliver_prepared, _send_to_rows, record_push_outcomes, /push/subscribe).*)
THEOREM DisabledOnlyForAReason == PushesSpec => DisabledIsEarned
<1>1. PushesInit => DeliveryInv
  <2> SUFFICES ASSUME PushesInit PROVE DeliveryInv
    OBVIOUS
  <2>1. /\ NoRow \in RowRecords
        /\ NoTab \in [at : {"idle", "subscribe", "unsubscribe"}, seen : RowRecords, of : SUBSET Rows]
        /\ NoSend \in [how : Ways \cup {"idle"}, seen : SomeRows(RowRecords), outcome : SomeRows(Outcomes)]
        /\ DOMAIN NoSend.seen = {} /\ NoRow.fails = -1 /\ NoRow.active = FALSE
    <3>1. NoRow \in RowRecords /\ NoRow.fails = -1 /\ NoRow.active = FALSE
      BY TheRows DEF NoRow
    <3> QED
      BY <3>1, NobodySends DEF NoTab
  <2>2. /\ row = [r \in Rows |-> NoRow] /\ tab = [t \in Tabs |-> NoTab]
        /\ sender = [s \in Senders |-> NoSend]
        /\ streak = [r \in Rows |-> 0] /\ refusals = [r \in Rows |-> 0] /\ overtaken = {}
    BY DEF PushesInit
  <2>3. DeliveryTypeOK
    BY <2>1, <2>2 DEF DeliveryTypeOK
  <2> QED
    BY <2>1, <2>2, <2>3 DEF DeliveryInv, CountsInv, StreakInv
<1>2. DeliveryInv /\ [PushesNext]_pushVars => DeliveryInv'
  <2>1. UNCHANGED deliveryVars => (DeliveryInv => DeliveryInv')
    BY DEF deliveryVars, DeliveryInv, DeliveryTypeOK, CountsInv, StreakInv
  <2> QED
    BY <2>1, DeliveryStep DEF PushesNext, pushVars
<1>3. DeliveryInv /\ [PushesNext]_pushVars =>
        [\A r \in Active \ {a \in Rows : row'[a].active} :
            \/ \E t \in Tabs : Unsubscribes(t)
            \/ refusals'[r] >= Threshold /\ (streak'[r] >= Threshold \/ r \in overtaken')]_deliveryVars
  <2> SUFFICES ASSUME DeliveryInv, DeliveryNext, NEW r \in Active \ {a \in Rows : row'[a].active}
               PROVE  \/ \E t \in Tabs : Unsubscribes(t)
                      \/ refusals'[r] >= Threshold /\ (streak'[r] >= Threshold \/ r \in overtaken')
    BY DEF PushesNext, pushVars
  <2>1. r \in Active /\ ~row'[r].active
    BY DEF Active, There
  <2> QED
    BY <2>1, SwitchedOffForAReason
<1> QED
  BY <1>1, <1>2, <1>3, PTL DEF PushesSpec, DisabledIsEarned

-----------------------------------------------------------------------------
(* Types, the stages of a job, and the two settlements everybody quotes.    *)
Statuses == {"pending", "won", "lost", "void"}
Settlements == [void : BOOLEAN, markets : SUBSET Markets, won : SUBSET Selections,
                absent : SUBSET Selections]
Lines == UNION {[S -> Statuses] : S \in SUBSET Picks}
JobRecords == [at : {"idle", "asked", "read", "counted", "announce", "tell"}, rounds : SUBSET Rounds,
               rows : SUBSET Picks, answer : [Games -> Settlements], line : Lines]
ResultsTypeOK ==
    /\ shown \in [Games -> Settlements]
    /\ status \in [Picks -> Statuses] /\ told \in [Picks -> Statuses]
    /\ settled \subseteq Rounds /\ job \in [Jobs -> JobRecords]
    /\ DOMAIN typed = Games /\ corrected \in [Picks -> Statuses]

(* What a job in hand has: no line before it announces, rounds to flip that *)
(* are decided with its own rows, announced rounds that are settled, and    *)
(* lines that were true when they were read.                                *)
JobIsWellFormed(j) ==
    /\ job[j].at \in {"idle", "asked", "read", "counted"} => DOMAIN job[j].line = {}
    /\ job[j].at = "announce" /\ j # "correction" => DOMAIN job[j].line = {}
    /\ job[j].at = "counted" =>
          \A p \in Picks : p.round \in job[j].rounds => status[p] # "pending" \/ p \in Decided(j)
    /\ job[j].at \in {"announce", "tell"} => job[j].rows = {} /\ job[j].rounds \subseteq settled
    /\ j = "correction" => job[j].rounds = {} /\ job[j].at \in {"idle", "announce", "tell"}
    /\ \A p \in DOMAIN job[j].line :
          /\ job[j].line[p] # "pending" /\ (job[j].line[p] = status[p] \/ p \in excused)
          /\ job[j].at = "tell" => p.round \in settled
SettledIsDecided ==
    \A p \in Picks : /\ p.round \in settled => status[p] # "pending"
                     /\ told[p] # "pending" => p.round \in settled
VerdictIsEarned(p) ==
    status[p] # "pending" =>
        \E s \in {shown[p.fixture]} \cup typed[p.fixture] : SaysOf(p, status[p], s)

(* What the sweep was answered the provider still says, and no settlement   *)
(* has a pick in hand whose correction is to hold.                          *)
Stands(answer) ==
    \A p \in Picks : LET new == Resolve(p, answer[p.fixture]) IN
                     new # "pending" => SaysOf(p, new, shown[p.fixture])
CorrectionHolds(p) == corrected[p] # "pending" => corrected[p] = status[p] /\ ~Selected(p)
InTelling(j, p) ==
    p \in DOMAIN job[j].line \/ (job[j].at \in {"announce", "tell"} /\ p.round \in job[j].rounds)
IsTold(p) == told[p] \in {"pending", status[p]} \/ p \in excused \/ \E j \in Jobs : InTelling(j, p)
ResultsInv ==
    /\ ResultsTypeOK
    /\ \A j \in Jobs : JobIsWellFormed(j)
    /\ SettledIsDecided
    /\ Stands(job["sweep"].answer)
    /\ \A p \in Picks : VerdictIsEarned(p) /\ IsTold(p) /\ CorrectionHolds(p)

LEMMA TheSettlements ==
    /\ Unsettled \in Settlements /\ Voided \in Settlements
    /\ \A v \in Verdicts : v \in Settlements /\ (v.void \/ v.markets = Markets)
    /\ Unsettled.void = FALSE /\ Unsettled.markets = {} /\ Unsettled.won = {} /\ Unsettled.absent = {}
<1>1. Unsettled \in Settlements
  BY DEF Settlements, Unsettled
<1>2. Voided \in Settlements /\ Voided.void
  BY <1>1 DEF Settlements, Voided, Unsettled
<1>3. ASSUME NEW s \in Scores
      PROVE  FromScore(s) \in Settlements /\ FromScore(s).markets = Markets
  <2>1. Winners(s) \subseteq Selections
    BY DEF Winners, Selections
  <2>2. FromScore(s).markets = Markets
    BY DEF FromScore, Unsettled
  <2>3. FromScore(s) \in Settlements
    BY <1>1, <2>1 DEF FromScore, Settlements
  <2> QED
    BY <2>2, <2>3
<1>4. Unsettled.void = FALSE /\ Unsettled.markets = {} /\ Unsettled.won = {} /\ Unsettled.absent = {}
  BY DEF Unsettled
<1> QED
  BY <1>1, <1>2, <1>3, <1>4 DEF Verdicts

LEMMA TheJobs ==
    /\ NoJob \in JobRecords /\ NoJob.at = "idle" /\ NoJob.rounds = {} /\ NoJob.rows = {}
    /\ DOMAIN NoJob.line = {} /\ NoJob.answer = [f \in Games |-> Unsettled]
<1>1. [p \in {} |-> "pending"] \in Lines /\ DOMAIN [p \in {} |-> "pending"] = {}
  <2>1. [p \in {} |-> "pending"] \in [{} -> Statuses]
    BY DEF Statuses
  <2> QED
    BY <2>1 DEF Lines
<1>2. [f \in Games |-> Unsettled] \in [Games -> Settlements]
  BY TheSettlements
<1> QED
  BY <1>1, <1>2 DEF NoJob, JobRecords

LEMMA LinesOf ==
    ASSUME NEW f \in Lines
    PROVE  DOMAIN f \subseteq Picks /\ \A p \in DOMAIN f : f[p] \in Statuses
  BY DEF Lines

LEMMA MarketsOfPicks == \A p \in Picks : p.market \in Markets /\ p.fixture \in Games /\ p.round \in Rounds
  BY ResultsAssumption DEF Markets, Games, Rounds

(* A result says so of what it decides; an operator's decides every pick.   *)
LEMMA ResolvedIsSaid ==
    ASSUME NEW p \in Picks, NEW s \in Settlements
    PROVE  /\ Resolve(p, s) \in Statuses
           /\ Resolve(p, s) # "pending" => SaysOf(p, Resolve(p, s), s)
           /\ s \in Verdicts => Resolve(p, s) # "pending"
           /\ Resolve(p, Unsettled) = "pending"
<1>1. s \in Verdicts => s.void \/ p.market \in s.markets
  BY TheSettlements, MarketsOfPicks
<1> QED
  BY <1>1, TheSettlements DEF Resolve, Statuses, SaysOf

(* What the provider has said of a market it goes on saying.                *)
LEMMA TheProviderStands ==
    ASSUME ResultsTypeOK, NEW f \in Games, Closes(f) \/ CalledOff(f), NEW p \in Picks, NEW verdict
    PROVE  SaysOf(p, verdict, shown[p.fixture]) => SaysOf(p, verdict, shown'[p.fixture])
<1>1. p.fixture \in Games /\ p.market = MarketOf(p.outcome) /\ DOMAIN shown = Games
  BY MarketsOfPicks, ResultsAssumption DEF ResultsTypeOK
<1>2. CASE CalledOff(f)
  BY <1>1, <1>2, TheSettlements DEF CalledOff, SaysOf
<1>3. CASE Closes(f)
  <2>1. PICK M \in SUBSET (Markets \ shown[f].markets) \ {{}},
             winners \in {Winners(s) : s \in Scores} \cup {{}}, gone \in SUBSET Selections :
          LET here == {o \in Selections : MarketOf(o) \in M} IN
          /\ gone \subseteq here
          /\ shown' = [shown EXCEPT ![f] = [void |-> FALSE, markets |-> @.markets \cup M,
                            won |-> @.won \cup ((winners \cap here) \ gone),
                            absent |-> @.absent \cup gone]]
    BY <1>3 DEF Closes
  <2> DEFINE here == {o \in Selections : MarketOf(o) \in M}
             x == [void |-> FALSE, markets |-> shown[f].markets \cup M,
                   won |-> shown[f].won \cup ((winners \cap here) \ gone),
                   absent |-> shown[f].absent \cup gone]
  <2>2. shown'[p.fixture] = IF p.fixture = f THEN x ELSE shown[p.fixture]
    BY <1>1, <2>1
  <2>3. p.outcome \in here => p.market \notin shown[f].markets
    BY <1>1
  <2>4. ~shown[f].void
    BY <1>3 DEF Closes
  <2> QED
    BY <2>1, <2>2, <2>3, <2>4 DEF SaysOf
<1> QED
  BY <1>2, <1>3

(* One job at a time moves.                                                 *)
LEMMA OneJobMoves ==
    ASSUME ResultsTypeOK, NEW j \in Jobs, NEW x \in JobRecords, job' = [job EXCEPT ![j] = x]
    PROVE  /\ job' \in [Jobs -> JobRecords] /\ job'[j] = x
           /\ \A k \in Jobs : k # j => job'[k] = job[k]
  BY DEF ResultsTypeOK

LEMMA ResultsStart == ResultsInit => ResultsInv
<1> SUFFICES ASSUME ResultsInit PROVE ResultsInv
  OBVIOUS
<1>1. /\ shown = [f \in Games |-> Unsettled] /\ status = [p \in Picks |-> "pending"] /\ settled = {}
      /\ job = [j \in Jobs |-> NoJob] /\ told = [p \in Picks |-> "pending"]
      /\ typed = [f \in Games |-> {}] /\ corrected = [p \in Picks |-> "pending"]
  BY DEF ResultsInit
<1>2. ResultsTypeOK
  BY <1>1, TheSettlements, TheJobs DEF ResultsTypeOK, Statuses
<1>3. \A j \in Jobs : JobIsWellFormed(j)
  BY <1>1, TheJobs DEF JobIsWellFormed
<1>4. Stands(job["sweep"].answer)
  BY <1>1, TheJobs, TheSettlements, MarketsOfPicks, ResolvedIsSaid DEF Stands, Jobs
<1> QED
  BY <1>1, <1>2, <1>3, <1>4 DEF ResultsInv, SettledIsDecided, VerdictIsEarned, IsTold, CorrectionHolds

(* Before anything is written a job may change hands freely.                *)
LEMMA QuietStep ==
    ASSUME ResultsInv, NEW j \in Jobs, NEW x \in JobRecords, job' = [job EXCEPT ![j] = x],
           job[j].at \in {"idle", "asked", "read"}, x.at \in {"asked", "read", "counted"},
           j # "correction", DOMAIN x.line = {},
           \A p \in x.rows : status[p] = "pending" \/ p \in job[j].rows,
           x.at = "counted" => \A p \in Picks : p.round \in x.rounds =>
               status[p] # "pending" \/ (p \in x.rows /\ Resolve(p, x.answer[p.fixture]) # "pending"),
           j = "sweep" => Stands(x.answer),
           UNCHANGED <<shown, status, settled, told, typed, corrected, excused>>
    PROVE  ResultsInv'
<1>1. /\ job' \in [Jobs -> JobRecords] /\ job'[j] = x
      /\ \A k \in Jobs : k # j => job'[k] = job[k]
  BY OneJobMoves DEF ResultsInv
<1>2. ResultsTypeOK'
  BY <1>1 DEF ResultsInv, ResultsTypeOK
<1>3. ASSUME NEW k \in Jobs PROVE JobIsWellFormed(k)'
  <2>1. CASE k = j
    <3>1. x.at = "counted" =>
             \A p \in Picks : p.round \in job'[j].rounds => status'[p] # "pending" \/ p \in Decided(j)'
      BY <1>1 DEF Decided
    <3> QED
      BY <1>1, <2>1, <3>1 DEF JobIsWellFormed
  <2>2. CASE k # j
    BY <1>1, <2>2 DEF ResultsInv, JobIsWellFormed, Decided
  <2> QED
    BY <2>1, <2>2
<1>4. ASSUME NEW p \in Picks PROVE VerdictIsEarned(p)' /\ IsTold(p)'
  <2>1. ~InTelling(j, p)
    BY DEF ResultsInv, JobIsWellFormed, InTelling
  <2>2. \A k \in Jobs : InTelling(k, p) => InTelling(k, p)'
    BY <1>1, <2>1 DEF InTelling
  <2> QED
    BY <2>2 DEF ResultsInv, VerdictIsEarned, IsTold
<1>5. ASSUME NEW p \in Picks PROVE CorrectionHolds(p)'
  <2>1. corrected[p] # "pending" => corrected[p] = status[p] /\ ~Selected(p)
    BY DEF ResultsInv, CorrectionHolds
  <2>2. corrected[p] # "pending" => ~Selected(p)'
    <3> SUFFICES ASSUME corrected[p] # "pending", NEW k \in Jobs PROVE p \notin job'[k].rows
      BY DEF Selected
    <3> QED
      BY <1>1, <2>1 DEF Selected
  <2> QED
    BY <2>1, <2>2 DEF CorrectionHolds
<1>6. Stands(job["sweep"].answer)'
  <2>1. Stands(job'["sweep"].answer)
    BY <1>1 DEF ResultsInv, Jobs
  <2> QED
    BY <2>1 DEF Stands
<1> QED
  BY <1>2, <1>3, <1>4, <1>5, <1>6 DEF ResultsInv, SettledIsDecided

LEMMA SelectingStep ==
    ASSUME ResultsInv, SweepAsks \/ SweepSelects \/ \E r \in Rounds : HandSelects(r)
    PROVE  ResultsInv'
<1> USE DEF Jobs
<1>1. CASE SweepAsks
  <2> DEFINE waiting == Pending(Rounds \ settled)
             answer == [f \in Games |-> IF \E p \in waiting : p.fixture = f THEN shown[f] ELSE Unsettled]
             x == [NoJob EXCEPT !.at = "asked", !.rounds = {p.round : p \in waiting}, !.answer = answer]
  <2>1. job' = [job EXCEPT !["sweep"] = x] /\ job["sweep"].at = "idle"
        /\ UNCHANGED <<shown, status, settled, told, typed, corrected, excused>>
    BY <1>1 DEF SweepAsks
  <2>2. {p.round : p \in waiting} \subseteq Rounds
    BY DEF Pending, Rounds
  <2>3. answer \in [Games -> Settlements] /\ \A f \in Games : answer[f] \in {shown[f], Unsettled}
    BY TheSettlements DEF ResultsInv, ResultsTypeOK
  <2> HIDE DEF answer, waiting
  <2>4. x \in JobRecords /\ x.at = "asked" /\ DOMAIN x.line = {} /\ x.rows = {} /\ x.answer = answer
    BY <2>2, <2>3, TheJobs DEF JobRecords
  <2>5. Stands(x.answer)
    <3>1. \A p \in Picks : /\ answer[p.fixture] \in {shown[p.fixture], Unsettled}
                           /\ shown[p.fixture] \in Settlements
      BY <2>3, MarketsOfPicks DEF ResultsInv, ResultsTypeOK
    <3>2. \A p \in Picks : LET s == answer[p.fixture] IN
                           Resolve(p, s) # "pending" => SaysOf(p, Resolve(p, s), shown[p.fixture])
      BY <3>1, ResolvedIsSaid
    <3> QED
      BY <2>4, <3>2 DEF Stands
  <2> HIDE DEF x
  <2> QED
    BY <2>1, <2>4, <2>5, QuietStep
<1>2. CASE SweepSelects
  <2> DEFINE x == [job["sweep"] EXCEPT !.at = "read", !.rows = Pending(job["sweep"].rounds)]
  <2>1. job' = [job EXCEPT !["sweep"] = x] /\ job["sweep"].at = "asked"
        /\ UNCHANGED <<shown, status, settled, told, typed, corrected, excused>>
    BY <1>2 DEF SweepSelects
  <2>2. job["sweep"] \in JobRecords /\ DOMAIN job["sweep"].line = {}
    BY <2>1 DEF ResultsInv, ResultsTypeOK, JobIsWellFormed
  <2>3. Pending(job["sweep"].rounds) \subseteq Picks
        /\ \A p \in Pending(job["sweep"].rounds) : status[p] = "pending"
    BY DEF Pending
  <2>4. /\ x \in JobRecords /\ x.at = "read" /\ DOMAIN x.line = {}
        /\ x.rows = Pending(job["sweep"].rounds) /\ x.answer = job["sweep"].answer
    BY <2>2, <2>3 DEF JobRecords
  <2>5. Stands(x.answer)
    BY <2>4 DEF ResultsInv
  <2> HIDE DEF x
  <2> QED
    BY <2>1, <2>3, <2>4, <2>5, QuietStep
<1>3. ASSUME NEW r \in Rounds, HandSelects(r) PROVE ResultsInv'
  <2>0. PICK F \in SUBSET {p.fixture : p \in Pending({r})} : \E v \in [F -> Verdicts] :
          job' = [job EXCEPT !["hand"] = [NoJob EXCEPT
                     !.at = "read", !.rounds = {r}, !.rows = Pending({r}),
                     !.answer = [f \in Games |-> IF f \in F THEN v[f] ELSE Unsettled]]]
    BY <1>3 DEF HandSelects
  <2>1. PICK v \in [F -> Verdicts] :
          job' = [job EXCEPT !["hand"] = [NoJob EXCEPT
                     !.at = "read", !.rounds = {r}, !.rows = Pending({r}),
                     !.answer = [f \in Games |-> IF f \in F THEN v[f] ELSE Unsettled]]]
    BY <2>0
  <2> DEFINE x == [NoJob EXCEPT !.at = "read", !.rounds = {r}, !.rows = Pending({r}),
                     !.answer = [f \in Games |-> IF f \in F THEN v[f] ELSE Unsettled]]
  <2>2. job["hand"].at = "idle" /\ UNCHANGED <<shown, status, settled, told, typed, corrected, excused>>
    BY <1>3 DEF HandSelects
  <2>3. Pending({r}) \subseteq Picks /\ \A p \in Pending({r}) : status[p] = "pending"
    BY DEF Pending
  <2>4. [f \in Games |-> IF f \in F THEN v[f] ELSE Unsettled] \in [Games -> Settlements]
    BY TheSettlements
  <2>5. x \in JobRecords /\ x.at = "read" /\ DOMAIN x.line = {} /\ x.rows = Pending({r})
    BY <2>3, <2>4, TheJobs DEF JobRecords
  <2>6. job' = [job EXCEPT !["hand"] = x]
    BY <2>1
  <2> HIDE DEF x
  <2> QED
    BY <2>2, <2>3, <2>5, <2>6, QuietStep
<1> QED
  BY <1>1, <1>2, <1>3

LEMMA CountsStep ==
    ASSUME ResultsInv, NEW j \in Jobs, Counts(j)
    PROVE  ResultsInv'
<1> DEFINE x == [job[j] EXCEPT !.at = "counted", !.rows = Decided(j), !.rounds = Flips(j, Scored(j))]
<1>1. /\ job[j].at = "read" /\ job' = [job EXCEPT ![j] = x]
      /\ UNCHANGED <<shown, status, settled, told, typed, corrected, excused>>
  BY DEF Counts
<1>2. job[j] \in JobRecords /\ JobIsWellFormed(j)
  BY DEF ResultsInv, ResultsTypeOK
<1>3. Decided(j) \subseteq job[j].rows /\ Flips(j, Scored(j)) \subseteq job[j].rounds
  BY DEF Decided, Flips
<1>4. /\ x \in JobRecords /\ x.at = "counted" /\ x.rows = Decided(j) /\ x.rounds = Flips(j, Scored(j))
      /\ x.answer = job[j].answer /\ x.line = job[j].line
  BY <1>2, <1>3 DEF JobRecords
<1> HIDE DEF x
<1>5. ASSUME NEW p \in Picks, p.round \in x.rounds
      PROVE  status[p] # "pending" \/ (p \in x.rows /\ Resolve(p, x.answer[p.fixture]) # "pending")
  <2>1. Scored(j)[p] # "pending"
    BY <1>4, <1>5 DEF Flips, Of
  <2> QED
    BY <1>4, <2>1 DEF Scored, Decided
<1>6. j # "correction" /\ DOMAIN x.line = {}
  BY <1>1, <1>2, <1>4 DEF JobIsWellFormed
<1>7. j = "sweep" => Stands(x.answer)
  BY <1>4 DEF ResultsInv
<1> QED
  BY <1>1, <1>3, <1>4, <1>5, <1>6, <1>7, QuietStep

LEMMA OtherJob ==
    ASSUME NEW k \in Jobs, JobIsWellFormed(k), job'[k] = job[k], settled \subseteq settled',
           \A p \in Picks : status[p] # "pending" => status'[p] # "pending",
           \A p \in DOMAIN job[k].line :
              (p \in excused => p \in excused') /\ (status'[p] = status[p] \/ p \in excused')
    PROVE  JobIsWellFormed(k)'
<1>1. \A p \in Picks : p \in Decided(k) => p \in Decided(k)'
  BY DEF Decided
<1> QED
  BY <1>1 DEF JobIsWellFormed

LEMMA ProviderStep ==
    ASSUME ResultsInv, NEW f \in Games, Closes(f) \/ CalledOff(f)
    PROVE  ResultsInv'
<1>1. UNCHANGED <<status, settled, job, told, typed, corrected, excused>>
  BY DEF Closes, CalledOff
<1>2. shown' \in [Games -> Settlements]
  <2>1. CASE CalledOff(f)
    BY <2>1, TheSettlements DEF CalledOff, ResultsInv, ResultsTypeOK
  <2>2. CASE Closes(f)
    <3>1. PICK M \in SUBSET (Markets \ shown[f].markets) \ {{}},
               winners \in {Winners(s) : s \in Scores} \cup {{}}, gone \in SUBSET Selections :
            LET here == {o \in Selections : MarketOf(o) \in M} IN
            /\ gone \subseteq here
            /\ shown' = [shown EXCEPT ![f] = [void |-> FALSE, markets |-> @.markets \cup M,
                              won |-> @.won \cup ((winners \cap here) \ gone),
                              absent |-> @.absent \cup gone]]
      BY <2>2 DEF Closes
    <3> DEFINE won == (winners \cap {o \in Selections : MarketOf(o) \in M}) \ gone
               x == [void |-> FALSE, markets |-> shown[f].markets \cup M,
                     won |-> shown[f].won \cup won, absent |-> shown[f].absent \cup gone]
    <3>2. won \subseteq Selections /\ M \subseteq Markets
      OBVIOUS
    <3>3. shown' = [shown EXCEPT ![f] = x]
      BY <3>1
    <3> HIDE DEF won
    <3>4. x \in Settlements
      BY <3>2 DEF Settlements, ResultsInv, ResultsTypeOK
    <3> QED
      BY <3>3, <3>4 DEF ResultsInv, ResultsTypeOK
  <2> QED
    BY <2>1, <2>2
<1>3. \A p \in Picks : \A v : SaysOf(p, v, shown[p.fixture]) => SaysOf(p, v, shown'[p.fixture])
  BY TheProviderStands DEF ResultsInv
<1>4. Stands(job["sweep"].answer)'
  <2>1. \A p \in Picks : LET new == Resolve(p, job["sweep"].answer[p.fixture]) IN
                         new # "pending" => SaysOf(p, new, shown[p.fixture])
    BY DEF ResultsInv, Stands
  <2> QED
    BY <1>1, <1>3, <2>1 DEF Stands
<1>5. ASSUME NEW p \in Picks PROVE VerdictIsEarned(p)'
  <2>1. VerdictIsEarned(p)
    BY DEF ResultsInv
  <2> QED
    BY <1>1, <1>3, <2>1 DEF VerdictIsEarned
<1>6. \A p \in Picks : CorrectionHolds(p)' /\ IsTold(p)'
  BY <1>1 DEF ResultsInv, CorrectionHolds, Selected, IsTold, InTelling
<1> QED
  BY <1>1, <1>2, <1>4, <1>5, <1>6 DEF ResultsInv, ResultsTypeOK, JobIsWellFormed, Decided, SettledIsDecided

(* What an operator typed in is kept, and nothing typed before is lost.     *)
LEMMA EarnedStays ==
    ASSUME NEW p \in Picks, VerdictIsEarned(p), status'[p] = status[p], shown' = shown,
           typed[p.fixture] \subseteq typed'[p.fixture]
    PROVE  VerdictIsEarned(p)'
  BY DEF VerdictIsEarned

LEMMA CorrectPickStep ==
    ASSUME ResultsInv, NEW p \in Picks, CorrectPick(p)
    PROVE  ResultsInv'
<1>1. PICK v \in Verdicts : /\ status' = [status EXCEPT ![p] = Resolve(p, v)]
                            /\ typed' = [typed EXCEPT ![p.fixture] = @ \cup {v}]
                            /\ corrected' = Corrections({p}, v)
  BY DEF CorrectPick
<1>2. excused' = excused \cup {p} /\ UNCHANGED <<shown, settled, job, told>>
  BY DEF CorrectPick
<1>3. /\ Resolve(p, v) \in Statuses /\ Resolve(p, v) # "pending" /\ p.fixture \in Games
      /\ SaysOf(p, Resolve(p, v), v)
  BY ResolvedIsSaid, TheSettlements, MarketsOfPicks
<1>4. ResultsTypeOK'
  <2>1. corrected' \in [Picks -> Statuses]
    BY <1>1, <1>3 DEF Corrections, Statuses, ResultsInv, ResultsTypeOK
  <2> QED
    BY <1>1, <1>2, <1>3, <2>1 DEF ResultsInv, ResultsTypeOK
<1>5. /\ status'[p] = Resolve(p, v) /\ \A q \in Picks : q # p => status'[q] = status[q]
      /\ v \in typed'[p.fixture] /\ status[p] # "pending"
      /\ \A q \in Picks : typed[q.fixture] \subseteq typed'[q.fixture]
  <2>1. \A q \in Picks : q.fixture \in Games
    BY MarketsOfPicks
  <2> QED
    BY <1>1, <1>3, <2>1 DEF ResultsInv, ResultsTypeOK, CorrectPick
<1>6. ASSUME NEW k \in Jobs PROVE JobIsWellFormed(k)'
  <2>1. job[k].line \in Lines
    BY DEF ResultsInv, ResultsTypeOK, JobRecords
  <2>2. DOMAIN job[k].line \subseteq Picks
    BY <2>1, LinesOf
  <2> QED
    BY <1>2, <1>3, <1>5, <2>2, OtherJob DEF ResultsInv
<1>7. ASSUME NEW q \in Picks PROVE VerdictIsEarned(q)' /\ IsTold(q)'
  <2>1. CASE q = p
    <3>1. VerdictIsEarned(p)'
      BY <1>3, <1>5 DEF VerdictIsEarned
    <3> QED
      BY <1>2, <2>1, <3>1 DEF IsTold
  <2>2. CASE q # p
    BY <1>2, <1>5, <2>2, EarnedStays DEF ResultsInv, IsTold, InTelling
  <2> QED
    BY <2>1, <2>2
<1>8. SettledIsDecided'
  BY <1>2, <1>3, <1>5 DEF ResultsInv, SettledIsDecided
<1>9. ASSUME NEW q \in Picks PROVE CorrectionHolds(q)'
  <2>1. corrected'[q] = IF q # p THEN corrected[q] ELSE IF Selected(p) THEN "pending" ELSE Resolve(p, v)
    BY <1>1 DEF Corrections
  <2>2. Selected(q)' <=> Selected(q)
    BY <1>2 DEF Selected
  <2> QED
    BY <1>5, <2>1, <2>2 DEF ResultsInv, CorrectionHolds
<1>10. Stands(job["sweep"].answer)'
  BY <1>2 DEF ResultsInv, Stands
<1> QED
  BY <1>4, <1>6, <1>7, <1>8, <1>9, <1>10 DEF ResultsInv

LEMMA CorrectFixtureStep ==
    ASSUME ResultsInv, NEW f \in Games, CorrectFixture(f)
    PROVE  ResultsInv'
<1> DEFINE moved(v) == {p \in Corrected(f) : Resolve(p, v) # status[p]}
           x(v) == [NoJob EXCEPT !.at = "announce", !.line = [p \in moved(v) |-> Resolve(p, v)]]
<1>1. PICK v \in Verdicts :
        /\ status' = [p \in Picks |-> IF p \in moved(v) THEN Resolve(p, v) ELSE status[p]]
        /\ typed' = [typed EXCEPT ![f] = @ \cup {v}]
        /\ corrected' = Corrections(moved(v), v)
        /\ excused' = excused \cup {p \in moved(v) : InHand(p)}
        /\ job' = [job EXCEPT !["correction"] = x(v)]
  BY DEF CorrectFixture
<1>2. job["correction"].at = "idle" /\ UNCHANGED <<shown, settled, told>> /\ "correction" \in Jobs
  BY DEF CorrectFixture, Jobs
<1>3. /\ moved(v) \subseteq Picks
      /\ \A p \in moved(v) : p.fixture = f /\ status[p] # "pending"
  BY DEF Corrected, On
<1>4. \A p \in Picks : /\ Resolve(p, v) \in Statuses /\ Resolve(p, v) # "pending"
                       /\ SaysOf(p, Resolve(p, v), v)
  BY ResolvedIsSaid, TheSettlements
<1> DEFINE line == [p \in moved(v) |-> Resolve(p, v)]
<1>5. /\ x(v) \in JobRecords /\ x(v).at = "announce" /\ x(v).rounds = {} /\ x(v).rows = {}
      /\ x(v).line = line
  <2>1. line \in Lines
    <3>1. line \in [moved(v) -> Statuses]
      BY <1>3, <1>4
    <3> HIDE DEF line, moved
    <3> QED
      BY <1>3, <3>1 DEF Lines
  <2> HIDE DEF line
  <2>2. x(v) = [NoJob EXCEPT !.at = "announce", !.line = line]
    BY DEF line
  <2> QED
    BY <2>1, <2>2, TheJobs DEF JobRecords
<1> HIDE DEF x
<1>6. /\ job' \in [Jobs -> JobRecords] /\ job'["correction"] = x(v)
      /\ \A k \in Jobs : k # "correction" => job'[k] = job[k]
  BY <1>1, <1>2, <1>5, OneJobMoves DEF ResultsInv
<1>7. /\ \A p \in Picks : status'[p] = IF p \in moved(v) THEN Resolve(p, v) ELSE status[p]
      /\ v \in typed'[f]
      /\ \A q \in Picks : typed[q.fixture] \subseteq typed'[q.fixture]
  <2>1. \A q \in Picks : q.fixture \in Games
    BY MarketsOfPicks
  <2> QED
    BY <1>1, <2>1 DEF ResultsInv, ResultsTypeOK
<1>8. ResultsTypeOK'
  <2>1. corrected' \in [Picks -> Statuses]
    <3> HIDE DEF moved
    <3> QED
      BY <1>1, <1>4 DEF Corrections, Statuses, ResultsInv, ResultsTypeOK
  <2> QED
    BY <1>1, <1>2, <1>4, <1>6, <2>1 DEF ResultsInv, ResultsTypeOK
<1>9. ASSUME NEW k \in Jobs PROVE JobIsWellFormed(k)'
  <2>1. CASE k = "correction"
    <3>1. \A p \in moved(v) : line[p] = Resolve(p, v) /\ line[p] # "pending" /\ line[p] = status'[p]
      BY <1>3, <1>4, <1>7
    <3>2. DOMAIN line = moved(v)
      OBVIOUS
    <3> HIDE DEF line, moved
    <3> QED
      BY <1>5, <1>6, <2>1, <3>1, <3>2 DEF JobIsWellFormed
  <2>2. CASE k # "correction"
    <3>1. DOMAIN job[k].line \subseteq Picks
      BY LinesOf DEF ResultsInv, ResultsTypeOK, JobRecords
    <3>2. \A p \in DOMAIN job[k].line : InHand(p)
      BY DEF InHand
    <3> QED
      BY <1>1, <1>2, <1>4, <1>6, <1>7, <2>2, <3>1, <3>2, OtherJob DEF ResultsInv
  <2> QED
    BY <2>1, <2>2
<1>10. ASSUME NEW p \in Picks PROVE VerdictIsEarned(p)' /\ IsTold(p)'
  <2>1. CASE p \in moved(v)
    <3>1. VerdictIsEarned(p)'
      BY <1>3, <1>4, <1>7, <2>1 DEF VerdictIsEarned
    <3>2. InTelling("correction", p)'
      BY <1>5, <1>6, <2>1 DEF InTelling
    <3> QED
      BY <1>2, <3>1, <3>2 DEF IsTold
  <2>2. CASE p \notin moved(v)
    <3>1. status'[p] = status[p] /\ told'[p] = told[p] /\ (p \in excused => p \in excused')
      BY <1>1, <1>2, <1>7, <2>2
    <3>2. ~InTelling("correction", p)
      BY <1>2 DEF InTelling, ResultsInv, JobIsWellFormed
    <3>3. \A k \in Jobs : InTelling(k, p) => InTelling(k, p)'
      BY <1>6, <3>2 DEF InTelling
    <3> QED
      BY <1>2, <1>7, <3>1, <3>3, EarnedStays DEF ResultsInv, IsTold
  <2> QED
    BY <2>1, <2>2
<1>11. SettledIsDecided'
  BY <1>2, <1>4, <1>7 DEF ResultsInv, SettledIsDecided
<1>12. ASSUME NEW q \in Picks PROVE CorrectionHolds(q)'
  <2>1. corrected'[q] = IF q \notin moved(v) THEN corrected[q]
                        ELSE IF Selected(q) THEN "pending" ELSE Resolve(q, v)
    BY <1>1 DEF Corrections
  <2>2. Selected(q)' => Selected(q)
    BY <1>5, <1>6 DEF Selected
  <2>3. corrected[q] # "pending" => corrected[q] = status[q] /\ ~Selected(q)
    BY DEF ResultsInv, CorrectionHolds
  <2> HIDE DEF moved
  <2> QED
    BY <1>7, <2>1, <2>2, <2>3 DEF CorrectionHolds
<1>13. Stands(job["sweep"].answer)'
  <2>1. Stands(job'["sweep"].answer)
    BY <1>6 DEF ResultsInv, Jobs
  <2> QED
    BY <1>2, <2>1 DEF Stands
<1> QED
  BY <1>8, <1>9, <1>10, <1>11, <1>12, <1>13 DEF ResultsInv

LEMMA CommitsStep ==
    ASSUME ResultsInv, NEW j \in Jobs, Commits(j)
    PROVE  ResultsInv'
<1> DEFINE flips == job[j].rounds
           new(p) == Resolve(p, job[j].answer[p.fixture])
           x == IF flips = {} THEN NoJob ELSE [NoJob EXCEPT !.at = "announce", !.rounds = flips]
<1>1. /\ job[j].at = "counted" /\ status' = Scored(j) /\ settled' = settled \cup flips
      /\ job' = [job EXCEPT ![j] = x]
      /\ typed' = IF j = "sweep" THEN typed
                  ELSE [f \in Games |-> typed[f] \cup ({job[j].answer[f]} \ {Unsettled})]
      /\ excused' = excused \cup {p \in Picks : status'[p] # status[p]
                                     /\ (InHand(p) \/ p.round \in settled \ flips)}
      /\ UNCHANGED <<shown, told, corrected>>
  BY DEF Commits
<1>2. /\ job[j] \in JobRecords /\ j # "correction" /\ JobIsWellFormed(j)
      /\ flips \subseteq Rounds /\ DOMAIN job[j].line = {}
  BY <1>1 DEF ResultsInv, ResultsTypeOK, JobIsWellFormed, JobRecords
<1>3. \A p \in Picks : /\ job[j].answer[p.fixture] \in Settlements /\ new(p) \in Statuses
                       /\ new(p) # "pending" => SaysOf(p, new(p), job[j].answer[p.fixture])
                       /\ new(p) # "pending" => job[j].answer[p.fixture] # Unsettled
  <2>1. \A p \in Picks : job[j].answer[p.fixture] \in Settlements
    BY <1>2, MarketsOfPicks DEF JobRecords
  <2> QED
    BY <2>1, ResolvedIsSaid
<1>4. /\ x \in JobRecords /\ x.at \in {"idle", "announce"} /\ x.rows = {} /\ DOMAIN x.line = {}
      /\ x.rounds = flips /\ (flips # {} => x.at = "announce") /\ x.answer = NoJob.answer
  <2> HIDE DEF flips
  <2>1. CASE flips = {}
    BY <2>1, TheJobs
  <2>2. CASE flips # {}
    BY <1>2, <2>2, TheJobs DEF JobRecords
  <2> QED
    BY <2>1, <2>2
<1> HIDE DEF x
<1>5. /\ job' \in [Jobs -> JobRecords] /\ job'[j] = x
      /\ \A k \in Jobs : k # j => job'[k] = job[k]
  BY <1>1, <1>4, OneJobMoves DEF ResultsInv
<1>6. \A p \in Picks :
        /\ status'[p] = IF p \in Decided(j) THEN new(p) ELSE status[p]
        /\ p \in Decided(j) => new(p) # "pending" /\ Selected(p)
  BY <1>1 DEF Scored, Decided, Selected
<1> HIDE DEF new
<1>7. \A p \in Picks : /\ status'[p] \in Statuses
                       /\ status[p] # "pending" => status'[p] # "pending"
                       /\ p.round \in flips => status'[p] # "pending"
  BY <1>1, <1>2, <1>3, <1>6 DEF JobIsWellFormed, ResultsInv, ResultsTypeOK
<1>8. ResultsTypeOK'
  <2>1. status' \in [Picks -> Statuses]
    <3>1. status' = [p \in Picks |-> status'[p]]
      BY <1>1 DEF Scored
    <3> QED
      BY <1>7, <3>1
  <2>2. DOMAIN typed' = Games
    BY <1>1 DEF ResultsInv, ResultsTypeOK
  <2> QED
    BY <1>1, <1>2, <1>5, <2>1, <2>2 DEF ResultsInv, ResultsTypeOK
<1>9. ASSUME NEW k \in Jobs PROVE JobIsWellFormed(k)'
  <2>1. CASE k = j
    BY <1>1, <1>2, <1>4, <1>5, <2>1 DEF JobIsWellFormed
  <2>2. CASE k # j
    <3>1. DOMAIN job[k].line \subseteq Picks
      BY LinesOf DEF ResultsInv, ResultsTypeOK, JobRecords
    <3>2. \A p \in DOMAIN job[k].line : InHand(p)
      BY DEF InHand
    <3>3. \A p \in DOMAIN job[k].line :
             (p \in excused => p \in excused') /\ (status'[p] = status[p] \/ p \in excused')
      BY <1>1, <3>1, <3>2
    <3> QED
      BY <1>1, <1>5, <1>7, <2>2, <3>3, OtherJob DEF ResultsInv
  <2> QED
    BY <2>1, <2>2
<1>10. SettledIsDecided'
  <2> SUFFICES ASSUME NEW p \in Picks
               PROVE  /\ p.round \in settled' => status'[p] # "pending"
                      /\ told'[p] # "pending" => p.round \in settled'
    BY DEF SettledIsDecided
  <2>1. /\ p.round \in settled => status[p] # "pending"
        /\ told[p] # "pending" => p.round \in settled
    BY DEF ResultsInv, SettledIsDecided
  <2> HIDE DEF flips
  <2> QED
    BY <1>1, <1>7, <2>1
<1>11. ASSUME NEW p \in Picks PROVE VerdictIsEarned(p)'
  <2>1. p.fixture \in Games /\ typed[p.fixture] \subseteq typed'[p.fixture]
    BY <1>1, MarketsOfPicks
  <2>2. CASE p \notin Decided(j)
    BY <1>1, <1>6, <2>1, <2>2, EarnedStays DEF ResultsInv
  <2>3. CASE p \in Decided(j) /\ j = "sweep"
    <3>1. SaysOf(p, new(p), shown[p.fixture])
      BY <1>6, <2>3 DEF ResultsInv, Stands, new
    <3> QED
      BY <1>1, <1>6, <2>3, <3>1 DEF VerdictIsEarned
  <2>4. CASE p \in Decided(j) /\ j # "sweep"
    <3>1. job[j].answer[p.fixture] \in typed'[p.fixture]
      BY <1>1, <1>3, <1>6, <2>1, <2>4
    <3> QED
      BY <1>3, <1>6, <2>4, <3>1 DEF VerdictIsEarned
  <2> QED
    BY <2>2, <2>3, <2>4
<1>12. ASSUME NEW p \in Picks PROVE IsTold(p)'
  <2>1. CASE status'[p] = status[p]
    <3>1. ~InTelling(j, p)
      BY <1>1, <1>2 DEF InTelling
    <3>2. \A k \in Jobs : InTelling(k, p) => InTelling(k, p)'
      BY <1>5, <3>1 DEF InTelling
    <3> QED
      BY <1>1, <2>1, <3>2 DEF ResultsInv, IsTold
  <2>2. CASE p.round \in flips
    <3>1. InTelling(j, p)'
      BY <1>4, <1>5, <2>2 DEF InTelling
    <3> QED
      BY <3>1 DEF IsTold
  <2>3. CASE status'[p] # status[p] /\ p.round \in settled \ flips
    BY <1>1, <2>3 DEF IsTold
  <2>4. CASE p.round \notin settled
    <3>1. told[p] = "pending"
      BY <2>4 DEF ResultsInv, SettledIsDecided
    <3> QED
      BY <1>1, <3>1 DEF IsTold
  <2> QED
    BY <2>1, <2>2, <2>3, <2>4
<1>13. ASSUME NEW p \in Picks PROVE CorrectionHolds(p)'
  <2>1. Selected(p)' => Selected(p)
    BY <1>4, <1>5 DEF Selected
  <2>2. corrected[p] # "pending" => corrected[p] = status[p] /\ ~Selected(p)
    BY DEF ResultsInv, CorrectionHolds
  <2> QED
    BY <1>1, <1>6, <2>1, <2>2 DEF CorrectionHolds
<1>14. Stands(job["sweep"].answer)'
  <2>1. Stands(job'["sweep"].answer)
    <3>1. CASE j = "sweep"
      BY <1>4, <1>5, <3>1, TheJobs, TheSettlements, MarketsOfPicks, ResolvedIsSaid DEF Stands
    <3>2. CASE j # "sweep"
      BY <1>5, <3>2 DEF ResultsInv, Jobs
    <3> QED
      BY <3>1, <3>2
  <2> QED
    BY <1>1, <2>1 DEF Stands
<1> QED
  BY <1>8, <1>9, <1>10, <1>11, <1>12, <1>13, <1>14 DEF ResultsInv

(* A job that goes on telling, or is over, selects and answers nothing new. *)
LEMMA HandedOn ==
    ASSUME ResultsInv, NEW j \in Jobs, NEW x, x.rows \in {{}, job[j].rows},
           x.answer = job[j].answer \/ x.answer = NoJob.answer, job'[j] = x,
           \A k \in Jobs : k # j => job'[k] = job[k],
           UNCHANGED <<shown, status, settled, corrected>>
    PROVE  /\ Stands(job["sweep"].answer)' /\ \A p \in Picks : CorrectionHolds(p)'
           /\ told' = told => SettledIsDecided'
<1>1. Stands(NoJob.answer)
  BY TheJobs, TheSettlements, MarketsOfPicks, ResolvedIsSaid DEF Stands
<1>2. Stands(job'["sweep"].answer)
  BY <1>1 DEF ResultsInv, Jobs
<1>3. \A p \in Picks : Selected(p)' => Selected(p)
  BY DEF Selected
<1> QED
  BY <1>2, <1>3 DEF ResultsInv, Stands, CorrectionHolds, SettledIsDecided

LEMMA ReadsLinesStep ==
    ASSUME ResultsInv, NEW j \in Jobs, ReadsLines(j)
    PROVE  ResultsInv'
<1>1. job[j].at = "announce" /\ Prepares(j) /\ UNCHANGED <<shown, status, settled, told, typed, corrected, excused>>
  BY DEF ReadsLines
<1>2. /\ job[j] \in JobRecords /\ JobIsWellFormed(j) /\ job[j].rounds \subseteq settled
      /\ DOMAIN job[j].line \subseteq Picks /\ \A p \in DOMAIN job[j].line : job[j].line[p] \in Statuses
  BY <1>1, LinesOf DEF ResultsInv, ResultsTypeOK, JobIsWellFormed, JobRecords
<1>3. ASSUME NEW x \in JobRecords, job' = [job EXCEPT ![j] = x], x.at = "tell", x.rows = job[j].rows,
             x.rounds \subseteq job[j].rounds,
             \A p \in DOMAIN x.line :
                /\ p.round \in settled /\ x.line[p] # "pending"
                /\ x.line[p] = status[p] \/ p \in excused,
             \A p \in Picks : InTelling(j, p) =>
                p \in DOMAIN x.line \/ p.round \in x.rounds \/ p.round \notin settled,
             x.answer = job[j].answer
      PROVE  ResultsInv'
  <2>1. /\ job' \in [Jobs -> JobRecords] /\ job'[j] = x
        /\ \A k \in Jobs : k # j => job'[k] = job[k]
    BY <1>3, OneJobMoves DEF ResultsInv
  <2>2. ResultsTypeOK'
    BY <1>1, <2>1 DEF ResultsInv, ResultsTypeOK
  <2>3. ASSUME NEW k \in Jobs PROVE JobIsWellFormed(k)'
    <3>1. CASE k = j
      <4>1. j = "correction" => x.rounds = {}
        BY <1>2, <1>3 DEF JobIsWellFormed
      <4> QED
        BY <1>1, <1>2, <1>3, <2>1, <3>1, <4>1 DEF JobIsWellFormed
    <3>2. CASE k # j
      BY <1>1, <2>1, <3>2, OtherJob DEF ResultsInv
    <3> QED
      BY <3>1, <3>2
  <2>4. ASSUME NEW p \in Picks PROVE VerdictIsEarned(p)' /\ IsTold(p)'
    <3>1. \A k \in Jobs : InTelling(k, p) => InTelling(k, p)' \/ p.round \notin settled
      BY <1>3, <2>1 DEF InTelling
    <3>2. p.round \notin settled => told[p] = "pending"
      BY DEF ResultsInv, SettledIsDecided
    <3>3. VerdictIsEarned(p) /\ IsTold(p)
      BY DEF ResultsInv
    <3> QED
      BY <1>1, <3>1, <3>2, <3>3 DEF VerdictIsEarned, IsTold
  <2>5. /\ Stands(job["sweep"].answer)' /\ \A p \in Picks : CorrectionHolds(p)'
        /\ SettledIsDecided'
    BY <1>1, <1>3, <2>1, HandedOn DEF ResultsInv
  <2> QED
    BY <2>2, <2>3, <2>4, <2>5 DEF ResultsInv
<1>4. ASSUME j = "correction",
             job' = [job EXCEPT ![j].at = "tell",
                       ![j].line = [p \in {q \in DOMAIN @ : q.round \in settled} |-> @[p]]]
      PROVE  ResultsInv'
  <2> DEFINE line == [p \in {q \in DOMAIN job[j].line : q.round \in settled} |-> job[j].line[p]]
             x == [job[j] EXCEPT !.at = "tell", !.line = line]
  <2>1. line \in Lines
    <3> DEFINE S == {q \in DOMAIN job[j].line : q.round \in settled}
    <3>1. line \in [S -> Statuses] /\ S \subseteq Picks
      BY <1>2
    <3> HIDE DEF line, S
    <3> QED
      BY <3>1 DEF Lines
  <2>2. \A p \in DOMAIN line : /\ p \in DOMAIN job[j].line /\ p.round \in settled
                              /\ line[p] = job[j].line[p]
    OBVIOUS
  <2>3. \A p \in DOMAIN job[j].line : p \in DOMAIN line \/ p.round \notin settled
    OBVIOUS
  <2>4. job' = [job EXCEPT ![j] = x]
    BY <1>4
  <2> HIDE DEF line
  <2>5. /\ x \in JobRecords /\ x.at = "tell" /\ x.rows = job[j].rows /\ x.rounds = job[j].rounds
        /\ x.line = line /\ x.answer = job[j].answer
    BY <1>2, <2>1 DEF JobRecords
  <2> HIDE DEF x
  <2>6. \A p \in DOMAIN line : p.round \in settled /\ line[p] # "pending"
                             /\ (line[p] = status[p] \/ p \in excused)
    BY <1>2, <2>2 DEF JobIsWellFormed
  <2>7. \A p \in Picks : InTelling(j, p) => p \in DOMAIN line \/ p.round \in x.rounds \/ p.round \notin settled
    BY <2>3, <2>5 DEF InTelling
  <2> QED
    BY <1>3, <2>4, <2>5, <2>6, <2>7
<1>5. ASSUME NEW r \in job[j].rounds,
             job' = [job EXCEPT ![j].at = "tell", ![j].rounds = @ \ {r},
                                ![j].line = [p \in Of(r) |-> status[p]]]
      PROVE  ResultsInv'
  <2> DEFINE line == [p \in Of(r) |-> status[p]]
             x == [job[j] EXCEPT !.at = "tell", !.rounds = @ \ {r}, !.line = line]
  <2>1. j # "correction" /\ DOMAIN job[j].line = {} /\ r \in settled
    BY <1>1, <1>2 DEF JobIsWellFormed
  <2>2. line \in Lines
    <3>1. line \in [Of(r) -> Statuses] /\ Of(r) \subseteq Picks
      BY DEF Of, ResultsInv, ResultsTypeOK
    <3> HIDE DEF line
    <3> QED
      BY <3>1 DEF Lines
  <2>3. job' = [job EXCEPT ![j] = x]
    BY <1>5
  <2>4. /\ DOMAIN line = Of(r) /\ \A p \in Of(r) : line[p] = status[p]
        /\ \A p \in Picks : p \in Of(r) <=> p.round = r
    BY DEF Of
  <2> HIDE DEF line
  <2>5. /\ x \in JobRecords /\ x.at = "tell" /\ x.rows = job[j].rows /\ x.rounds = job[j].rounds \ {r}
        /\ x.line = line /\ x.answer = job[j].answer
    BY <1>2, <2>2 DEF JobRecords
  <2> HIDE DEF x
  <2>6. \A p \in DOMAIN line : p.round \in settled /\ line[p] # "pending" /\ line[p] = status[p]
    BY <2>1, <2>4 DEF Of, ResultsInv, SettledIsDecided
  <2>7. \A p \in Picks : InTelling(j, p) => p \in DOMAIN line \/ p.round \in x.rounds
    BY <2>1, <2>4, <2>5 DEF InTelling
  <2> QED
    BY <1>3, <2>3, <2>5, <2>6, <2>7
<1> QED
  BY <1>1, <1>4, <1>5 DEF Prepares

LEMMA TellsStep ==
    ASSUME ResultsInv, NEW j \in Jobs, Tells(j)
    PROVE  ResultsInv'
<1> DEFINE p == ToTell(j)
           line == [q \in DOMAIN job[j].line \ {p} |-> job[j].line[q]]
           x == [job[j] EXCEPT !.line = line]
<1>1. /\ job[j].at = "tell" /\ p \in DOMAIN job[j].line
      /\ UNCHANGED <<shown, status, settled, typed, corrected>>
      /\ told' = [told EXCEPT ![p] = job[j].line[p]]
      /\ excused' = IF /\ job[j].line[p] = status[p]
                       /\ \A k \in Jobs \ {j} : p \notin DOMAIN job[k].line
                    THEN excused \ {p} ELSE excused
  <2>1. DOMAIN job[j].line # {} => p \in DOMAIN job[j].line
    BY DEF ToTell
  <2> QED
    BY <2>1 DEF Tells
<1>2. job' = [job EXCEPT ![j] = x]
  BY DEF Tells
<1>3. /\ job[j] \in JobRecords /\ JobIsWellFormed(j) /\ p \in Picks /\ p.round \in settled
      /\ DOMAIN job[j].line \subseteq Picks /\ \A q \in DOMAIN job[j].line : job[j].line[q] \in Statuses
      /\ job[j].line[p] # "pending" /\ (job[j].line[p] = status[p] \/ p \in excused)
  <2>1. job[j] \in JobRecords /\ JobIsWellFormed(j)
    BY DEF ResultsInv, ResultsTypeOK
  <2>2. DOMAIN job[j].line \subseteq Picks /\ \A q \in DOMAIN job[j].line : job[j].line[q] \in Statuses
    BY <2>1, LinesOf DEF JobRecords
  <2> QED
    BY <1>1, <2>1, <2>2 DEF JobIsWellFormed
<1> HIDE DEF p
<1>4. line \in Lines
  <2> DEFINE S == DOMAIN job[j].line \ {p}
  <2>1. line \in [S -> Statuses] /\ S \subseteq Picks
    BY <1>3
  <2> HIDE DEF line, S
  <2> QED
    BY <2>1 DEF Lines
<1>5. DOMAIN line = DOMAIN job[j].line \ {p} /\ \A q \in DOMAIN line : line[q] = job[j].line[q]
  OBVIOUS
<1> HIDE DEF line
<1>6. /\ x \in JobRecords /\ x.at = "tell" /\ x.rows = job[j].rows /\ x.rounds = job[j].rounds
      /\ x.line = line /\ x.answer = job[j].answer
  BY <1>1, <1>3, <1>4 DEF JobRecords
<1> HIDE DEF x
<1>7. /\ job' \in [Jobs -> JobRecords] /\ job'[j] = x
      /\ \A k \in Jobs : k # j => job'[k] = job[k]
  BY <1>2, <1>6, OneJobMoves DEF ResultsInv
<1>8. told'[p] = job[j].line[p] /\ told' \in [Picks -> Statuses]
      /\ \A q \in Picks : q # p => told'[q] = told[q] /\ (q \in excused => q \in excused')
  BY <1>1, <1>3 DEF ResultsInv, ResultsTypeOK
<1>9. ResultsTypeOK'
  BY <1>1, <1>7, <1>8 DEF ResultsInv, ResultsTypeOK
<1>10. ASSUME NEW k \in Jobs PROVE JobIsWellFormed(k)'
  <2>1. CASE k = j
    <3>1. \A q \in DOMAIN line :
            /\ line[q] # "pending" /\ q.round \in settled
            /\ line[q] = status[q] \/ q \in excused'
      BY <1>1, <1>3, <1>5, <1>8 DEF JobIsWellFormed
    <3> QED
      BY <1>1, <1>3, <1>6, <1>7, <2>1, <3>1 DEF JobIsWellFormed
  <2>2. CASE k # j
    <3>1. \A q \in DOMAIN job[k].line : q \in excused => q \in excused'
      BY <1>1, <2>2
    <3> QED
      BY <1>1, <1>7, <2>2, <3>1, OtherJob DEF ResultsInv
  <2> QED
    BY <2>1, <2>2
<1>11. ASSUME NEW q \in Picks PROVE VerdictIsEarned(q)' /\ IsTold(q)'
  <2>1. VerdictIsEarned(q)'
    BY <1>1 DEF ResultsInv, VerdictIsEarned
  <2>2. CASE q = p
    <3>1. told'[p] = status'[p] \/ p \in excused'
      BY <1>1, <1>3, <1>8
    <3> QED
      BY <2>1, <2>2, <3>1 DEF IsTold
  <2>3. CASE q # p
    <3>1. \A k \in Jobs : InTelling(k, q) => InTelling(k, q)'
      BY <1>1, <1>5, <1>6, <1>7, <2>3 DEF InTelling
    <3> QED
      BY <1>1, <1>8, <2>1, <2>3, <3>1 DEF ResultsInv, IsTold
  <2> QED
    BY <2>2, <2>3
<1>12. SettledIsDecided'
  <2> SUFFICES ASSUME NEW q \in Picks
               PROVE  /\ q.round \in settled => status[q] # "pending"
                      /\ told'[q] # "pending" => q.round \in settled
    BY <1>1 DEF SettledIsDecided
  <2>1. /\ q.round \in settled => status[q] # "pending"
        /\ told[q] # "pending" => q.round \in settled
    BY DEF ResultsInv, SettledIsDecided
  <2> QED
    BY <1>3, <1>8, <2>1
<1>13. Stands(job["sweep"].answer)' /\ \A q \in Picks : CorrectionHolds(q)'
  BY <1>1, <1>6, <1>7, HandedOn DEF ResultsInv
<1> QED
  BY <1>9, <1>10, <1>11, <1>12, <1>13 DEF ResultsInv

LEMMA EndsStep ==
    ASSUME ResultsInv, NEW j \in Jobs, ToldAll(j) \/ Dies(j)
    PROVE  ResultsInv'
<1>1. ASSUME NEW x \in JobRecords, job' = [job EXCEPT ![j] = x],
             UNCHANGED <<shown, status, settled, told, typed, corrected>>, excused \subseteq excused',
             x.at \in {"idle", "announce"}, DOMAIN x.line = {}, x.rounds \subseteq settled, x.rows = {},
             x.answer = job[j].answer \/ x.answer = NoJob.answer, j = "correction" => x.rounds = {},
             \A p \in Picks : InTelling(j, p) =>
                p \in excused' \/ (x.at = "announce" /\ p.round \in x.rounds)
      PROVE  ResultsInv'
  <2>1. /\ job' \in [Jobs -> JobRecords] /\ job'[j] = x
        /\ \A k \in Jobs : k # j => job'[k] = job[k]
    BY <1>1, OneJobMoves DEF ResultsInv
  <2>2. ResultsTypeOK'
    BY <1>1, <2>1 DEF ResultsInv, ResultsTypeOK
  <2>3. ASSUME NEW k \in Jobs PROVE JobIsWellFormed(k)'
    <3>1. CASE k = j
      BY <1>1, <2>1, <3>1 DEF JobIsWellFormed
    <3>2. CASE k # j
      BY <1>1, <2>1, <3>2, OtherJob DEF ResultsInv
    <3> QED
      BY <3>1, <3>2
  <2>4. ASSUME NEW p \in Picks PROVE VerdictIsEarned(p)' /\ IsTold(p)'
    <3>1. \A k \in Jobs : InTelling(k, p) => InTelling(k, p)' \/ p \in excused'
      BY <1>1, <2>1 DEF InTelling
    <3>2. VerdictIsEarned(p) /\ IsTold(p)
      BY DEF ResultsInv
    <3> QED
      BY <1>1, <3>1, <3>2 DEF VerdictIsEarned, IsTold
  <2>5. /\ Stands(job["sweep"].answer)' /\ \A p \in Picks : CorrectionHolds(p)'
        /\ SettledIsDecided'
    BY <1>1, <2>1, HandedOn DEF ResultsInv
  <2> QED
    BY <2>2, <2>3, <2>4, <2>5 DEF ResultsInv
<1>2. job[j] \in JobRecords /\ JobIsWellFormed(j)
  BY DEF ResultsInv, ResultsTypeOK
<1>3. CASE ToldAll(j)
  <2> DEFINE x == IF job[j].rounds = {} THEN NoJob ELSE [job[j] EXCEPT !.at = "announce"]
  <2>1. /\ job[j].at = "tell" /\ DOMAIN job[j].line = {} /\ job' = [job EXCEPT ![j] = x]
        /\ UNCHANGED <<shown, status, settled, told, typed, corrected, excused>>
    BY <1>3 DEF ToldAll
  <2>2. job[j].rows = {} /\ job[j].rounds \subseteq settled
    BY <1>2, <2>1 DEF JobIsWellFormed
  <2>3. CASE job[j].rounds = {}
    <3>1. x = NoJob
      BY <2>3
    <3> HIDE DEF x
    <3> QED
      BY <1>1, <2>1, <2>3, <3>1, TheJobs DEF InTelling
  <2>4. CASE job[j].rounds # {}
    <3>1. /\ x \in JobRecords /\ x.at = "announce" /\ x.line = job[j].line /\ x.rows = job[j].rows
          /\ x.rounds = job[j].rounds /\ x.answer = job[j].answer
      BY <1>2, <2>4 DEF JobRecords
    <3> HIDE DEF x
    <3>2. j # "correction"
      BY <1>2, <2>4 DEF JobIsWellFormed
    <3> QED
      BY <1>1, <2>1, <2>2, <3>1, <3>2 DEF InTelling
  <2> QED
    BY <2>3, <2>4
<1>4. CASE Dies(j)
  <2>1. /\ job' = [job EXCEPT ![j] = NoJob] /\ UNCHANGED <<shown, status, settled, told, typed, corrected>>
        /\ excused' = excused \cup DOMAIN job[j].line
                      \cup (IF job[j].at \in {"announce", "tell"}
                            THEN {p \in Picks : p.round \in job[j].rounds} ELSE {})
    BY <1>4 DEF Dies
  <2>2. excused \subseteq excused' /\ \A p \in Picks : InTelling(j, p) => p \in excused'
    BY <2>1 DEF InTelling
  <2> QED
    BY <1>1, <2>1, <2>2, TheJobs
<1> QED
  BY <1>3, <1>4

LEMMA ResultsStep == ResultsInv /\ [ResultsNext]_resultVars => ResultsInv'
<1> SUFFICES ASSUME ResultsInv, [ResultsNext]_resultVars PROVE ResultsInv'
  OBVIOUS
<1>1. CASE UNCHANGED resultVars
  BY <1>1 DEF resultVars, ResultsInv, ResultsTypeOK, JobIsWellFormed, Decided, SettledIsDecided, Stands,
              VerdictIsEarned, IsTold, InTelling, CorrectionHolds, Selected
<1>2. CASE ResultsNext
  <2>1. (SweepAsks \/ SweepSelects \/ \E r \in Rounds : HandSelects(r)) => ResultsInv'
    BY SelectingStep
  <2>2. \A f \in Games : Closes(f) \/ CalledOff(f) \/ CorrectFixture(f) => ResultsInv'
    BY ProviderStep, CorrectFixtureStep
  <2>3. \A p \in Picks : CorrectPick(p) => ResultsInv'
    BY CorrectPickStep
  <2>4. \A j \in Jobs : Counts(j) \/ Commits(j) \/ ReadsLines(j) \/ ToldAll(j) \/ Dies(j) \/ Tells(j) => ResultsInv'
    BY CountsStep, CommitsStep, ReadsLinesStep, EndsStep, TellsStep
  <2> QED
    BY <1>2, <2>1, <2>2, <2>3, <2>4 DEF ResultsNext
<1> QED
  BY <1>1, <1>2

(* Every verdict, through overlapping settlements and corrections, rests on *)
(* a result that the provider shows or an operator typed in and that says   *)
(* so of the pick's own market; and a correction made while no settlement   *)
(* had the pick in hand holds (resolve_pick, settle_gameweek, correct_pick).*)
THEOREM EveryVerdictIsEarned == ResultsSpec => []ResultsAreEarned
<1>1. ResultsInv => ResultsAreEarned
  <2> SUFFICES ASSUME ResultsInv, NEW p \in Picks
               PROVE  /\ status[p] # "pending" => \E s \in {shown[p.fixture]} \cup typed[p.fixture] :
                                                      SaysOf(p, status[p], s)
                      /\ corrected[p] \in {"pending", status[p]}
    BY DEF ResultsAreEarned
  <2> QED
    BY DEF ResultsInv, VerdictIsEarned, CorrectionHolds
<1> QED
  BY <1>1, ResultsStart, ResultsStep, PTL DEF ResultsSpec

(* The last line a member was sent quotes their result as it stands, unless *)
(* one is on its way or the line is excused (_announce, CorrectFixture).    *)
THEOREM LastWordStands == ResultsSpec => []LastWordIsTold
<1>1. ResultsInv => LastWordIsTold
  BY DEF ResultsInv, IsTold, InTelling, LastWordIsTold
<1> QED
  BY <1>1, ResultsStart, ResultsStep, PTL DEF ResultsSpec

-----------------------------------------------------------------------------
(* What a call asks for: a finite set laid out as a sequence has as many    *)
(* requests as it has members, and names each of them.                      *)
LEMMA LaidOut ==
    ASSUME NEW S, IsFiniteSet(S)
    PROVE  /\ SetToSeq(S) \in Seq(S) /\ Len(SetToSeq(S)) = Cardinality(S) /\ Cardinality(S) \in Nat
           /\ S = {SetToSeq(S)[i] : i \in 1..Cardinality(S)}
<1> DEFINE n == Cardinality(S)
           q == SetToSeq(S)
<1>1. n \in Nat
  BY FS_CardinalityType
<1>2. \E f \in [1..n -> S] : IsInjective(f)
  <2>1. PICK m \in Nat : ExistsBijection(1..m, S)
    BY FS_NatBijection
  <2>2. m = n
    BY <2>1, FS_CountingElements
  <2> QED
    BY <2>1, <2>2 DEF ExistsBijection, Bijection, Injection
<1>3. q \in [1..n -> S] /\ IsInjective(q)
  BY <1>2 DEF SetToSeq
<1> HIDE DEF q
<1>4. q \in Seq(S) /\ Len(q) = n
  <2>1. q \in Seq(S)
    BY <1>1, <1>3, SeqDef
  <2>2. DOMAIN q = 1..Len(q) /\ Len(q) \in Nat
    BY <2>1, LenProperties
  <2> QED
    BY <1>1, <1>3, <2>1, <2>2
<1>5. S = {q[i] : i \in 1..n}
  <2> DEFINE T == {q[i] : i \in 1..n}
  <2>1. T \in SUBSET S
    BY <1>3
  <2>2. q \in Bijection(1..n, T)
    BY <1>3 DEF Bijection, Injection, Surjection, IsInjective
  <2>3. Cardinality(T) = n
    <3>1. ExistsBijection(1..n, T)
      BY <2>2 DEF ExistsBijection
    <3> HIDE DEF T
    <3> QED
      BY <1>1, <3>1, FS_CountingElements
  <2> HIDE DEF T
  <2>4. T = S
    BY <2>1, <2>3, FS_Subset
  <2> QED
    BY <2>4 DEF T
<1> QED
  BY <1>1, <1>4, <1>5 DEF q

LEMMA SequenceOf ==
    ASSUME NEW n \in Nat, NEW V, NEW f \in [1..n -> V]
    PROVE  f \in Seq(V) /\ Len(f) = n
<1>1. f \in Seq(V)
  BY SeqDef
<1>2. DOMAIN f = 1..Len(f) /\ Len(f) \in Nat
  BY <1>1, LenProperties
<1> QED
  BY <1>1, <1>2

LEMMA EachAlone ==
    ASSUME NEW S, IsFiniteSet(S)
    PROVE  /\ OneByOne(S) \in Seq(SUBSET S) /\ Len(OneByOne(S)) = Cardinality(S)
           /\ S = UNION {OneByOne(S)[i] : i \in 1..Cardinality(S)}
<1> DEFINE q == SetToSeq(S)
           n == Cardinality(S)
<1>1. q \in Seq(S) /\ Len(q) = n /\ n \in Nat /\ S = {q[i] : i \in 1..n}
  BY LaidOut
<1>2. OneByOne(S) = [i \in 1..n |-> {q[i]}]
  BY <1>1 DEF OneByOne
<1>3. \A i \in 1..n : q[i] \in S
  BY <1>1
<1> HIDE DEF q
<1>4. OneByOne(S) \in [1..n -> SUBSET S]
  BY <1>2, <1>3
<1>5. S = UNION {OneByOne(S)[i] : i \in 1..n}
  BY <1>1, <1>2
<1> QED
  BY <1>1, <1>4, <1>5, SequenceOf

LEMMA InBatches ==
    ASSUME NEW S, IsFiniteSet(S)
    PROVE  /\ Batches(S) \in Seq(SUBSET S)
           /\ Len(Batches(S)) = (Cardinality(S) + BatchSize - 1) \div BatchSize
           /\ (Cardinality(S) + BatchSize - 1) \div BatchSize \in Nat
<1> DEFINE q == SetToSeq(S)
           size == Cardinality(S)
           n == (size + BatchSize - 1) \div BatchSize
           upTo(i) == IF i * BatchSize < Len(q) THEN i * BatchSize ELSE Len(q)
<1>1. q \in Seq(S) /\ Len(q) = size /\ size \in Nat /\ BatchSize \in Nat \ {0}
  BY LaidOut, ProvidersAssumption
<1>2. n \in Nat
  <2>1. \A k \in Nat, b \in Nat \ {0} : k \div b \in Nat
    OBVIOUS
  <2>2. size + BatchSize - 1 \in Nat
    BY <1>1
  <2> QED
    BY <1>1, <2>1, <2>2
<1>3. Batches(S) = [i \in 1..n |-> ToSet(SubSeq(q, (i - 1) * BatchSize + 1, upTo(i)))]
  BY <1>1 DEF Batches
<1>4. ASSUME NEW i \in 1..n
      PROVE  ToSet(SubSeq(q, (i - 1) * BatchSize + 1, upTo(i))) \subseteq S
  <2> DEFINE a == (i - 1) * BatchSize + 1
             b == upTo(i)
  <2>1. a \in Nat \ {0} /\ b \in Int /\ b =< Len(q)
    <3>1. (i - 1) \in Nat /\ i \in Nat /\ n \in Nat
      BY <1>2
    <3>2. (i - 1) * BatchSize \in Nat /\ i * BatchSize \in Int
      BY <1>1, <3>1
    <3> QED
      BY <1>1, <3>2
  <2>2. \A k \in a..b : q[k] \in S
    <3> HIDE DEF q, a, b
    <3>1. \A k \in a..b : k \in 1..Len(q)
      BY <1>1, <2>1
    <3> QED
      BY <1>1, <3>1, ElementOfSeq
  <2>3. SubSeq(q, a, b) \in Seq(S)
    <3> HIDE DEF q, a, b
    <3> QED
      BY <2>1, <2>2, SubSeqProperties
  <2>4. \A s \in Seq(S) : ToSet(s) \subseteq S
    BY LenProperties, ElementOfSeq DEF ToSet
  <2> QED
    BY <2>3, <2>4
<1> HIDE DEF n, q, upTo
<1>5. Batches(S) \in [1..n -> SUBSET S]
  BY <1>3, <1>4
<1>6. Batches(S) \in Seq(SUBSET S) /\ Len(Batches(S)) = n
  BY <1>2, <1>5, SequenceOf
<1> QED
  BY <1>2, <1>6 DEF n

Parts(s) == UNION {s[i] : i \in 1..Len(s)}
LEMMA WhatIsPlanned ==
    ASSUME source \in {"odds-api", "exchange"}, NEW op \in Ops, NEW A, A \subseteq Subjects(op)
    PROVE  /\ Planned(op, A) \in Seq(SUBSET A) /\ Planable(op, A) \in Nat
           /\ Len(Planned(op, A)) =< Planable(op, A)
           /\ op = "settle" => Parts(Planned(op, A)) = A
<1>1. IsFiniteSet(A)
  <2>1. IsFiniteSet(Subjects(op))
    BY ProvidersAssumption DEF Subjects
  <2> QED
    BY <2>1, FS_Subset
<1> DEFINE one == OneByOne(A)
           n == Cardinality(A)
<1>2. one \in Seq(SUBSET A) /\ Len(one) = n /\ n \in Nat /\ A = UNION {one[i] : i \in 1..n}
  BY <1>1, EachAlone, LaidOut
<1> HIDE DEF one
<1>3. CASE op = "slate"
  <2>1. <<Catalogue>> \in Seq(SUBSET A) /\ Len(<<Catalogue>>) = 1
    BY DEF Catalogue
  <2>2. <<Catalogue>> \o one \in Seq(SUBSET A) /\ Len(<<Catalogue>> \o one) = 1 + n
    BY <1>2, <2>1, ConcatProperties
  <2>3. Planned(op, A) \in {one, <<Catalogue>> \o one}
    BY <1>3 DEF Planned, ExchangePlan, one
  <2>4. Planable(op, A) = 1 + n
    BY <1>3 DEF Planable
  <2>5. CASE Planned(op, A) = one
    BY <1>2, <1>3, <2>4, <2>5
  <2>6. CASE Planned(op, A) = <<Catalogue>> \o one
    <3>1. Planned(op, A) \in Seq(SUBSET A) /\ Len(Planned(op, A)) = 1 + n
      BY <2>2, <2>6
    <3> QED
      BY <1>2, <1>3, <2>4, <3>1
  <2> QED
    BY <2>3, <2>5, <2>6
<1>4. CASE op # "slate" /\ source = "exchange"
  <2>1. Planned(op, A) = <<Catalogue, A>> /\ Planable(op, A) = 2
    BY <1>4 DEF Planned, ExchangePlan, Planable
  <2>2. <<Catalogue, A>> \in Seq(SUBSET A) /\ Len(<<Catalogue, A>>) = 2
    BY DEF Catalogue
  <2>3. UNION {<<Catalogue, A>>[i] : i \in 1..2} = A
    BY DEF Catalogue
  <2> QED
    BY <2>1, <2>2, <2>3 DEF Parts
<1>5. CASE op = "odds" /\ source # "exchange"
  <2>1. Planned(op, A) = Batches(A) /\ Planable(op, A) = (n + BatchSize - 1) \div BatchSize
    BY <1>5 DEF Planned, Planable
  <2> HIDE DEF n
  <2>2. Batches(A) \in Seq(SUBSET A) /\ Len(Batches(A)) = Planable(op, A) /\ Planable(op, A) \in Nat
    BY <1>1, <2>1, InBatches DEF n
  <2> QED
    BY <1>5, <2>1, <2>2
<1>6. CASE op = "settle" /\ source # "exchange"
  <2>1. Planned(op, A) = one /\ Planable(op, A) = n
    BY <1>6 DEF Planned, Planable, one
  <2> QED
    BY <1>2, <2>1 DEF Parts
<1> QED
  BY <1>3, <1>4, <1>5, <1>6 DEF Ops

LEMMA PlanableIsNatural ==
    ASSUME NEW op \in Ops, NEW A, A \subseteq Subjects(op)
    PROVE  Planable(op, A) \in Nat
<1>1. IsFiniteSet(A)
  <2>1. IsFiniteSet(Subjects(op))
    BY ProvidersAssumption DEF Subjects
  <2> QED
    BY <2>1, FS_Subset
<1>2. Cardinality(A) \in Nat /\ (Cardinality(A) + BatchSize - 1) \div BatchSize \in Nat
  BY <1>1, FS_CardinalityType, InBatches
<1> HIDE DEF Planable
<1>3. /\ op = "slate" => Planable(op, A) = 1 + Cardinality(A)
      /\ op # "slate" => Planable(op, A) \in {2, (Cardinality(A) + BatchSize - 1) \div BatchSize,
                                             Cardinality(A)}
  BY DEF Planable
<1> QED
  BY <1>2, <1>3

LEMMA FirstAndRest ==
    ASSUME NEW V, NEW s \in Seq(V), s # <<>>
    PROVE  /\ Head(s) \in V /\ Tail(s) \in Seq(V) /\ Len(s) \in Nat \ {0} /\ Len(Tail(s)) = Len(s) - 1
           /\ Parts(s) = Head(s) \cup Parts(Tail(s))
<1>1. Head(s) \in V /\ Tail(s) \in Seq(V) /\ Len(s) \in Nat \ {0} /\ Len(Tail(s)) = Len(s) - 1
      /\ \A i \in 1..Len(Tail(s)) : Tail(s)[i] = s[i + 1]
  BY HeadTailProperties, EmptySeq
<1>2. Head(s) = s[1]
  BY <1>1
<1>3. Parts(s) \subseteq Head(s) \cup Parts(Tail(s))
  <2> SUFFICES ASSUME NEW i \in 1..Len(s), NEW x \in s[i] PROVE x \in Head(s) \cup Parts(Tail(s))
    BY DEF Parts
  <2>1. CASE i = 1
    BY <1>2, <2>1
  <2>2. CASE i # 1
    <3>1. i - 1 \in 1..Len(Tail(s)) /\ Tail(s)[i - 1] = s[i]
      BY <1>1, <2>2
    <3> QED
      BY <3>1 DEF Parts
  <2> QED
    BY <2>1, <2>2
<1>4. Head(s) \cup Parts(Tail(s)) \subseteq Parts(s)
  <2>1. 1 \in 1..Len(s) /\ \A i \in 1..Len(Tail(s)) : i + 1 \in 1..Len(s)
    BY <1>1
  <2> QED
    BY <1>1, <1>2, <2>1 DEF Parts
<1> QED
  BY <1>1, <1>3, <1>4

-----------------------------------------------------------------------------
Phases == {"scheduled", "live", "ended", "off"}
GameStates == [phase : Phases, score : FinalScores \cup {<<0, 0>>}, posted : BOOLEAN]
Sessions == [number : Nat, token : {"none", "live", "lapsed"}, leagues : BOOLEAN]
Everything == Fixtures \cup Competitions
Replies == UNION {[S -> Settlements] : S \in SUBSET Everything}
(* What is always so of a call: it names requests of its own kind, answers  *)
(* are of what it asked about, and what is not yet begun has spent nothing. *)
Places == {"idle", "waits", "login", "keeps", "acquired", "calls", "done"}
CallRecords ==
    [at : Places, op : Ops \cup {"none"}, asked : SUBSET Everything, todo : Seq(SUBSET Everything),
     got : Replies, tries : Nat, sent : Nat, limited : Nat, number : Nat]
Unspent(r) == r.todo = <<>> /\ r.got = <<>> /\ r.tries = 0 /\ r.sent = 0 /\ r.limited = 0
InForm(r) ==
    /\ (r.at = "idle") <=> (r.op = "none")
    /\ r.at = "idle" => r.asked = {}
    /\ r.op # "none" => r.asked \subseteq Subjects(r.op)
    /\ r.todo \in Seq(SUBSET r.asked) /\ DOMAIN r.got \subseteq r.asked
    /\ r.at \notin {"calls", "done"} => Unspent(r)
    /\ r.at = "calls" => r.number > 0

(* A request still to come may yet take all its tries; the one under way    *)
(* has those it has not used.                                               *)
Tries == 1 + MaxRetries
Share(r) == Tries * Planable(r.op, r.asked)
WithinShare(r) ==
    /\ r.at = "calls" =>
           /\ r.tries =< MaxRetries /\ (r.todo = <<>> => r.tries = 0)
           /\ r.sent - r.tries + Tries * Len(r.todo) =< Share(r)
           /\ source = "odds-api" => r.limited = 0
    /\ r.at = "done" => r.sent =< Share(r) /\ (source = "odds-api" => r.limited =< 1)

(* The session is established under its lock.                               *)
SessionHeld ==
    /\ \A c \in Callers : caller[c].at \in {"login", "keeps", "acquired"} => holder = c
    /\ \A c \in Callers : caller[c].at = "login" => client = NoClient
    /\ \A c \in Callers : caller[c].at \in {"keeps", "acquired"} => client # NoClient
    /\ client # NoClient => client.number > 0
    /\ client = NoClient => logins =< lapses
    /\ logins =< 1 + lapses

(* An answer is true of the game it is about, and stays true.               *)
TrueOf(f, s) ==
    /\ s.void => game[f].phase = "off"
    /\ s.markets # {} => game[f].phase \in {"ended", "off"}
    /\ \A o \in s.won : game[f].phase = "ended" /\ o \in Winners(game[f].score)
    /\ \A o \in Selections : Loses(o, s) =>
           /\ game[f].phase = "ended"
           /\ o \in Winners(game[f].score) => NamesNoWinner(s, MarketOf(o))
Truthful(r) ==
    r.op = "settle" =>
        /\ \A f \in DOMAIN r.got : TrueOf(f, r.got[f])
        /\ r.at = "calls" => r.asked = DOMAIN r.got \cup Parts(r.todo)

ProvidersTypeOK ==
    /\ source \in {"odds-api", "exchange"}
    /\ game \in [Fixtures -> GameStates]
    /\ closed \in [Fixtures -> SUBSET Markets]
    /\ runner \in [Fixtures -> [Selections -> {"active", "winner", "loser", "removed"}]]
    /\ client \in Sessions
    /\ caller \in [Callers -> CallRecords]
    /\ logins \in Nat /\ lapses \in Nat

(* What the books of closed markets show is true of a game that is over: a  *)
(* selection that won but is not named lost with every other of its market. *)
BooksAreTrue(f) ==
    /\ closed[f] # {} => game[f].phase \in {"ended", "off"}
    /\ \A o \in RunnersOf(f, {"winner"}) : game[f].phase = "ended" /\ o \in Winners(game[f].score)
    /\ \A o \in RunnersOf(f, {"active", "loser"}) :
           /\ game[f].phase = "ended"
           /\ o \in Winners(game[f].score) =>
                  \A w \in RunnersOf(f, {"winner"}) : MarketOf(w) # MarketOf(o)
ProvidersInv ==
    /\ ProvidersTypeOK /\ SessionHeld
    /\ \A c \in Callers : InForm(caller[c]) /\ WithinShare(caller[c]) /\ Truthful(caller[c])
    /\ \A f \in Fixtures : BooksAreTrue(f)

LEMMA NothingYet == <<>> \in Replies /\ DOMAIN <<>> = {} /\ Parts(<<>>) = {}
<1>1. <<>> \in [{} -> Settlements]
  OBVIOUS
<1>2. Len(<<>>) = 0
  OBVIOUS
<1> QED
  BY <1>1, <1>2 DEF Replies, Parts

LEMMA TheFirstCall ==
    /\ Idle \in CallRecords /\ InForm(Idle) /\ WithinShare(Idle) /\ Truthful(Idle)
<1>1. Idle \in CallRecords
  BY NothingYet DEF Idle, CallRecords, Places, Ops
<1> QED
  BY <1>1, NothingYet DEF Idle, InForm, WithinShare, Truthful, Unspent, Ops

LEMMA ProvidersBegin == ProvidersInit => ProvidersInv
<1> SUFFICES ASSUME ProvidersInit PROVE ProvidersInv
  OBVIOUS
<1>1. /\ game \in [Fixtures -> GameStates] /\ closed \in [Fixtures -> SUBSET Markets]
      /\ runner \in [Fixtures -> [Selections -> {"active", "winner", "loser", "removed"}]]
  BY DEF ProvidersInit, GameStates, Phases
<1>2. client \in Sessions /\ client = NoClient /\ logins = 0 /\ lapses = 0
  BY DEF ProvidersInit, NoClient, Sessions
<1>3. \A c \in Callers : caller[c] = Idle
  BY DEF ProvidersInit
<1>4. caller \in [Callers -> CallRecords]
  BY TheFirstCall DEF ProvidersInit
<1>5. ProvidersTypeOK
  BY <1>1, <1>2, <1>4 DEF ProvidersInit, ProvidersTypeOK
<1>6. SessionHeld
  BY <1>2, <1>3 DEF SessionHeld, Idle
<1>7. \A f \in Fixtures : BooksAreTrue(f)
  BY DEF ProvidersInit, BooksAreTrue, RunnersOf
<1> QED
  BY <1>3, <1>5, <1>6, <1>7, TheFirstCall DEF ProvidersInv

(* A step of one caller's call leaves every other call as it is.            *)
LEMMA OneCallMoves ==
    ASSUME ProvidersInv, NEW c \in Callers, NEW r \in CallRecords,
           caller' = [caller EXCEPT ![c] = r], source' = source, game' = game,
           InForm(r), WithinShare(r), Truthful(r)
    PROVE  /\ caller' \in [Callers -> CallRecords] /\ caller'[c] = r
           /\ \A d \in Callers \ {c} : caller'[d] = caller[d]
           /\ \A d \in Callers : (InForm(caller[d]) /\ WithinShare(caller[d]) /\ Truthful(caller[d]))'
<1>1. /\ caller' \in [Callers -> CallRecords] /\ caller'[c] = r
      /\ \A d \in Callers \ {c} : caller'[d] = caller[d]
  BY DEF ProvidersInv, ProvidersTypeOK
<1>2. \A d \in Callers : InForm(caller'[d]) /\ WithinShare(caller'[d]) /\ Truthful(caller'[d])
  BY <1>1 DEF ProvidersInv
<1>3. \A d \in Callers : InForm(caller[d])'
  BY <1>2 DEF InForm, Unspent, Subjects
<1>4. \A d \in Callers : WithinShare(caller[d])'
  BY <1>2 DEF WithinShare, Share, Planable
<1>5. \A d \in Callers : Truthful(caller[d])'
  BY <1>2 DEF Truthful, TrueOf, NamesNoWinner
<1> QED
  BY <1>1, <1>3, <1>4, <1>5

LEMMA SharesCount ==
    /\ Tries \in Nat \ {0} /\ MaxRetries \in Nat
    /\ \A r \in CallRecords : InForm(r) /\ r.op # "none" => Share(r) \in Nat /\ Planable(r.op, r.asked) \in Nat
<1>1. Tries \in Nat \ {0} /\ MaxRetries \in Nat
  BY ProvidersAssumption DEF Tries
<1>2. ASSUME NEW r \in CallRecords, InForm(r), r.op # "none"
      PROVE  Share(r) \in Nat /\ Planable(r.op, r.asked) \in Nat
  <2>1. r.op \in Ops /\ r.asked \subseteq Subjects(r.op)
    BY <1>2 DEF CallRecords, InForm
  <2>2. Planable(r.op, r.asked) \in Nat
    BY <2>1, PlanableIsNatural
  <2> QED
    BY <1>1, <2>2 DEF Share
<1> QED
  BY <1>1, <1>2

LEMMA BooksStay ==
    ASSUME ProvidersInv, UNCHANGED <<game, closed, runner>>
    PROVE  \A f \in Fixtures : BooksAreTrue(f)'
<1>1. \A f \in Fixtures : BooksAreTrue(f)
  BY DEF ProvidersInv
<1> QED
  BY <1>1 DEF BooksAreTrue, RunnersOf

(* A request nobody touches stays in form and within its share.             *)
LEMMA CallsStay ==
    ASSUME ProvidersInv, UNCHANGED <<caller, source>>
    PROVE  \A c \in Callers : (InForm(caller[c]) /\ WithinShare(caller[c]))'
<1>1. \A c \in Callers : InForm(caller[c]) /\ WithinShare(caller[c])
  BY DEF ProvidersInv
<1>2. \A c \in Callers : InForm(caller[c])'
  BY <1>1 DEF InForm, Unspent
<1>3. \A c \in Callers : WithinShare(caller[c])'
  <2>1. \A op, A : Planable(op, A)' = Planable(op, A)
    BY DEF Planable
  <2> QED
    BY <1>1, <2>1, SMTT(30) DEF WithinShare, Share
<1> QED
  BY <1>2, <1>3

(* Games move on: nothing that was true of a result ceases to be.           *)
LEMMA TruthLasts ==
    ASSUME ProvidersInv, NEW f \in Fixtures, NEW g \in GameStates, game' = [game EXCEPT ![f] = g],
           \/ game[f].phase \in {"scheduled", "live"}
           \/ g.phase = game[f].phase /\ g.score = game[f].score,
           UNCHANGED <<source, closed, runner, client, holder, caller, logins, lapses>>
    PROVE  ProvidersInv'
<1>1. /\ game' \in [Fixtures -> GameStates] /\ game'[f] = g
      /\ \A e \in Fixtures \ {f} : game'[e] = game[e]
  BY DEF ProvidersInv, ProvidersTypeOK
<1>2. ProvidersTypeOK'
  BY <1>1 DEF ProvidersInv, ProvidersTypeOK
<1>3. SessionHeld'
  BY DEF ProvidersInv, SessionHeld
<1>4. ASSUME NEW c \in Callers
      PROVE  (InForm(caller[c]) /\ WithinShare(caller[c]) /\ Truthful(caller[c]))'
  <2>1. InForm(caller[c])' /\ WithinShare(caller[c])'
    BY DEF ProvidersInv, InForm, Unspent, WithinShare, Share, Planable
  <2>2. ASSUME caller[c].op = "settle", NEW e \in DOMAIN caller[c].got
        PROVE  TrueOf(e, caller[c].got[e])'
    <3>1. TrueOf(e, caller[c].got[e])
      BY <2>2 DEF ProvidersInv, Truthful
    <3>2. e \in Fixtures
      BY <2>2 DEF ProvidersInv, InForm, Subjects
    <3>3. CASE e # f
      BY <1>1, <3>1, <3>2, <3>3 DEF TrueOf, NamesNoWinner
    <3>4. CASE e = f /\ g.phase = game[f].phase /\ g.score = game[f].score
      BY <1>1, <3>1, <3>4 DEF TrueOf, NamesNoWinner
    <3>5. CASE e = f /\ game[f].phase \in {"scheduled", "live"}
      <4>1. game[f].phase # "off" /\ game[f].phase # "ended"
        BY <3>5
      <4>2. ~caller[c].got[e].void /\ caller[c].got[e].markets = {} /\ caller[c].got[e].won = {}
        BY <3>1, <3>5, <4>1 DEF TrueOf
      <4> QED
        BY <4>2 DEF TrueOf, Loses
    <3> QED
      BY <3>3, <3>4, <3>5
  <2>3. Truthful(caller[c])'
    BY <2>2 DEF ProvidersInv, Truthful, Parts
  <2> QED
    BY <2>1, <2>3
<1>5. ASSUME NEW e \in Fixtures PROVE BooksAreTrue(e)'
  <2>1. BooksAreTrue(e) /\ closed' = closed /\ runner' = runner
    BY DEF ProvidersInv
  <2>2. CASE game'[e].phase = game[e].phase /\ game'[e].score = game[e].score
    BY <2>1, <2>2 DEF BooksAreTrue, RunnersOf
  <2>3. CASE game[e].phase \in {"scheduled", "live"}
    <3>1. closed[e] = {}
      BY <2>1, <2>3 DEF BooksAreTrue
    <3> QED
      BY <2>1, <3>1 DEF BooksAreTrue, RunnersOf
  <2> QED
    BY <1>1, <2>2, <2>3
<1> QED
  BY <1>2, <1>3, <1>4, <1>5 DEF ProvidersInv

LEMMA BooksClose ==
    ASSUME ProvidersInv, NEW f \in Fixtures, MarketCloses(f)
    PROVE  ProvidersInv'
<1> DEFINE here(m) == {o \in Selections : MarketOf(o) = m}
           book(m, named, out) ==
               [o \in Selections |->
                   IF o \notin here(m) THEN runner[f][o] ELSE IF o \in out THEN "removed"
                   ELSE IF named /\ o \in Winners(game[f].score) THEN "winner" ELSE "loser"]
<1>0. PICK m \in Markets \ closed[f], named \in BOOLEAN : \E out \in SUBSET here(m) :
          /\ game[f].phase = "off" => out = here(m)
          /\ closed' = [closed EXCEPT ![f] = @ \cup {m}]
          /\ runner' = [runner EXCEPT ![f] = book(m, named, out)]
  BY DEF MarketCloses
<1>1. PICK out \in SUBSET here(m) :
          /\ game[f].phase = "off" => out = here(m)
          /\ closed' = [closed EXCEPT ![f] = @ \cup {m}]
          /\ runner' = [runner EXCEPT ![f] = book(m, named, out)]
  BY <1>0
<1> DEFINE shows == book(m, named, out)
<1>2. /\ game[f].phase \in {"ended", "off"}
      /\ UNCHANGED <<source, game, client, stale, holder, caller, logins, lapses>>
  BY DEF MarketCloses
<1>3. /\ closed \in [Fixtures -> SUBSET Markets]
      /\ runner \in [Fixtures -> [Selections -> {"active", "winner", "loser", "removed"}]]
  BY DEF ProvidersInv, ProvidersTypeOK
<1>4. shows \in [Selections -> {"active", "winner", "loser", "removed"}]
  BY <1>3
<1>5. closed' \in [Fixtures -> SUBSET Markets] /\ closed'[f] = closed[f] \cup {m} /\ runner'[f] = shows
      /\ runner' \in [Fixtures -> [Selections -> {"active", "winner", "loser", "removed"}]]
      /\ \A e \in Fixtures \ {f} : closed'[e] = closed[e] /\ runner'[e] = runner[e]
  BY <1>1, <1>3, <1>4
<1>6. ProvidersTypeOK' /\ SessionHeld'
  BY <1>2, <1>5 DEF ProvidersInv, ProvidersTypeOK, SessionHeld
<1>7. \A o \in Selections :
          /\ MarketOf(o) # m => shows[o] = runner[f][o]
          /\ MarketOf(o) = m => /\ shows[o] \in {"winner", "loser", "removed"}
                                /\ shows[o] = "winner" => named /\ o \in Winners(game[f].score)
                                /\ (shows[o] = "loser" /\ named) => o \notin Winners(game[f].score)
                                /\ game[f].phase = "off" => shows[o] = "removed"
  BY <1>1
<1> HIDE DEF shows
<1>8. ASSUME NEW e \in Fixtures PROVE BooksAreTrue(e)'
  <2>1. BooksAreTrue(e)
    BY DEF ProvidersInv
  <2>2. CASE e # f
    BY <1>2, <1>5, <2>1, <2>2 DEF BooksAreTrue, RunnersOf
  <2>3. CASE e = f
    <3>1. \A o \in Selections : MarketOf(o) \in closed'[f] <=> MarketOf(o) \in closed[f] \/ MarketOf(o) = m
      BY <1>5
    <3>2. \A o \in Selections : \A S : o \in RunnersOf(f, S)' <=>
              IF MarketOf(o) = m THEN shows[o] \in S ELSE o \in RunnersOf(f, S)
      BY <1>1, <1>5, <1>7, <3>1 DEF RunnersOf
    <3>3. ASSUME NEW o \in RunnersOf(f, {"winner"})'
          PROVE  game[f].phase = "ended" /\ o \in Winners(game[f].score)
      <4>1. o \in Selections
        BY DEF RunnersOf
      <4> QED
        BY <1>2, <1>7, <2>1, <2>3, <3>2, <3>3, <4>1 DEF BooksAreTrue
    <3>4. ASSUME NEW o \in RunnersOf(f, {"active", "loser"})'
          PROVE  /\ game[f].phase = "ended"
                 /\ o \in Winners(game[f].score) =>
                        \A w \in RunnersOf(f, {"winner"})' : MarketOf(w) # MarketOf(o)
      <4>1. o \in Selections /\ \A w \in RunnersOf(f, {"winner"})' : w \in Selections
        BY DEF RunnersOf
      <4>2. CASE MarketOf(o) = m
        BY <1>2, <1>7, <3>2, <3>4, <4>1, <4>2
      <4>3. CASE MarketOf(o) # m
        <5>1. o \in RunnersOf(f, {"active", "loser"})
          BY <3>2, <3>4, <4>1, <4>3
        <5>2. \A w \in RunnersOf(f, {"winner"})' : MarketOf(w) = MarketOf(o) => w \in RunnersOf(f, {"winner"})
          BY <3>2, <4>1, <4>3
        <5> QED
          BY <2>1, <2>3, <5>1, <5>2 DEF BooksAreTrue
      <4> QED
        BY <4>2, <4>3
    <3> QED
      BY <1>2, <2>3, <3>3, <3>4 DEF BooksAreTrue
  <2> QED
    BY <2>2, <2>3
<1>9. \A c \in Callers : (InForm(caller[c]) /\ WithinShare(caller[c]))'
  BY <1>2, CallsStay
<1>10. \A c \in Callers : Truthful(caller[c])'
  BY <1>2 DEF ProvidersInv, Truthful, TrueOf, NamesNoWinner, Parts
<1> QED
  BY <1>6, <1>8, <1>9, <1>10 DEF ProvidersInv

LEMMA GamesGoOn ==
    ASSUME ProvidersInv, NEW f \in Fixtures, GameMoves(f) \/ ScorePosted(f) \/ MarketCloses(f)
    PROVE  ProvidersInv'
<1>1. game \in [Fixtures -> GameStates]
  BY DEF ProvidersInv, ProvidersTypeOK
<1>2. CASE GameMoves(f)
  <2>1. PICK g \in [phase : {"live"}, score : FinalScores \cup {<<0, 0>>}, posted : {TRUE}]
              \cup [phase : {"ended"}, score : FinalScores, posted : {FALSE}]
              \cup [phase : {"off"}, score : {game[f].score}, posted : {FALSE}] :
              game' = [game EXCEPT ![f] = g]
    BY <1>2 DEF GameMoves
  <2>2. game[f].score \in FinalScores \cup {<<0, 0>>}
    BY <1>1 DEF GameStates
  <2>3. g \in GameStates
    BY <2>2 DEF GameStates, Phases
  <2> QED
    BY <1>2, <2>1, <2>3, TruthLasts DEF GameMoves
<1>3. CASE ScorePosted(f)
  <2> DEFINE g == [game[f] EXCEPT !.posted = TRUE]
  <2>1. game[f] \in GameStates
    BY <1>1
  <2>2. g \in GameStates /\ g.phase = game[f].phase /\ g.score = game[f].score
    BY <2>1 DEF GameStates
  <2>3. game' = [game EXCEPT ![f] = g]
    BY <1>3 DEF ScorePosted
  <2> HIDE DEF g
  <2> QED
    BY <1>3, <2>2, <2>3, TruthLasts DEF ScorePosted
<1>4. CASE MarketCloses(f)
  BY <1>4, BooksClose
<1> QED
  BY <1>2, <1>3, <1>4

LEMMA SessionsAge ==
    ASSUME ProvidersInv, SessionAges
    PROVE  ProvidersInv'
<1>1. client \in Sessions /\ client # NoClient /\ client.number > 0
  BY DEF SessionAges, Live, ProvidersInv, ProvidersTypeOK, SessionHeld
<1>2. client' \in Sessions /\ client'.number = client.number
  BY <1>1 DEF SessionAges, Sessions
<1>3. client' # NoClient
  BY <1>1, <1>2 DEF NoClient
<1>4. ProvidersTypeOK' /\ SessionHeld'
  BY <1>1, <1>2, <1>3 DEF SessionAges, ProvidersInv, ProvidersTypeOK, SessionHeld
<1>5. \A c \in Callers : (InForm(caller[c]) /\ WithinShare(caller[c]))'
  BY CallsStay DEF SessionAges
<1>6. \A c \in Callers : Truthful(caller[c])'
  BY DEF SessionAges, ProvidersInv, Truthful, TrueOf, NamesNoWinner, Parts
<1>7. \A f \in Fixtures : BooksAreTrue(f)'
  BY BooksStay DEF SessionAges, ProvidersInv
<1> QED
  BY <1>4, <1>5, <1>6, <1>7 DEF ProvidersInv

LEMMA ACallIsMade ==
    ASSUME ProvidersInv, NEW c \in Callers, NEW op \in Ops, Calls(c, op)
    PROVE  ProvidersInv'
<1>1. PICK A \in SUBSET Subjects(op) :
          caller' = [caller EXCEPT ![c] = [Idle EXCEPT !.at = "waits", !.op = op, !.asked = A]]
  BY DEF Calls
<1> DEFINE r == [Idle EXCEPT !.at = "waits", !.op = op, !.asked = A]
<1>2. r.at = "waits" /\ r.op = op /\ op # "none" /\ r.asked = A /\ Unspent(r)
  BY DEF Idle, Unspent, Ops
<1>3. r \in CallRecords
  <2>1. A \in SUBSET Everything
    BY DEF Subjects, Everything
  <2>2. Idle \in CallRecords
    BY TheFirstCall
  <2> QED
    BY <2>1, <2>2 DEF CallRecords, Places
<1> HIDE DEF r
<1>4. InForm(r) /\ WithinShare(r) /\ Truthful(r)
  BY <1>2, NothingYet DEF InForm, WithinShare, Truthful, Unspent
<1>5. /\ caller' \in [Callers -> CallRecords] /\ caller'[c] = r
      /\ \A d \in Callers \ {c} : caller'[d] = caller[d]
      /\ \A d \in Callers : (InForm(caller[d]) /\ WithinShare(caller[d]) /\ Truthful(caller[d]))'
  <2>1. caller' = [caller EXCEPT ![c] = r] /\ source' = source /\ game' = game
    BY <1>1 DEF Calls, r
  <2> QED
    BY <1>3, <1>4, <2>1, OneCallMoves
<1>6. SessionHeld'
  BY <1>2, <1>5 DEF Calls, ProvidersInv, SessionHeld, NoClient
<1>7. ProvidersTypeOK' /\ \A f \in Fixtures : BooksAreTrue(f)'
  BY <1>5, BooksStay DEF Calls, ProvidersInv, ProvidersTypeOK
<1> QED
  BY <1>5, <1>6, <1>7 DEF ProvidersInv

(* On its way to the session a call has sent nothing.                       *)
LEMMA OnTheWay ==
    ASSUME ProvidersInv, NEW c \in Callers, caller[c].at \in {"waits", "login", "keeps"},
           NEW to \in {"login", "keeps", "acquired", "done"}, Goes(c, to),
           source' = source, game' = game
    PROVE  /\ caller' \in [Callers -> CallRecords] /\ caller'[c].at = to
           /\ \A d \in Callers \ {c} : caller'[d] = caller[d]
           /\ \A d \in Callers : (InForm(caller[d]) /\ WithinShare(caller[d]) /\ Truthful(caller[d]))'
<1> DEFINE mine == caller[c]
           r == [mine EXCEPT !.at = to]
<1>1. mine \in CallRecords /\ InForm(mine) /\ mine.op # "none" /\ Unspent(mine)
  BY DEF ProvidersInv, ProvidersTypeOK, InForm
<1>2. r \in CallRecords /\ r.at = to /\ r.op = mine.op /\ r.asked = mine.asked /\ Unspent(r)
  BY <1>1 DEF CallRecords, Places, Unspent
<1>3. caller' = [caller EXCEPT ![c] = r]
  BY DEF Goes
<1> HIDE DEF r, mine
<1>4. InForm(r)
  BY <1>1, <1>2 DEF InForm, Unspent
<1>5. WithinShare(r)
  BY <1>1, <1>2, <1>4, SharesCount DEF WithinShare, Unspent
<1>6. Truthful(r)
  BY <1>2, NothingYet DEF Truthful, Unspent
<1> QED
  BY <1>2, <1>3, <1>4, <1>5, <1>6, OneCallMoves

LEMMA TheSessionIsHad ==
    ASSUME ProvidersInv, NEW c \in Callers,
           TakesLock(c) \/ LogsIn(c) \/ LoginFails(c) \/ KeepsAlive(c) \/ KeepAliveFails(c)
    PROVE  ProvidersInv'
<1> DEFINE Others == /\ caller' \in [Callers -> CallRecords]
                     /\ \A d \in Callers \ {c} : caller'[d] = caller[d]
                     /\ \A d \in Callers :
                            (InForm(caller[d]) /\ WithinShare(caller[d]) /\ Truthful(caller[d]))'
<1>0. client \in Sessions /\ logins \in Nat /\ lapses \in Nat /\ holder = holder
  BY DEF ProvidersInv, ProvidersTypeOK
<1>1. \A f \in Fixtures : BooksAreTrue(f)'
  BY BooksStay DEF TakesLock, LogsIn, LoginFails, KeepsAlive, KeepAliveFails
<1>2. CASE TakesLock(c)
  <2> DEFINE to == IF ~Live THEN "login" ELSE IF stale THEN "keeps" ELSE "acquired"
  <2>1. Others /\ caller'[c].at = to
    BY <1>2, OnTheWay DEF TakesLock
  <2>2. SessionHeld'
    BY <1>2, <2>1, ProvidersAssumption DEF TakesLock, ProvidersInv, SessionHeld, Live
  <2> QED
    BY <1>1, <1>2, <2>1, <2>2 DEF TakesLock, ProvidersInv, ProvidersTypeOK
<1>3. CASE LogsIn(c)
  <2>1. Others /\ caller'[c].at = "acquired"
    BY <1>3, OnTheWay DEF LogsIn
  <2>2. client' \in Sessions /\ client'.number = logins + 1
    <3>1. client' = [number |-> logins + 1, token |-> IF source = "exchange" THEN "live" ELSE "none",
                     leagues |-> FALSE]
      BY <1>3 DEF LogsIn, NoClient
    <3> QED
      BY <1>0, <3>1 DEF Sessions
  <2>3. client' # NoClient /\ client'.number > 0
    BY <1>0, <2>2 DEF NoClient
  <2>4. SessionHeld'
    BY <1>0, <1>3, <2>1, <2>3 DEF LogsIn, ProvidersInv, SessionHeld
  <2> QED
    BY <1>0, <1>1, <1>3, <2>1, <2>2, <2>4 DEF LogsIn, ProvidersInv, ProvidersTypeOK
<1>4. CASE LoginFails(c)
  <2>1. Others /\ caller'[c].at = "done"
    BY <1>4, OnTheWay DEF LoginFails
  <2>2. SessionHeld'
    BY <1>0, <1>4, <2>1 DEF LoginFails, ProvidersInv, SessionHeld
  <2> QED
    BY <1>0, <1>1, <1>4, <2>1, <2>2 DEF LoginFails, ProvidersInv, ProvidersTypeOK
<1>5. CASE KeepsAlive(c)
  <2>1. Others /\ caller'[c].at = "acquired"
    BY <1>5, OnTheWay DEF KeepsAlive
  <2>2. SessionHeld'
    BY <1>0, <1>5, <2>1 DEF KeepsAlive, ProvidersInv, SessionHeld
  <2> QED
    BY <1>1, <1>5, <2>1, <2>2 DEF KeepsAlive, ProvidersInv, ProvidersTypeOK
<1>6. CASE KeepAliveFails(c)
  <2>1. Others /\ caller'[c].at = "login"
    BY <1>6, OnTheWay DEF KeepAliveFails
  <2>2. NoClient \in Sessions
    BY DEF NoClient, Sessions
  <2>3. SessionHeld'
    BY <1>0, <1>6, <2>1 DEF KeepAliveFails, ProvidersInv, SessionHeld
  <2> QED
    BY <1>0, <1>1, <1>6, <2>1, <2>2, <2>3 DEF KeepAliveFails, ProvidersInv, ProvidersTypeOK
<1> QED
  BY <1>2, <1>3, <1>4, <1>5, <1>6

LEMMA Products ==
    ASSUME NEW k \in Nat
    PROVE  /\ \A a \in Nat : k * a \in Nat
           /\ \A a \in Nat, b \in Nat : a =< b => k * a =< k * b
           /\ \A a \in Nat \ {0} : k * (a - 1) = k * a - k
<1>1. \A a \in Nat : k * a \in Nat
  OBVIOUS
<1>2. ASSUME NEW a \in Nat, NEW b \in Nat, a =< b PROVE k * a =< k * b
  <2>1. PICK d \in Nat : b = a + d
    <3>1. b - a \in Nat /\ b = a + (b - a)
      BY <1>2
    <3> QED
      BY <3>1
  <2>2. k * b = k * a + k * d
    BY <2>1
  <2>3. k * a \in Nat /\ k * d \in Nat
    BY <1>1
  <2> QED
    BY <2>2, <2>3
<1>3. ASSUME NEW a \in Nat \ {0} PROVE k * (a - 1) = k * a - k
  OBVIOUS
<1> QED
  BY <1>1, <1>2, <1>3

(* Once a call has begun, or has ended, it neither holds nor wants the      *)
(* lock.                                                                    *)
LEMMA LockLeftAlone ==
    ASSUME ProvidersInv, NEW c \in Callers, caller'[c].at \in {"calls", "done"},
           \A d \in Callers \ {c} : caller'[d] = caller[d],
           holder' = holder \/ (holder' = "nobody" /\ holder = c),
           client' = client, UNCHANGED <<logins, lapses>>
    PROVE  SessionHeld'
<1>1. \A d \in Callers : caller'[d].at \in {"login", "keeps", "acquired"} => d # c /\ caller'[d] = caller[d]
  OBVIOUS
<1>2. \A d \in Callers : caller'[d].at \in {"login", "keeps", "acquired"} => holder' = d
  BY <1>1 DEF ProvidersInv, SessionHeld
<1> QED
  BY <1>1, <1>2 DEF ProvidersInv, SessionHeld

LEMMA ACallBegins ==
    ASSUME ProvidersInv, NEW c \in Callers, BeginsCall(c)
    PROVE  ProvidersInv'
<1> DEFINE mine == caller[c]
           plan == Planned(mine.op, mine.asked)
           r == [mine EXCEPT !.at = "calls", !.number = client.number, !.todo = plan]
<1>1. mine \in CallRecords /\ InForm(mine) /\ mine.op # "none" /\ Unspent(mine) /\ mine.at = "acquired"
  BY DEF BeginsCall, ProvidersInv, ProvidersTypeOK, InForm
<1>2. client.number \in Nat /\ client.number > 0 /\ holder = c
  BY <1>1 DEF ProvidersInv, ProvidersTypeOK, SessionHeld, Sessions
<1>3. /\ plan \in Seq(SUBSET mine.asked) /\ Len(plan) =< Planable(mine.op, mine.asked)
      /\ Len(plan) \in Nat /\ Planable(mine.op, mine.asked) \in Nat
      /\ mine.op = "settle" => Parts(plan) = mine.asked
  <2> HIDE DEF mine
  <2>1. mine.op \in Ops /\ mine.asked \subseteq Subjects(mine.op)
    BY <1>1 DEF CallRecords, InForm
  <2>2. /\ plan \in Seq(SUBSET mine.asked) /\ Planable(mine.op, mine.asked) \in Nat
        /\ Len(plan) =< Planable(mine.op, mine.asked)
        /\ mine.op = "settle" => Parts(plan) = mine.asked
    BY <2>1, WhatIsPlanned DEF ProvidersInv, ProvidersTypeOK
  <2> HIDE DEF plan
  <2> QED
    BY <2>2, LenProperties
<1>4. caller' = [caller EXCEPT ![c] = r]
  BY DEF BeginsCall
<1> HIDE DEF mine, plan
<1>5. plan \in Seq(SUBSET Everything)
  <2>1. SUBSET mine.asked \subseteq SUBSET Everything
    BY <1>1 DEF CallRecords
  <2>2. \A i \in 1..Len(plan) : plan[i] \in SUBSET Everything
    BY <1>3, <2>1, ElementOfSeq
  <2>3. Len(plan) \in Nat /\ plan \in [1..Len(plan) -> SUBSET mine.asked]
    BY <1>3, LenProperties
  <2>4. plan \in [1..Len(plan) -> SUBSET Everything]
    BY <2>1, <2>3
  <2> QED
    BY <2>3, <2>4, SequenceOf
<1>6. r \in CallRecords
  BY <1>1, <1>2, <1>5 DEF CallRecords, Places
<1>7. /\ r.at = "calls" /\ r.op = mine.op /\ r.asked = mine.asked /\ r.todo = plan /\ r.got = <<>>
      /\ r.tries = 0 /\ r.sent = 0 /\ r.limited = 0 /\ r.number = client.number
  BY <1>1 DEF CallRecords, Unspent
<1> HIDE DEF r
<1>8. InForm(r)
  BY <1>1, <1>2, <1>3, <1>7, NothingYet DEF InForm
<1>9. WithinShare(r)
  <2>1. Tries * Len(plan) =< Tries * Planable(mine.op, mine.asked) /\ Tries * Len(plan) \in Nat
    BY <1>3, SharesCount, Products
  <2>2. Share(r) = Tries * Planable(mine.op, mine.asked)
    BY <1>7 DEF Share
  <2> QED
    BY <1>7, <2>1, <2>2, SharesCount DEF WithinShare
<1>10. Truthful(r)
  BY <1>3, <1>7, NothingYet DEF Truthful
<1>11. /\ caller' \in [Callers -> CallRecords] /\ caller'[c] = r
       /\ \A d \in Callers \ {c} : caller'[d] = caller[d]
       /\ \A d \in Callers : (InForm(caller[d]) /\ WithinShare(caller[d]) /\ Truthful(caller[d]))'
  <2>1. source' = source /\ game' = game
    BY DEF BeginsCall
  <2> QED
    BY <1>4, <1>6, <1>8, <1>9, <1>10, <2>1, OneCallMoves
<1>12. SessionHeld'
  <2>1. holder' = "nobody" /\ client' = client /\ UNCHANGED <<logins, lapses>>
    BY DEF BeginsCall
  <2> QED
    BY <1>2, <1>7, <1>11, <2>1, LockLeftAlone
<1>13. ProvidersTypeOK' /\ \A f \in Fixtures : BooksAreTrue(f)'
  BY <1>11, BooksStay DEF BeginsCall, ProvidersInv, ProvidersTypeOK
<1> QED
  BY <1>11, <1>12, <1>13 DEF ProvidersInv

LEMMA AnswersAreTrue ==
    ASSUME ProvidersInv, NEW op \in Ops, NEW S, S \subseteq Subjects(op)
    PROVE  /\ Reply(op, S) \in [S -> Settlements] /\ [f \in S |-> Unsettled] \in [S -> Settlements]
           /\ \A f \in S : TrueOf(f, Unsettled)
           /\ op = "settle" => \A f \in S : TrueOf(f, Reply(op, S)[f])
<1>1. Unsettled \in Settlements /\ Voided \in Settlements /\ \A f : TrueOf(f, Unsettled)
  <2>1. \A f : TrueOf(f, Unsettled)
    BY DEF TrueOf, Unsettled, Loses
  <2> QED
    BY <2>1, TheSettlements
<1>2. ASSUME NEW f \in Fixtures PROVE Verdict(f) \in Settlements /\ TrueOf(f, Verdict(f))
  <2>1. CASE game[f].phase = "off"
    <3>1. Verdict(f) = Voided
      BY <2>1 DEF Verdict
    <3>2. TrueOf(f, Voided)
      BY <2>1 DEF TrueOf, Voided, Unsettled, Loses
    <3> QED
      BY <1>1, <3>1, <3>2
  <2>2. CASE game[f].phase = "ended" /\ game[f].posted
    <3> DEFINE won == Winners(game[f].score)
    <3>1. Verdict(f) = [void |-> FALSE, markets |-> Markets, won |-> won, absent |-> {}]
      BY <2>2 DEF Verdict, FromScore, Unsettled
    <3>2. won \subseteq Selections /\ won = {o \in won : MarketOf(o) \in Markets}
      BY DEF Winners, Selections, Markets
    <3>3. Verdict(f) \in Settlements
      <4> HIDE DEF won
      <4> QED
        BY <3>1, <3>2 DEF Settlements
    <3>4. TrueOf(f, Verdict(f))
      BY <2>2, <3>1, <3>2 DEF TrueOf, Loses
    <3> QED
      BY <3>3, <3>4
  <2>3. CASE game[f].phase # "off" /\ ~(game[f].phase = "ended" /\ game[f].posted)
    <3>1. Verdict(f) = Unsettled
      BY <2>3 DEF Verdict
    <3> QED
      BY <1>1, <3>1
  <2> QED
    BY <2>1, <2>2, <2>3
<1>3. ASSUME NEW f \in Fixtures, source = "exchange"
      PROVE  ClosedBooks(f) \in Settlements /\ TrueOf(f, ClosedBooks(f))
  <2> DEFINE s == ClosedBooks(f)
             won == RunnersOf(f, {"winner"})
             absent == RunnersOf(f, {"removed"})
  <2>1. s = [void |-> FALSE, markets |-> closed[f], won |-> won, absent |-> absent]
    BY DEF ClosedBooks
  <2>2. won \subseteq Selections /\ absent \subseteq Selections /\ closed[f] \subseteq Markets
        /\ runner[f] \in [Selections -> {"active", "winner", "loser", "removed"}] /\ BooksAreTrue(f)
    BY DEF RunnersOf, ProvidersInv, ProvidersTypeOK
  <2>3. ASSUME NEW o \in Selections, Loses(o, s) PROVE o \in RunnersOf(f, {"active", "loser"})
    BY <2>1, <2>2, <2>3 DEF Loses, RunnersOf
  <2>4. \A o \in Selections : Loses(o, s) =>
            /\ game[f].phase = "ended"
            /\ o \in Winners(game[f].score) => NamesNoWinner(s, MarketOf(o))
    BY <1>3, <2>1, <2>2, <2>3 DEF BooksAreTrue, NamesNoWinner
  <2>5. TrueOf(f, s)
    <3>1. closed[f] # {} => game[f].phase \in {"ended", "off"}
      BY <2>2 DEF BooksAreTrue
    <3>2. \A o \in won : game[f].phase = "ended" /\ o \in Winners(game[f].score)
      BY <2>2 DEF BooksAreTrue
    <3>3. s.void = FALSE /\ s.markets = closed[f] /\ s.won = won
      BY <2>1
    <3> HIDE DEF won, s
    <3> QED
      BY <2>4, <3>1, <3>2, <3>3 DEF TrueOf
  <2>6. s \in Settlements
    <3> HIDE DEF won, absent
    <3> QED
      BY <2>1, <2>2 DEF Settlements
  <2> QED
    BY <2>5, <2>6
<1>4. CASE op # "settle"
  BY <1>1, <1>4 DEF Reply
<1>5. CASE op = "settle"
  <2>1. S \subseteq Fixtures
    BY <1>5 DEF Subjects
  <2>2. CASE source = "exchange"
    <3>1. Reply(op, S) = [f \in S |-> IF f \in Listed(S) THEN ClosedBooks(f) ELSE Unsettled]
      BY <1>5, <2>2 DEF Reply
    <3> QED
      BY <1>1, <1>3, <1>5, <2>1, <2>2, <3>1
  <2>3. CASE source # "exchange"
    <3>1. Reply(op, S) = [f \in S |-> Verdict(f)]
      BY <1>5, <2>3 DEF Reply
    <3> QED
      BY <1>1, <1>2, <1>5, <2>1, <3>1
  <2> QED
    BY <2>2, <2>3
<1> QED
  BY <1>4, <1>5

LEMMA WhatIsKnown ==
    ASSUME NEW a \in Replies, NEW S \in SUBSET Everything, NEW b \in [S -> Settlements]
    PROVE  /\ Known(a, b) \in Replies /\ DOMAIN Known(a, b) = DOMAIN a \cup S
           /\ \A x \in DOMAIN a \cup S : Known(a, b)[x] = IF x \in S THEN b[x] ELSE a[x]
<1>1. PICK R \in SUBSET Everything : a \in [R -> Settlements]
  BY DEF Replies
<1>2. Known(a, b) = [x \in R \cup S |-> IF x \in S THEN b[x] ELSE a[x]]
  BY <1>1 DEF Known
<1>3. Known(a, b) \in [R \cup S -> Settlements] /\ R \cup S \in SUBSET Everything
  BY <1>1, <1>2
<1>4. Known(a, b) \in Replies
  BY <1>3 DEF Replies
<1> QED
  BY <1>1, <1>2, <1>4

(* A call in hand: what it knows and what is still to come.                 *)
LEMMA CallInHand ==
    ASSUME ProvidersInv, NEW c \in Callers, caller[c].at = "calls"
    PROVE  /\ caller[c] \in CallRecords /\ InForm(caller[c]) /\ WithinShare(caller[c])
           /\ Truthful(caller[c]) /\ caller[c].op \in Ops /\ caller[c].op # "none"
           /\ Share(caller[c]) \in Nat /\ caller[c].asked \subseteq Everything
<1>1. caller[c] \in CallRecords /\ InForm(caller[c]) /\ WithinShare(caller[c]) /\ Truthful(caller[c])
  BY DEF ProvidersInv, ProvidersTypeOK
<1>2. caller[c].op \in Ops /\ caller[c].op # "none" /\ caller[c].asked \subseteq Everything
  BY <1>1 DEF CallRecords, InForm
<1> QED
  BY <1>1, <1>2, SharesCount

LEMMA AnAnswerIsTaken ==
    ASSUME ProvidersInv, NEW c \in Callers, caller[c].at = "calls", caller[c].todo # <<>>,
           NEW reply \in [Head(caller[c].todo) -> Settlements],
           caller[c].op = "settle" => \A f \in Head(caller[c].todo) : TrueOf(f, reply[f]),
           caller' = [caller EXCEPT ![c].sent = @ + 1, ![c].tries = 0, ![c].todo = Tail(@),
                                    ![c].got = Known(@, reply)],
           source' = source, game' = game
    PROVE  /\ caller' \in [Callers -> CallRecords] /\ caller'[c].at = "calls"
           /\ \A d \in Callers \ {c} : caller'[d] = caller[d]
           /\ \A d \in Callers : (InForm(caller[d]) /\ WithinShare(caller[d]) /\ Truthful(caller[d]))'
<1> DEFINE mine == caller[c]
           first == Head(mine.todo)
           rest == Tail(mine.todo)
           known == Known(mine.got, reply)
           r == [mine EXCEPT !.sent = mine.sent + 1, !.tries = 0, !.todo = rest, !.got = known]
<1>1. /\ mine \in CallRecords /\ InForm(mine) /\ WithinShare(mine) /\ Truthful(mine)
      /\ mine.op # "none" /\ Share(mine) \in Nat /\ mine.asked \subseteq Everything
  BY CallInHand
<1>2. caller' = [caller EXCEPT ![c] = r]
  OBVIOUS
<1>3. mine.at = "calls" /\ mine.todo # <<>> /\ mine.todo \in Seq(SUBSET mine.asked)
      /\ mine.todo \in Seq(SUBSET Everything) /\ DOMAIN mine.got \subseteq mine.asked
      /\ mine.number > 0
  BY <1>1 DEF InForm, CallRecords
<1> HIDE DEF mine
<1>4. /\ first \in SUBSET mine.asked /\ rest \in Seq(SUBSET mine.asked)
      /\ Len(mine.todo) \in Nat \ {0} /\ Len(rest) = Len(mine.todo) - 1
      /\ Parts(mine.todo) = first \cup Parts(rest)
  BY <1>3, FirstAndRest
<1>5. rest \in Seq(SUBSET Everything)
  BY <1>3, FirstAndRest
<1>6. /\ known \in Replies /\ DOMAIN known = DOMAIN mine.got \cup first
      /\ \A x \in DOMAIN known : known[x] = IF x \in first THEN reply[x] ELSE mine.got[x]
  <2>1. mine.got \in Replies /\ first \in SUBSET Everything /\ reply \in [first -> Settlements]
    BY <1>1, <1>4 DEF CallRecords, mine
  <2> HIDE DEF first
  <2>2. known \in Replies
    BY <2>1, WhatIsKnown
  <2> DEFINE got == mine.got
  <2>3. DOMAIN reply = first
    BY <2>1
  <2>4. known = [x \in DOMAIN got \cup first |-> IF x \in first THEN reply[x] ELSE got[x]]
    BY <2>3 DEF Known
  <2> HIDE DEF known, got
  <2>5. /\ DOMAIN known = DOMAIN got \cup first
        /\ \A x \in DOMAIN known : known[x] = IF x \in first THEN reply[x] ELSE got[x]
    BY <2>4
  <2> QED
    BY <2>2, <2>5 DEF got
<1> HIDE DEF first, rest, known
<1>7. r \in CallRecords
  <2>1. mine.sent + 1 \in Nat /\ 0 \in Nat
    BY <1>1 DEF CallRecords
  <2> QED
    BY <1>1, <1>5, <1>6, <2>1 DEF CallRecords
<1>8. /\ r.at = "calls" /\ r.op = mine.op /\ r.asked = mine.asked /\ r.todo = rest /\ r.got = known
      /\ r.tries = 0 /\ r.sent = mine.sent + 1 /\ r.limited = mine.limited /\ r.number = mine.number
  BY <1>1, <1>3 DEF CallRecords
<1> HIDE DEF r
<1>9. InForm(r)
  <2>1. DOMAIN r.got \subseteq r.asked
    BY <1>3, <1>4, <1>6, <1>8
  <2> QED
    BY <1>1, <1>3, <1>4, <1>8, <2>1 DEF InForm
<1>10. WithinShare(r)
  <2>1. Tries * Len(rest) = Tries * Len(mine.todo) - Tries /\ Tries * Len(mine.todo) \in Nat
    BY <1>4, SharesCount, Products
  <2>2. Share(r) = Share(mine) /\ mine.sent \in Nat /\ mine.tries \in Nat /\ mine.tries =< MaxRetries
        /\ mine.sent - mine.tries + Tries * Len(mine.todo) =< Share(mine)
    BY <1>1, <1>3, <1>8 DEF Share, WithinShare, CallRecords
  <2>3. mine.sent + 1 + Tries * Len(rest) =< Share(r)
    <3> DEFINE left == Tries * Len(mine.todo)
               after == Tries * Len(rest)
               share == Share(mine)
               sent == mine.sent
               tries == mine.tries
    <3>1. /\ Tries \in Nat /\ Tries = 1 + MaxRetries /\ MaxRetries \in Nat
          /\ left \in Nat /\ after = left - Tries /\ share \in Nat
          /\ sent \in Nat /\ tries \in Nat /\ tries =< MaxRetries /\ sent - tries + left =< share
      BY <1>1, <2>1, <2>2, SharesCount DEF Tries
    <3> HIDE DEF left, after, share, sent, tries
    <3>2. sent + 1 + after =< share
      BY <3>1
    <3> QED
      BY <2>2, <3>2 DEF after, share, sent
  <2>4. source = "odds-api" => r.limited = 0
    BY <1>1, <1>3, <1>8 DEF WithinShare
  <2>5. r.sent - r.tries + Tries * Len(r.todo) =< Share(r)
    <3>1. r.sent - r.tries = mine.sent + 1
      BY <1>8, <2>2
    <3> QED
      BY <1>8, <2>3, <3>1
  <2> QED
    BY <1>8, <2>4, <2>5, SharesCount DEF WithinShare
<1>11. Truthful(r)
  <2> SUFFICES ASSUME mine.op = "settle" PROVE /\ \A f \in DOMAIN known : TrueOf(f, known[f])
                                              /\ mine.asked = DOMAIN known \cup Parts(rest)
    BY <1>8 DEF Truthful
  <2>1. mine.asked = DOMAIN mine.got \cup Parts(mine.todo) /\ \A f \in DOMAIN mine.got : TrueOf(f, mine.got[f])
    BY <1>1, <1>3 DEF Truthful
  <2>2. \A f \in first : TrueOf(f, reply[f])
    BY DEF first, mine
  <2>3. ASSUME NEW f \in DOMAIN known PROVE TrueOf(f, known[f])
    <3>1. CASE f \in first
      BY <1>6, <2>2, <3>1
    <3>2. CASE f \notin first
      <4>1. f \in DOMAIN mine.got /\ known[f] = mine.got[f]
        BY <1>6, <3>2
      <4> QED
        BY <2>1, <4>1
    <3> QED
      BY <3>1, <3>2
  <2> QED
    BY <1>4, <1>6, <2>1, <2>3
<1> QED
  BY <1>2, <1>7, <1>8, <1>9, <1>10, <1>11, OneCallMoves

LEMMA AnsweredOrMissing ==
    ASSUME ProvidersInv, NEW c \in Callers, Answered(c) \/ Missing(c)
    PROVE  ProvidersInv'
<1> DEFINE mine == caller[c]
           first == Head(mine.todo)
           Taken == /\ caller' \in [Callers -> CallRecords] /\ caller'[c].at = "calls"
                    /\ \A d \in Callers \ {c} : caller'[d] = caller[d]
                    /\ \A d \in Callers :
                           (InForm(caller[d]) /\ WithinShare(caller[d]) /\ Truthful(caller[d]))'
<1>1. mine.at = "calls" /\ mine.todo # <<>> /\ mine.number = client.number
  BY DEF Answered, Missing, Asking
<1>2. /\ mine.op \in Ops /\ first \subseteq Subjects(mine.op) /\ client.number > 0
  <2>1. InForm(mine) /\ mine.op \in Ops /\ mine.op # "none"
    BY <1>1, CallInHand
  <2>2. mine.asked \subseteq Subjects(mine.op) /\ mine.todo \in Seq(SUBSET mine.asked) /\ mine.number > 0
    BY <1>1, <2>1 DEF InForm
  <2> HIDE DEF mine
  <2>3. first \in SUBSET mine.asked
    BY <1>1, <2>2, FirstAndRest
  <2> QED
    BY <1>1, <2>1, <2>2, <2>3
<1>3. /\ Reply(mine.op, first) \in [first -> Settlements] /\ [f \in first |-> Unsettled] \in [first -> Settlements]
      /\ \A f \in first : TrueOf(f, Unsettled)
      /\ mine.op = "settle" => \A f \in first : TrueOf(f, Reply(mine.op, first)[f])
  <2> HIDE DEF mine, first
  <2> QED
    BY <1>2, AnswersAreTrue
<1>4. client \in Sessions /\ client # NoClient
  BY <1>2 DEF ProvidersInv, ProvidersTypeOK, NoClient
<1>5. CASE Answered(c)
  <2>1. /\ caller' = [caller EXCEPT ![c].sent = @ + 1, ![c].tries = 0, ![c].todo = Tail(@),
                                     ![c].got = Known(@, Reply(mine.op, first))]
        /\ source' = source /\ game' = game
        /\ UNCHANGED <<closed, runner, stale, holder, logins, lapses>>
        /\ client' \in {client, [client EXCEPT !.leagues = TRUE]}
    BY <1>5 DEF Answered
  <2>2. Taken
    BY <1>1, <1>3, <2>1, AnAnswerIsTaken
  <2>3. client' \in Sessions /\ client'.number = client.number
    BY <1>4, <2>1 DEF Sessions
  <2>4. client' # NoClient /\ client'.number > 0
    BY <1>2, <2>3 DEF NoClient
  <2> HIDE DEF mine
  <2>5. SessionHeld'
    BY <1>4, <2>1, <2>2, <2>4 DEF ProvidersInv, SessionHeld
  <2> QED
    BY <2>1, <2>2, <2>3, <2>5, BooksStay DEF ProvidersInv, ProvidersTypeOK
<1>6. CASE Missing(c)
  <2>1. /\ caller' = [caller EXCEPT ![c].sent = @ + 1, ![c].tries = 0, ![c].todo = Tail(@),
                                     ![c].got = Known(@, [f \in first |-> Unsettled])]
        /\ source' = source /\ game' = game
        /\ UNCHANGED <<closed, runner, stale, holder, client, logins, lapses>>
    BY <1>6 DEF Missing
  <2>2. \A f \in first : TrueOf(f, [e \in first |-> Unsettled][f])
    BY <1>3
  <2>3. Taken
    BY <1>1, <1>3, <2>1, <2>2, AnAnswerIsTaken
  <2>4. SessionHeld'
    BY <2>1, <2>3, LockLeftAlone
  <2> HIDE DEF mine
  <2> QED
    BY <2>1, <2>3, <2>4, BooksStay DEF ProvidersInv, ProvidersTypeOK
<1> QED
  BY <1>5, <1>6

(* A call that learns nothing new: it repeats, fails, is dropped or returns.*)
LEMMA NothingLearnt ==
    ASSUME ProvidersInv, NEW c \in Callers, caller[c].at = "calls",
           NEW r \in CallRecords, r.at \in {"calls", "done"}, r.op = caller[c].op,
           r.asked = caller[c].asked, r.todo = caller[c].todo, r.got \in {<<>>, caller[c].got},
           r.number = caller[c].number, r.at = "calls" => r.got = caller[c].got, WithinShare(r),
           caller' = [caller EXCEPT ![c] = r],
           UNCHANGED <<source, game, closed, runner, client, holder, logins, lapses>>
    PROVE  ProvidersInv'
<1>1. InForm(caller[c]) /\ Truthful(caller[c])
  BY CallInHand
<1>2. InForm(r)
  BY <1>1, NothingYet DEF InForm
<1>3. Truthful(r)
  BY <1>1, NothingYet DEF Truthful
<1>4. /\ caller' \in [Callers -> CallRecords] /\ caller'[c] = r
      /\ \A d \in Callers \ {c} : caller'[d] = caller[d]
      /\ \A d \in Callers : (InForm(caller[d]) /\ WithinShare(caller[d]) /\ Truthful(caller[d]))'
  BY <1>2, <1>3, OneCallMoves
<1>5. SessionHeld'
  BY <1>4, LockLeftAlone
<1> QED
  BY <1>4, <1>5, BooksStay DEF ProvidersInv, ProvidersTypeOK

LEMMA SpendsWithinShare ==
    ASSUME ProvidersInv, NEW c \in Callers, caller[c].at = "calls"
    PROVE  LET mine == caller[c] IN
           /\ mine.sent \in Nat /\ mine.tries \in Nat /\ mine.tries =< MaxRetries /\ mine.limited \in Nat
           /\ Share(mine) \in Nat /\ mine.sent =< Share(mine)
           /\ mine.todo # <<>> => mine.sent + 1 =< Share(mine)
<1> DEFINE mine == caller[c]
<1>1. /\ mine \in CallRecords /\ WithinShare(mine) /\ mine.at = "calls"
      /\ mine.todo \in Seq(SUBSET mine.asked) /\ Share(mine) \in Nat
  BY CallInHand DEF InForm
<1>2. mine.sent \in Nat /\ mine.tries \in Nat /\ mine.limited \in Nat
  BY <1>1 DEF CallRecords
<1> HIDE DEF mine
<1>3. Len(mine.todo) \in Nat
  BY <1>1, LenProperties
<1>4. Tries * Len(mine.todo) \in Nat
  BY <1>3, SharesCount, Products
<1>5. mine.tries =< MaxRetries /\ mine.sent - mine.tries + Tries * Len(mine.todo) =< Share(mine)
      /\ (mine.todo = <<>> => mine.tries = 0)
  BY <1>1 DEF WithinShare
<1> DEFINE left == Tries * Len(mine.todo)
           share == Share(mine)
           sent == mine.sent
           tries == mine.tries
<1>a. left \in Nat /\ share \in Nat /\ sent \in Nat /\ tries \in Nat /\ tries =< MaxRetries
      /\ MaxRetries \in Nat /\ sent - tries + left =< share
  BY <1>1, <1>2, <1>4, <1>5, SharesCount
<1>6. CASE mine.todo = <<>>
  <2>1. tries = 0
    BY <1>5, <1>6
  <2> HIDE DEF left, share, sent, tries
  <2>2. sent =< share
    BY <1>a, <2>1
  <2> QED
    BY <1>1, <1>2, <1>5, <1>6, <2>2 DEF sent, share, mine
<1>7. CASE mine.todo # <<>>
  <2>1. Len(mine.todo) \in Nat \ {0}
    BY <1>1, <1>7, FirstAndRest
  <2>2. Tries * 1 =< Tries * Len(mine.todo)
    BY <2>1, SharesCount, Products
  <2>3. Tries * 1 = 1 + MaxRetries
    BY SharesCount DEF Tries
  <2>4. 1 + MaxRetries =< left
    BY <2>2, <2>3
  <2> HIDE DEF left, share, sent, tries
  <2>5. sent + 1 =< share /\ sent =< share
    BY <1>a, <2>4
  <2> QED
    BY <1>1, <1>2, <1>5, <1>7, <2>5 DEF sent, share, mine
<1> QED
  BY <1>1, <1>2, <1>5, <1>6, <1>7 DEF mine

LEMMA ACallEnds ==
    ASSUME ProvidersInv, NEW c \in Callers, Dropped(c) \/ Returns(c)
    PROVE  ProvidersInv'
<1> DEFINE mine == caller[c]
<1>1. mine \in CallRecords /\ mine.at = "calls" /\ WithinShare(mine) /\ mine.op # "none"
      /\ mine.sent =< Share(mine)
  <2>1. mine.at = "calls"
    BY DEF Dropped, Returns
  <2> QED
    BY <2>1, CallInHand, SpendsWithinShare
<1>2. UNCHANGED <<source, game, closed, runner, client, holder, logins, lapses>>
  BY DEF Dropped, Returns
<1>3. CASE Dropped(c)
  <2> DEFINE r == [mine EXCEPT !.at = "done", !.got = <<>>]
  <2>1. caller' = [caller EXCEPT ![c] = r]
    BY <1>3 DEF Dropped
  <2> HIDE DEF mine
  <2>2. /\ r \in CallRecords /\ r.at = "done" /\ r.op = mine.op /\ r.asked = mine.asked /\ r.todo = mine.todo
        /\ r.got = <<>> /\ r.number = mine.number /\ r.sent = mine.sent /\ r.limited = mine.limited
    BY <1>1, NothingYet DEF CallRecords, Places
  <2> HIDE DEF r
  <2>3. WithinShare(r)
    BY <1>1, <2>2 DEF WithinShare, Share
  <2> QED
    BY <1>1, <1>2, <2>1, <2>2, <2>3, NothingLearnt DEF mine
<1>4. CASE Returns(c)
  <2> DEFINE r == [mine EXCEPT !.at = "done"]
  <2>1. caller' = [caller EXCEPT ![c] = r]
    BY <1>4 DEF Returns, Goes
  <2> HIDE DEF mine
  <2>2. /\ r \in CallRecords /\ r.at = "done" /\ r.op = mine.op /\ r.asked = mine.asked /\ r.todo = mine.todo
        /\ r.got = mine.got /\ r.number = mine.number /\ r.sent = mine.sent /\ r.limited = mine.limited
    BY <1>1 DEF CallRecords, Places
  <2> HIDE DEF r
  <2>3. WithinShare(r)
    BY <1>1, <2>2 DEF WithinShare, Share
  <2> QED
    BY <1>1, <1>2, <2>1, <2>2, <2>3, NothingLearnt DEF mine
<1> QED
  BY <1>3, <1>4

LEMMA RepeatsOrFails ==
    ASSUME ProvidersInv, NEW c \in Callers, NEW answer, Repeats(c, answer) \/ Fails(c, answer)
    PROVE  ProvidersInv'
<1> DEFINE mine == caller[c]
           more == IF answer = "rate-limited" THEN 1 ELSE 0
<1>1. /\ mine \in CallRecords /\ mine.at = "calls" /\ WithinShare(mine) /\ mine.op # "none"
      /\ mine.sent \in Nat /\ mine.tries \in Nat /\ mine.limited \in Nat /\ mine.todo # <<>>
      /\ Share(mine) \in Nat /\ mine.sent + 1 =< Share(mine)
  <2>1. mine.at = "calls" /\ mine.todo # <<>>
    BY DEF Repeats, Fails, Asking
  <2> QED
    BY <2>1, CallInHand, SpendsWithinShare
<1>a. mine.sent \in Nat /\ mine.tries \in Nat /\ mine.limited \in Nat
  BY <1>1
<1>2. UNCHANGED <<source, game, closed, runner, client, holder, logins, lapses>>
  BY DEF Repeats, Fails
<1>3. more \in Nat /\ more =< 1 /\ (answer # "rate-limited" => more = 0)
  <2>1. CASE answer = "rate-limited"
    BY <2>1
  <2>2. CASE answer # "rate-limited"
    BY <2>2
  <2> QED
    BY <2>1, <2>2
<1>4. CASE Repeats(c, answer)
  <2> DEFINE r == [mine EXCEPT !.sent = mine.sent + 1, !.tries = mine.tries + 1, !.limited = mine.limited + more]
  <2>1. caller' = [caller EXCEPT ![c] = r]
    BY <1>4 DEF Repeats
  <2>2. mine.tries < MaxRetries /\ (answer = "rate-limited" => source = "exchange")
    BY <1>4 DEF Repeats, Retryable
  <2> HIDE DEF mine, more
  <2>3. mine.sent + 1 \in Nat /\ mine.tries + 1 \in Nat /\ mine.limited + more \in Nat
    BY <1>a, <1>3
  <2>4. /\ r \in CallRecords /\ r.at = "calls" /\ r.op = mine.op /\ r.asked = mine.asked /\ r.todo = mine.todo
        /\ r.got = mine.got /\ r.number = mine.number /\ r.sent = mine.sent + 1
        /\ r.tries = mine.tries + 1 /\ r.limited = mine.limited + more
    BY <1>1, <2>3 DEF CallRecords
  <2> HIDE DEF r
  <2>5. source = "odds-api" => r.limited = 0
    <3>1. source = "odds-api" => mine.limited = 0 /\ more = 0
      BY <1>1, <1>3, <2>2 DEF WithinShare
    <3> QED
      BY <2>4, <3>1
  <2>6. r.sent - r.tries = mine.sent - mine.tries
    BY <1>1, <2>4
  <2>7. r.tries =< MaxRetries
    <3>1. MaxRetries \in Nat
      BY SharesCount
    <3> QED
      BY <1>a, <2>2, <2>4, <3>1
  <2>8. WithinShare(r)
    BY <1>1, <2>4, <2>5, <2>6, <2>7 DEF WithinShare, Share
  <2> QED
    BY <1>1, <1>2, <2>1, <2>4, <2>8, NothingLearnt DEF mine
<1>5. CASE Fails(c, answer)
  <2> DEFINE r == [mine EXCEPT !.at = "done", !.sent = mine.sent + 1, !.got = <<>>, !.limited = mine.limited + more]
  <2>1. caller' = [caller EXCEPT ![c] = r]
    BY <1>5 DEF Fails
  <2> HIDE DEF mine, more
  <2>2. mine.sent + 1 \in Nat /\ mine.limited + more \in Nat
    BY <1>a, <1>3
  <2>3. /\ r \in CallRecords /\ r.at = "done" /\ r.op = mine.op /\ r.asked = mine.asked /\ r.todo = mine.todo
        /\ r.got = <<>> /\ r.number = mine.number /\ r.sent = mine.sent + 1
        /\ r.limited = mine.limited + more
    BY <1>1, <2>2, NothingYet DEF CallRecords, Places
  <2> HIDE DEF r
  <2>4. source = "odds-api" => r.limited =< 1
    <3>1. source = "odds-api" => mine.limited = 0
      BY <1>1 DEF WithinShare
    <3> QED
      BY <1>3, <2>3, <3>1
  <2>5. WithinShare(r)
    BY <1>1, <2>3, <2>4 DEF WithinShare, Share
  <2> QED
    BY <1>1, <1>2, <2>1, <2>3, <2>5, NothingLearnt DEF mine
<1> QED
  BY <1>4, <1>5

LEMMA ProvidersStay == ProvidersInv /\ [ProvidersNext]_providerVars => ProvidersInv'
<1> SUFFICES ASSUME ProvidersInv, [ProvidersNext]_providerVars PROVE ProvidersInv'
  OBVIOUS
<1>1. CASE UNCHANGED providerVars
  <2>1. ProvidersTypeOK' /\ SessionHeld'
    BY <1>1 DEF providerVars, ProvidersInv, ProvidersTypeOK, SessionHeld
  <2>2. \A c \in Callers : (InForm(caller[c]) /\ WithinShare(caller[c]))'
    BY <1>1, CallsStay DEF providerVars
  <2>3. \A c \in Callers : Truthful(caller[c])'
    BY <1>1 DEF providerVars, ProvidersInv, Truthful, TrueOf, NamesNoWinner, Parts
  <2>4. \A f \in Fixtures : BooksAreTrue(f)'
    BY <1>1, BooksStay DEF providerVars
  <2> QED
    BY <2>1, <2>2, <2>3, <2>4 DEF ProvidersInv
<1>2. CASE \E f \in Fixtures : GameMoves(f) \/ ScorePosted(f) \/ MarketCloses(f)
  BY <1>2, GamesGoOn
<1>3. CASE SessionAges
  BY <1>3, SessionsAge
<1>4. ASSUME NEW c \in Callers, \E op \in Ops : Calls(c, op) PROVE ProvidersInv'
  BY <1>4, ACallIsMade
<1>5. ASSUME NEW c \in Callers,
             TakesLock(c) \/ LogsIn(c) \/ LoginFails(c) \/ KeepsAlive(c) \/ KeepAliveFails(c)
      PROVE  ProvidersInv'
  BY <1>5, TheSessionIsHad
<1>6. ASSUME NEW c \in Callers, BeginsCall(c) \/ Answered(c) \/ Missing(c) \/ Dropped(c) \/ Returns(c)
      PROVE  ProvidersInv'
  BY <1>6, ACallBegins, AnsweredOrMissing, ACallEnds
<1>7. ASSUME NEW c \in Callers, NEW answer, Repeats(c, answer) \/ Fails(c, answer) PROVE ProvidersInv'
  BY <1>7, RepeatsOrFails
<1> QED
  BY <1>1, <1>2, <1>3, <1>4, <1>5, <1>6, <1>7 DEF ProvidersNext

(* A result is a result, and a call that returns has one for every game it  *)
(* was asked about: what either provider reports as settled is of a game    *)
(* that had ended or was off when it was asked about, and stays so; no      *)
(* outcome is said to have won that has not, and a winner loses only in a   *)
(* market the Exchange closed without naming one (_settlement_for of both   *)
(* adapters).                                                               *)
THEOREM ResultsAreResults == ProvidersSpec => []SettledMeansOver
<1>1. ProvidersInv => SettledMeansOver
  <2> SUFFICES ASSUME ProvidersInv, NEW c \in Callers, caller[c].op = "settle"
               PROVE  /\ \A f \in DOMAIN caller[c].got : TrueOf(f, caller[c].got[f])
                      /\ caller[c].at = "calls" /\ caller[c].todo = <<>>
                             => DOMAIN caller[c].got = caller[c].asked
    BY DEF SettledMeansOver, TrueOf
  <2>1. Truthful(caller[c])
    BY DEF ProvidersInv
  <2> QED
    BY <2>1, NothingYet DEF Truthful
<1> QED
  BY <1>1, ProvidersBegin, ProvidersStay, PTL DEF ProvidersSpec

(* The quota is spared: however many callers share the session and however  *)
(* often requests fail, no call sends more than its planned requests with   *)
(* their repeats, a call to odds-api.io ends at the first rate limit, and   *)
(* every login but the first follows one that was refused or a session that *)
(* could not be kept.                                                       *)
THEOREM TheQuotaIsSpared == ProvidersSpec => []QuotaIsSpared
<1>1. ProvidersInv => QuotaIsSpared
  <2> SUFFICES ASSUME ProvidersInv PROVE QuotaIsSpared
    OBVIOUS
  <2>1. logins =< 1 + lapses
    BY DEF ProvidersInv, SessionHeld
  <2>2. ASSUME NEW c \in Callers
        PROVE  /\ source = "odds-api" => caller[c].limited =< 1
               /\ caller[c].op # "none" => caller[c].sent =< Share(caller[c])
    <3>1. caller[c] \in CallRecords /\ InForm(caller[c]) /\ WithinShare(caller[c])
      BY DEF ProvidersInv, ProvidersTypeOK
    <3>2. CASE caller[c].at = "calls"
      BY <3>1, <3>2, SpendsWithinShare DEF WithinShare
    <3>3. CASE caller[c].at = "done"
      BY <3>1, <3>3 DEF WithinShare
    <3>4. CASE caller[c].at \notin {"calls", "done"}
      <4>1. Unspent(caller[c])
        BY <3>1, <3>4 DEF InForm
      <4>2. caller[c].op # "none" => Share(caller[c]) \in Nat
        BY <3>1, SharesCount
      <4> QED
        BY <4>1, <4>2 DEF Unspent
    <3> QED
      BY <3>2, <3>3, <3>4
  <2> QED
    BY <2>1, <2>2 DEF QuotaIsSpared, Share, Tries
<1> QED
  BY <1>1, ProvidersBegin, ProvidersStay, PTL DEF ProvidersSpec

-----------------------------------------------------------------------------
(* The season's names.  In one week a round that shares an earlier round's  *)
(* label is named past every label of the week, each one further than the   *)
(* one before; a new round's number is past every number in use.            *)
LEMMA ImageIsFinite ==
    ASSUME NEW S, NEW T, IsFiniteSet(S), NEW f \in [S -> T]
    PROVE  IsFiniteSet({f[x] : x \in S})
<1>1. f \in Surjection(S, {f[x] : x \in S})
  BY DEF Surjection
<1> QED
  BY <1>1, FS_Surjection

LEMMA AWeekIsFinite ==
    ASSUME extras \subseteq Dates, NEW n
    PROVE  IsFiniteSet(Occurrences(n))
<1> DEFINE played == {d \in Labelled : WeekNumber(d) = n}
           added == {d \in extras : WeekNumber(d) = n}
           at == [d \in played |-> Occurrence(d)]
<1>1. IsFiniteSet(played) /\ IsFiniteSet(added)
  <2>1. Labelled \subseteq Dates /\ IsFiniteSet(Dates)
    BY SeasonAssumption DEF Labelled, RoundsOf
  <2>2. played \subseteq Dates /\ added \subseteq Dates
    BY <2>1
  <2> QED
    BY <2>1, <2>2, FS_Subset
<1>2. IsFiniteSet({Occurrence(d) : d \in played})
  <2>1. at \in [played -> {Occurrence(d) : d \in played}]
    OBVIOUS
  <2>2. IsFiniteSet({at[d] : d \in played})
    <3> HIDE DEF at, played
    <3> QED
      BY <1>1, <2>1, ImageIsFinite
  <2>3. {at[d] : d \in played} = {Occurrence(d) : d \in played}
    OBVIOUS
  <2> QED
    BY <2>2, <2>3
<1>3. IsFiniteSet({anchor + 7 * (n - 1)} \cup added \cup {Occurrence(d) : d \in played})
  BY <1>1, <1>2, FS_Singleton, FS_Union
<1> QED
  BY <1>3, FS_EmptySet DEF Occurrences

LEMMA TheName ==
    ASSUME NEW l, NEW d, anchor # NoCalendar
    PROVE  /\ Name(l, d)[1] = WeekNumber(d)
           /\ ~Doubled(l, d) => Name(l, d) = Label(d)
           /\ Doubled(l, d) =>
                 Name(l, d)[2] = Cardinality(Occurrences(WeekNumber(d)))
                                 + Cardinality({e \in Earlier(l, d) \cup {d} : Doubled(l, e)})
<1>1. CASE Doubled(l, d)
  <2>1. Name(l, d) = <<WeekNumber(d), Cardinality(Occurrences(WeekNumber(d)))
                        + Cardinality({e \in Earlier(l, d) \cup {d} : Doubled(l, e)})>>
    BY <1>1 DEF Name
  <2> QED
    BY <1>1, <2>1
<1>2. CASE ~Doubled(l, d)
  <2>1. Name(l, d) = Label(d)
    BY <1>2 DEF Name
  <2> QED
    BY <1>2, <2>1 DEF Label
<1> QED
  BY <1>1, <1>2

LEMMA NamesOfALeague ==
    ASSUME extras \subseteq Dates, anchor # NoCalendar, NEW l,
           NEW d \in RoundsOf(l), NEW e \in RoundsOf(l), d < e
    PROVE  Name(l, d) # Name(l, e)
<1> DEFINE past(x) == {f \in Earlier(l, x) \cup {x} : Doubled(l, f)}
           all == Occurrences(WeekNumber(d))
<1>1. CASE WeekNumber(d) # WeekNumber(e)
  <2>1. Name(l, d)[1] = WeekNumber(d) /\ Name(l, e)[1] = WeekNumber(e)
    BY TheName
  <2> QED
    BY <1>1, <2>1
<1>2. CASE WeekNumber(d) = WeekNumber(e)
  <2>1. d \in Earlier(l, e) /\ d \in Dates /\ e \in Dates /\ Dates \subseteq Nat /\ IsFiniteSet(Dates)
    BY <1>2, SeasonAssumption DEF Earlier, RoundsOf
  <2>2. \A x \in {d, e} : IsFiniteSet(past(x)) /\ Cardinality(past(x)) \in Nat
    <3>1. \A x \in {d, e} : past(x) \subseteq Dates
      BY <2>1 DEF Earlier, RoundsOf
    <3> QED
      BY <2>1, <3>1, FS_Subset, FS_CardinalityType
  <2>3. \A x \in {d, e} : Doubled(l, x) => Cardinality(past(x)) > 0
    <3>1. \A x \in {d, e} : Doubled(l, x) => past(x) # {}
      OBVIOUS
    <3> QED
      BY <2>2, <3>1, FS_EmptySet
  <2>4. IsFiniteSet(all) /\ Cardinality(all) \in Nat
    BY AWeekIsFinite, FS_CardinalityType
  <2>5. \A x \in {d, e} : Label(x)[2] \in Nat /\ Label(x)[2] =< Cardinality(all)
    <3>1. \A x \in {d, e} : Label(x)[2] = Cardinality({o \in all : o =< Occurrence(x)})
      BY <1>2 DEF Label
    <3>2. \A x : {o \in all : o =< Occurrence(x)} \in SUBSET all
      OBVIOUS
    <3> QED
      BY <2>4, <3>1, <3>2, FS_Subset, FS_CardinalityType
  <2>6. \A x \in {d, e} : /\ ~Doubled(l, x) => Name(l, x)[2] =< Cardinality(all)
                          /\ Doubled(l, x) => Name(l, x)[2] = Cardinality(all) + Cardinality(past(x))
    <3>1. \A x \in {d, e} : Occurrences(WeekNumber(x)) = all
      BY <1>2
    <3> QED
      BY <2>5, <3>1, TheName
  <2> HIDE DEF past, all
  <2>7. CASE ~Doubled(l, d) /\ ~Doubled(l, e)
    <3>1. Label(d) # Label(e)
      BY <2>1, <2>7 DEF Doubled
    <3> QED
      BY <2>7, <3>1, TheName
  <2>8. CASE Doubled(l, d) /\ ~Doubled(l, e)
    BY <2>2, <2>3, <2>4, <2>6, <2>8
  <2>9. CASE ~Doubled(l, d) /\ Doubled(l, e)
    BY <2>2, <2>3, <2>4, <2>6, <2>9
  <2>10. CASE Doubled(l, d) /\ Doubled(l, e)
    <3>1. past(d) \subseteq past(e) /\ e \in past(e) /\ e \notin past(d)
      <4>1. \A f \in Earlier(l, d) : f \in Earlier(l, e) /\ f # e
        <5>1. \A f \in Earlier(l, d) : f \in RoundsOf(l) /\ f \in Nat /\ WeekNumber(f) = WeekNumber(d) /\ f < d
          BY <2>1 DEF Earlier, RoundsOf
        <5> QED
          BY <1>2, <2>1, <5>1 DEF Earlier
      <4>2. d # e
        BY <2>1
      <4> QED
        BY <2>1, <2>10, <4>1, <4>2 DEF past
    <3>2. Cardinality(past(d)) =< Cardinality(past(e)) /\ Cardinality(past(d)) # Cardinality(past(e))
      BY <2>2, <3>1, FS_Subset
    <3> QED
      BY <2>2, <2>4, <2>6, <2>10, <3>2
  <2> QED
    BY <2>7, <2>8, <2>9, <2>10
<1> QED
  BY <1>1, <1>2

LEMMA GreatestOf ==
    ASSUME NEW T \in SUBSET Nat, T # {}, NEW b \in Nat, \A n \in T : n =< b
    PROVE  Max(T) \in T /\ \A n \in T : n =< Max(T)
<1> DEFINE below == {b - n : n \in T}
<1>0. \A n \in T : n \in Nat /\ b - n \in Nat
  OBVIOUS
<1>1. below \subseteq Nat /\ below # {}
  BY <1>0
<1>2. PICK x \in below : \A y \in below : ~(<<y, x>> \in OpToRel(<, Nat))
  BY <1>1, NatLessThanWellFounded, WFMin
<1>3. PICK m \in T : x = b - m
  OBVIOUS
<1>4. \A n \in T : n =< m
  <2> SUFFICES ASSUME NEW n \in T, n > m PROVE FALSE
    BY <1>0
  <2>1. b - n \in below /\ b - n \in Nat /\ x \in Nat /\ b - n < x
    <3>1. n \in Nat /\ m \in Nat /\ b - n \in below
      BY <1>0
    <3>2. b - n \in Nat /\ b - m \in Nat
      BY <1>0
    <3>3. b - n < b - m
      BY <3>1
    <3> QED
      BY <1>3, <3>1, <3>2, <3>3
  <2>2. <<b - n, x>> \in OpToRel(<, Nat)
    BY <2>1 DEF OpToRel
  <2> QED
    BY <1>2, <2>1, <2>2
<1>5. \E y \in T : \A n \in T : y >= n
  BY <1>4
<1> QED
  BY <1>5 DEF Max

NumbersInv ==
    /\ extras \subseteq Dates
    /\ roundOn \in [Leagues -> [Dates -> {"none", "open", "settled"}]]
    /\ number \in [Leagues -> [Dates -> Nat]]
    /\ \A l \in Leagues : \E b \in Nat : \A d \in Dates : number[l][d] =< b
    /\ \A l \in Leagues : \A d, e \in RoundsOf(l) : d # e => number[l][d] # number[l][e]

LEMMA NumbersStart == SeasonInit => NumbersInv
<1> SUFFICES ASSUME SeasonInit PROVE NumbersInv
  OBVIOUS
<1>1. PICK S \in SUBSET {x \in Leagues \X Legacy : x[2] % 7 = cadence[x[1]]} :
        /\ roundOn = [l \in Leagues |-> [d \in Dates |-> IF <<l, d>> \in S THEN "open" ELSE "none"]]
        /\ number = [l \in Leagues |-> [d \in Dates |->
                        IF <<l, d>> \in S THEN Cardinality({x \in S : x[1] = l /\ x[2] =< d}) ELSE 0]]
  BY DEF SeasonInit
<1> DEFINE mine(l) == {x \in S : x[1] = l}
           upTo(l, d) == {x \in S : x[1] = l /\ x[2] =< d}
<1>2. S \subseteq Leagues \X Dates /\ Dates \subseteq Nat /\ IsFiniteSet(Dates)
  BY SeasonAssumption
<1>3. ASSUME NEW l \in Leagues
      PROVE  /\ IsFiniteSet(mine(l)) /\ Cardinality(mine(l)) \in Nat
             /\ \A d : /\ upTo(l, d) \subseteq mine(l) /\ IsFiniteSet(upTo(l, d))
                       /\ Cardinality(upTo(l, d)) \in Nat
                       /\ Cardinality(upTo(l, d)) =< Cardinality(mine(l))
  <2>1. mine(l) \subseteq {l} \X Dates
    BY <1>2
  <2>2. IsFiniteSet({l} \X Dates)
    BY <1>2, FS_Singleton, FS_Product
  <2>3. \A d : upTo(l, d) \in SUBSET mine(l)
    OBVIOUS
  <2>4. IsFiniteSet(mine(l))
    BY <2>1, <2>2, FS_Subset
  <2> HIDE DEF mine, upTo
  <2> QED
    BY <2>3, <2>4, FS_Subset, FS_CardinalityType
<1>4. \A l \in Leagues, d \in Dates :
        number[l][d] = IF <<l, d>> \in S THEN Cardinality(upTo(l, d)) ELSE 0
  BY <1>1
<1>5. number \in [Leagues -> [Dates -> Nat]]
  <2>1. \A l \in Leagues, d \in Dates : (IF <<l, d>> \in S THEN Cardinality(upTo(l, d)) ELSE 0) \in Nat
    BY <1>3
  <2> QED
    BY <1>1, <2>1
<1>6. ASSUME NEW l \in Leagues
      PROVE  \E b \in Nat : \A d \in Dates : number[l][d] =< b
  <2>1. Cardinality(mine(l)) \in Nat /\ \A d \in Dates : number[l][d] =< Cardinality(mine(l))
    <3>1. \A d \in Dates : number[l][d] \in {0, Cardinality(upTo(l, d))}
      BY <1>4
    <3> HIDE DEF mine, upTo
    <3> QED
      BY <1>3, <3>1
  <2> QED
    BY <2>1
<1>7. ASSUME NEW l \in Leagues, NEW d \in RoundsOf(l), NEW e \in RoundsOf(l), d < e
      PROVE  number[l][d] # number[l][e]
  <2>1. d \in Dates /\ e \in Dates /\ <<l, d>> \in S /\ <<l, e>> \in S
    BY <1>1 DEF RoundsOf
  <2>2. upTo(l, d) \subseteq upTo(l, e) /\ <<l, e>> \in upTo(l, e) /\ <<l, e>> \notin upTo(l, d)
    <3>1. d \in Nat /\ e \in Nat /\ ~(e =< d)
      BY <1>2, <1>7, <2>1
    <3>2. \A x \in S : x[2] \in Nat /\ (x[2] =< d => x[2] =< e)
      <4>1. \A x \in S : x[2] \in Nat
        BY <1>2
      <4> QED
        BY <1>7, <3>1, <4>1
    <3> QED
      BY <2>1, <3>1, <3>2
  <2>3. Cardinality(upTo(l, d)) # Cardinality(upTo(l, e))
    <3> HIDE DEF upTo, mine
    <3> QED
      BY <1>3, <2>2, FS_Subset
  <2> QED
    BY <1>4, <2>1, <2>3
<1>8. ASSUME NEW l \in Leagues, NEW d \in RoundsOf(l), NEW e \in RoundsOf(l), d # e
      PROVE  number[l][d] # number[l][e]
  <2>1. d \in Nat /\ e \in Nat
    BY <1>2 DEF RoundsOf
  <2> QED
    BY <1>7, <1>8, <2>1
<1>9. roundOn \in [Leagues -> [Dates -> {"none", "open", "settled"}]] /\ extras = {}
  BY <1>1 DEF SeasonInit
<1> QED
  BY <1>5, <1>6, <1>8, <1>9 DEF NumbersInv

LEMMA NumbersStep == NumbersInv /\ [SeasonNext]_seasonVars => NumbersInv'
<1> SUFFICES ASSUME NumbersInv, [SeasonNext]_seasonVars PROVE NumbersInv'
  OBVIOUS
<1>1. ASSUME UNCHANGED <<roundOn, number>>, extras' \subseteq Dates PROVE NumbersInv'
  BY <1>1 DEF NumbersInv, RoundsOf
<1>2. CASE UNCHANGED seasonVars \/ DatePasses \/ Backfills
  BY <1>1, <1>2 DEF seasonVars, DatePasses, Backfills, NumbersInv
<1>3. ASSUME NEW d \in Dates, DeclaresExtra(d) \/ WithdrawsExtra(d) PROVE NumbersInv'
  BY <1>1, <1>3 DEF DeclaresExtra, WithdrawsExtra, NumbersInv
<1>4. ASSUME NEW a, MovesAnchor(a) PROVE NumbersInv'
  BY <1>1, <1>4 DEF MovesAnchor, NumbersInv
<1>5. ASSUME NEW l \in Leagues, NEW d \in Dates, Settles(l, d) PROVE NumbersInv'
  <2>1. roundOn' = [roundOn EXCEPT ![l][d] = "settled"] /\ roundOn[l][d] = "open"
        /\ UNCHANGED <<extras, number>>
    BY <1>5 DEF Settles
  <2>2. roundOn' \in [Leagues -> [Dates -> {"none", "open", "settled"}]]
        /\ \A k \in Leagues, e \in Dates : roundOn'[k][e] # "none" => roundOn[k][e] # "none"
    BY <2>1 DEF NumbersInv
  <2> QED
    BY <2>1, <2>2 DEF NumbersInv, RoundsOf
<1>6. ASSUME NEW l \in Leagues, RetiresStrays(l) PROVE NumbersInv'
  <2> DEFINE strays == {d \in RoundsOf(l) : /\ roundOn[l][d] = "open" /\ d >= date
                                            /\ ~Intentional(l, d) /\ <<l, d>> \notin claimed}
  <2>1. /\ roundOn' = [roundOn EXCEPT ![l] = [d \in Dates |-> IF d \in strays THEN "none" ELSE @[d]]]
        /\ number' = [number EXCEPT ![l] = [d \in Dates |-> IF d \in strays THEN 0 ELSE @[d]]]
        /\ extras' = extras
    BY <1>6 DEF RetiresStrays
  <2> HIDE DEF strays
  <2>2. /\ roundOn' \in [Leagues -> [Dates -> {"none", "open", "settled"}]]
        /\ number' \in [Leagues -> [Dates -> Nat]]
        /\ \A k \in Leagues, e \in Dates :
              /\ number'[k][e] \in {0, number[k][e]}
              /\ roundOn'[k][e] # "none" => roundOn[k][e] # "none" /\ number'[k][e] = number[k][e]
    BY <2>1 DEF NumbersInv
  <2>3. ASSUME NEW k \in Leagues PROVE \E b \in Nat : \A e \in Dates : number'[k][e] =< b
    <3>1. PICK b \in Nat : \A e \in Dates : number[k][e] =< b
      BY DEF NumbersInv
    <3>2. \A e \in Dates : number'[k][e] =< b
      BY <2>2, <3>1
    <3> QED
      BY <3>2
  <2>4. ASSUME NEW k \in Leagues, NEW d \in RoundsOf(k)', NEW e \in RoundsOf(k)', d # e
        PROVE  number'[k][d] # number'[k][e]
    <3>1. d \in RoundsOf(k) /\ e \in RoundsOf(k) /\ number'[k][d] = number[k][d] /\ number'[k][e] = number[k][e]
      BY <2>2, <2>4 DEF RoundsOf
    <3> QED
      BY <2>4, <3>1 DEF NumbersInv
  <2> QED
    BY <2>1, <2>2, <2>3, <2>4 DEF NumbersInv
<1>7. ASSUME NEW l \in Leagues, NEW d \in Dates, CreatesRound(l, d) PROVE NumbersInv'
  <2> DEFINE T == {0} \cup {number[l][e] : e \in RoundsOf(l)}
  <2>1. /\ roundOn[l][d] = "none" /\ roundOn' = [roundOn EXCEPT ![l][d] = "open"]
        /\ number' = [number EXCEPT ![l][d] = NextNumber(l)] /\ extras' = extras
    BY <1>7 DEF CreatesRound
  <2>2. PICK b \in Nat : \A e \in Dates : number[l][e] =< b
    BY DEF NumbersInv
  <2>3. T \in SUBSET Nat /\ T # {} /\ \A n \in T : n =< b
    BY <2>2 DEF NumbersInv, RoundsOf
  <2>4. Max(T) \in T /\ \A n \in T : n =< Max(T)
    <3> HIDE DEF T
    <3> QED
      BY <2>3, GreatestOf
  <2>5. /\ NextNumber(l) \in Nat /\ NextNumber(l) =< b + 1
        /\ \A e \in RoundsOf(l) : number[l][e] < NextNumber(l)
    <3>1. NextNumber(l) = Max(T) + 1
      BY DEF NextNumber
    <3>2. Max(T) \in Nat /\ Max(T) =< b
      BY <2>3, <2>4
    <3>3. \A e \in RoundsOf(l) : number[l][e] \in T /\ number[l][e] \in Nat
      BY DEF NumbersInv, RoundsOf
    <3> HIDE DEF T
    <3> QED
      BY <2>4, <3>1, <3>2, <3>3
  <2>6. /\ roundOn' \in [Leagues -> [Dates -> {"none", "open", "settled"}]]
        /\ number' \in [Leagues -> [Dates -> Nat]]
        /\ \A k \in Leagues, e \in Dates :
              IF k = l /\ e = d THEN number'[k][e] = NextNumber(l)
              ELSE number'[k][e] = number[k][e] /\ roundOn'[k][e] = roundOn[k][e]
    BY <2>1, <2>5 DEF NumbersInv
  <2>7. ASSUME NEW k \in Leagues PROVE \E c \in Nat : \A e \in Dates : number'[k][e] =< c
    <3>1. CASE k = l
      <4>1. \A e \in Dates : number'[l][e] =< b + 1
        <5>1. \A e \in Dates : number[l][e] \in Nat
          BY DEF NumbersInv
        <5> QED
          BY <2>2, <2>5, <2>6, <5>1
      <4> QED
        BY <3>1, <4>1
    <3>2. CASE k # l
      BY <2>6, <3>2 DEF NumbersInv
    <3> QED
      BY <3>1, <3>2
  <2>8. ASSUME NEW k \in Leagues, NEW x \in RoundsOf(k)', NEW y \in RoundsOf(k)', x # y
        PROVE  number'[k][x] # number'[k][y]
    <3>1. x \in Dates /\ y \in Dates
          /\ (x \in RoundsOf(k) \/ (k = l /\ x = d)) /\ (y \in RoundsOf(k) \/ (k = l /\ y = d))
      BY <2>6 DEF RoundsOf
    <3>2. CASE k = l /\ x = d
      <4>1. y \in RoundsOf(l) /\ number'[l][y] = number[l][y] /\ number'[l][x] = NextNumber(l)
            /\ number[l][y] \in Nat
        BY <2>6, <2>8, <3>1, <3>2 DEF NumbersInv
      <4> QED
        BY <2>5, <3>2, <4>1
    <3>3. CASE k = l /\ y = d
      <4>1. x \in RoundsOf(l) /\ number'[l][x] = number[l][x] /\ number'[l][y] = NextNumber(l)
            /\ number[l][x] \in Nat
        BY <2>6, <2>8, <3>1, <3>3 DEF NumbersInv
      <4> QED
        BY <2>5, <3>3, <4>1
    <3>4. CASE ~(k = l /\ x = d) /\ ~(k = l /\ y = d)
      BY <2>6, <2>8, <3>1, <3>4 DEF NumbersInv
    <3> QED
      BY <3>2, <3>3, <3>4
  <2> QED
    BY <2>1, <2>6, <2>7, <2>8 DEF NumbersInv
<1> QED
  <2>1. \A l \in Leagues : Dissolves(l) => NumbersInv'
    BY <1>1 DEF Dissolves, NumbersInv
  <2>2. \A l \in Leagues : \A w \in Weekdays : MovesWeekday(l, w) => NumbersInv'
    BY <1>1 DEF MovesWeekday, NumbersInv
  <2>3. \A l \in Leagues : \A d \in Dates : ClaimsOn(l, d) => NumbersInv'
    BY <1>1 DEF ClaimsOn, NumbersInv
  <2> QED
    BY <1>2, <1>3, <1>4, <1>5, <1>6, <1>7, <2>1, <2>2, <2>3 DEF SeasonNext

(* No two rounds of a league go by one name or by one number                *)
(* (_separate_same_week_rounds, next_gameweek_number).                      *)
THEOREM NoTwoByOneName == SeasonSpec => []NamesDiffer
<1>1. NumbersInv => NamesDiffer
  <2> SUFFICES ASSUME NumbersInv, NEW l \in Current, NEW d \in RoundsOf(l), NEW e \in RoundsOf(l), d # e
               PROVE  /\ number[l][d] # number[l][e]
                      /\ anchor # NoCalendar => Name(l, d) # Name(l, e)
    BY DEF NamesDiffer
  <2>1. d \in Nat /\ e \in Nat /\ l \in Leagues /\ extras \subseteq Dates
    BY SeasonAssumption DEF RoundsOf, Current, NumbersInv
  <2>2. anchor # NoCalendar => Name(l, d) # Name(l, e)
    <3>1. CASE d < e
      BY <2>1, <3>1, NamesOfALeague
    <3>2. CASE e < d
      BY <2>1, <3>2, NamesOfALeague
    <3> QED
      BY <2>1, <3>1, <3>2
  <2> QED
    BY <2>1, <2>2 DEF NumbersInv
<1> QED
  BY <1>1, NumbersStart, NumbersStep, PTL DEF SeasonSpec

-----------------------------------------------------------------------------
(* A settled round's name.  The dates of a week lie round its Saturday, and *)
(* once a round has settled the anchor stays and nothing before it is made. *)
LEMMA Weeks ==
    ASSUME NEW d \in Nat
    PROVE  /\ Saturday(d) \in Nat /\ Saturday(d) % 7 = 3
           /\ d - Saturday(d) >= -3 /\ d - Saturday(d) =< 3
  BY DEF Saturday

LEMMA WeeksInOrder ==
    ASSUME NEW d \in Nat, NEW e \in Nat, d =< e
    PROVE  Saturday(d) =< Saturday(e)
  BY DEF Saturday

LEMMA SaturdayOfASaturday ==
    ASSUME NEW d \in Nat, NEW e \in Nat, d = Saturday(e)
    PROVE  Saturday(d) = d
  BY DEF Saturday

LEMMA OneWeekANumber ==
    ASSUME anchor \in Nat, anchor % 7 = 3, NEW d \in Nat, Saturday(d) >= anchor
    PROVE  WeekNumber(d) \in Nat /\ anchor + 7 * (WeekNumber(d) - 1) = Saturday(d)
<1>1. Saturday(d) \in Nat /\ Saturday(d) % 7 = 3
  BY Weeks
<1> DEFINE k == anchor \div 7
           j == Saturday(d) \div 7
<1>2. k \in Nat /\ anchor = 7 * k + 3
  OBVIOUS
<1>3. j \in Nat /\ Saturday(d) = 7 * j + 3
  BY <1>1
<1> HIDE DEF k, j
<1>4. (Saturday(d) - anchor) \div 7 = j - k /\ j - k \in Nat
  BY <1>2, <1>3
<1> QED
  BY <1>2, <1>3, <1>4 DEF WeekNumber


LEMMA LeastOf ==
    ASSUME NEW T \in SUBSET Nat, T # {}
    PROVE  Min(T) \in T /\ \A n \in T : Min(T) =< n
<1>1. PICK m \in T : \A y \in T : ~(<<y, m>> \in OpToRel(<, Nat))
  BY NatLessThanWellFounded, WFMin
<1>2. \A n \in T : m =< n
  <2> SUFFICES ASSUME NEW n \in T, n < m PROVE FALSE
    OBVIOUS
  <2>1. <<n, m>> \in OpToRel(<, Nat)
    BY DEF OpToRel
  <2> QED
    BY <1>1, <2>1
<1>3. \E m1 \in T : \A n \in T : m1 =< n
  BY <1>2
<1> QED
  BY <1>3 DEF Min

NamesInv ==
    /\ date \in Dates /\ extras \subseteq Dates
    /\ anchor # NoCalendar => anchor \in Nat /\ anchor % 7 = 3
    /\ roundOn \in [Leagues -> [Dates -> {"none", "open", "settled"}]]
    /\ \A l \in Leagues, d \in Dates : roundOn[l][d] = "settled" => d =< date

LEMMA NamesStart == SeasonInit => NamesInv
<1> SUFFICES ASSUME SeasonInit PROVE NamesInv
  OBVIOUS
<1>1. date \in Dates
  BY SeasonAssumption, LeastOf DEF SeasonInit
<1>2. PICK S : roundOn = [l \in Leagues |-> [d \in Dates |-> IF <<l, d>> \in S THEN "open" ELSE "none"]]
  BY DEF SeasonInit
<1>3. \A l \in Leagues, d \in Dates : roundOn[l][d] \in {"open", "none"}
  BY <1>2
<1>4. roundOn \in [Leagues -> [Dates -> {"none", "open", "settled"}]]
  BY <1>2
<1> QED
  BY <1>1, <1>3, <1>4 DEF SeasonInit, NamesInv

LEMMA TheFirstRound ==
    ASSUME NEW d \in Dates
    PROVE  Saturday(Min(Labelled \cup {d})) \in Nat /\ Saturday(Min(Labelled \cup {d})) % 7 = 3
<1>1. Labelled \cup {d} \in SUBSET Nat /\ Labelled \cup {d} # {}
  BY SeasonAssumption DEF Labelled, RoundsOf
<1>2. Min(Labelled \cup {d}) \in Nat
  BY <1>1, LeastOf
<1> QED
  BY <1>2, Weeks

LEMMA NamesStep == NamesInv /\ [SeasonNext]_seasonVars => NamesInv'
<1> SUFFICES ASSUME NamesInv, [SeasonNext]_seasonVars PROVE NamesInv'
  OBVIOUS
<1> USE SeasonAssumption
<1>1. CASE UNCHANGED seasonVars
  BY <1>1 DEF seasonVars, NamesInv
<1>2. CASE DatePasses
  <2>1. date' \in Dates /\ date' > date /\ UNCHANGED <<anchor, extras, roundOn>>
    BY <1>2 DEF DatePasses
  <2>2. date \in Nat /\ date' \in Nat /\ \A d \in Dates : d \in Nat
    BY <2>1 DEF NamesInv
  <2>3. \A l \in Leagues, d \in Dates : roundOn'[l][d] = "settled" => d =< date'
    BY <2>1, <2>2 DEF NamesInv
  <2> QED
    BY <2>1, <2>3 DEF NamesInv
<1>3. CASE Backfills
  <2>1. Labelled # {} /\ anchor' = Saturday(Min(Labelled)) /\ UNCHANGED <<date, extras, roundOn>>
    BY <1>3 DEF Backfills
  <2>2. PICK d \in Labelled : TRUE
    BY <2>1
  <2>3. d \in Dates /\ Labelled \cup {d} = Labelled
    BY DEF Labelled, RoundsOf
  <2>4. anchor' \in Nat /\ anchor' % 7 = 3
    BY <2>1, <2>3, TheFirstRound
  <2> QED
    BY <2>1, <2>4 DEF NamesInv
<1>4. ASSUME NEW l \in Leagues, NEW d \in Dates, CreatesRound(l, d) PROVE NamesInv'
  <2>1. /\ roundOn' = [roundOn EXCEPT ![l][d] = "open"] /\ UNCHANGED <<date, extras>>
        /\ anchor' = Reanchored(Ensured(d), d)
    BY <1>4 DEF CreatesRound
  <2>2. anchor' \in {anchor, Saturday(d), Saturday(Min(Labelled \cup {d}))}
    BY <2>1 DEF Reanchored, Ensured
  <2>3. anchor' # NoCalendar => anchor' \in Nat /\ anchor' % 7 = 3
    BY <2>2, TheFirstRound, Weeks DEF NamesInv
  <2>4. roundOn' \in [Leagues -> [Dates -> {"none", "open", "settled"}]]
        /\ \A k \in Leagues, e \in Dates : roundOn'[k][e] = "settled" => roundOn[k][e] = "settled"
    BY <2>1 DEF NamesInv
  <2> QED
    BY <2>1, <2>3, <2>4 DEF NamesInv
<1>5. ASSUME NEW l \in Leagues, RetiresStrays(l) PROVE NamesInv'
  <2>1. PICK S : roundOn' = [roundOn EXCEPT ![l] = [d \in Dates |-> IF d \in S THEN "none" ELSE @[d]]]
    BY <1>5 DEF RetiresStrays
  <2>2. UNCHANGED <<date, anchor, extras>>
    BY <1>5 DEF RetiresStrays
  <2>3. roundOn' \in [Leagues -> [Dates -> {"none", "open", "settled"}]]
        /\ \A k \in Leagues, e \in Dates : roundOn'[k][e] = "settled" => roundOn[k][e] = "settled"
    BY <2>1 DEF NamesInv
  <2> QED
    BY <2>2, <2>3 DEF NamesInv
<1>6. ASSUME NEW l \in Leagues, NEW d \in Dates, Settles(l, d) PROVE NamesInv'
  <2>1. roundOn' = [roundOn EXCEPT ![l][d] = "settled"] /\ d =< date /\ UNCHANGED <<date, anchor, extras>>
    BY <1>6 DEF Settles
  <2>2. roundOn' \in [Leagues -> [Dates -> {"none", "open", "settled"}]]
        /\ \A k \in Leagues, e \in Dates :
              roundOn'[k][e] = "settled" => roundOn[k][e] = "settled" \/ e = d
    BY <2>1 DEF NamesInv
  <2> QED
    BY <2>1, <2>2 DEF NamesInv
<1>7. ASSUME NEW e \in Dates, MovesAnchor(Saturday(e)) PROVE NamesInv'
  <2>1. anchor' = Saturday(e) /\ UNCHANGED <<date, extras, roundOn>>
    BY <1>7 DEF MovesAnchor
  <2> QED
    BY <2>1, Weeks DEF NamesInv
<1>8. ASSUME NEW d \in Dates, DeclaresExtra(d) \/ WithdrawsExtra(d) PROVE NamesInv'
  <2>1. extras' \subseteq Dates /\ UNCHANGED <<date, anchor, roundOn>>
    BY <1>8 DEF DeclaresExtra, WithdrawsExtra, NamesInv
  <2> QED
    BY <2>1 DEF NamesInv
<1>9. ASSUME NEW l \in Leagues,
             Dissolves(l) \/ (\E w \in Weekdays : MovesWeekday(l, w)) \/ (\E d \in Dates : ClaimsOn(l, d))
      PROVE  NamesInv'
  <2>1. UNCHANGED <<date, anchor, extras, roundOn>>
    BY <1>9 DEF Dissolves, MovesWeekday, ClaimsOn
  <2> QED
    BY <2>1 DEF NamesInv
<1> QED
  BY <1>1, <1>2, <1>3, <1>4, <1>5, <1>6, <1>7, <1>8, <1>9 DEF SeasonNext

(* What a step leaves alone while a round of l has settled.                 *)
LEMMA SettledRoundsHold ==
    ASSUME NamesInv, [SeasonNext]_seasonVars, anchor # NoCalendar,
           NEW l \in Leagues \ dissolved', NEW d \in Dates, roundOn[l][d] = "settled"
    PROVE  /\ anchor' = anchor /\ dissolved \subseteq dissolved'
           /\ roundOn'[l][d] = "settled"
           /\ \A k \in Leagues, x \in Dates : x < date => (roundOn'[k][x] = "none" <=> roundOn[k][x] = "none")
           /\ \A x \in extras' \ extras : x >= date /\ d \notin Week(x)
<1> DEFINE Goal == /\ anchor' = anchor /\ dissolved \subseteq dissolved'
                   /\ roundOn'[l][d] = "settled"
                   /\ \A k \in Leagues, x \in Dates :
                         x < date => (roundOn'[k][x] = "none" <=> roundOn[k][x] = "none")
                   /\ \A x \in extras' \ extras : x >= date /\ d \notin Week(x)
<1> SUFFICES Goal
  OBVIOUS
<1>1. CASE UNCHANGED seasonVars \/ DatePasses
  BY <1>1 DEF seasonVars, DatePasses
<1>2. CASE Backfills
  BY <1>2 DEF Backfills
<1>3. ASSUME NEW k \in Leagues, NEW e \in Dates, CreatesRound(k, e) PROVE Goal
  <2>1. /\ roundOn[k][e] = "none" /\ e >= date /\ roundOn' = [roundOn EXCEPT ![k][e] = "open"]
        /\ anchor' = Reanchored(Ensured(e), e) /\ UNCHANGED <<extras, dissolved>>
    BY <1>3 DEF CreatesRound
  <2>2. AnySettled(Current, Dates)
    BY <2>1 DEF AnySettled, Current
  <2>3. anchor' = anchor
    BY <2>1, <2>2 DEF Reanchored, Ensured
  <2>4. date \in Nat /\ e \in Nat
    BY SeasonAssumption DEF NamesInv
  <2> QED
    BY <2>1, <2>3, <2>4 DEF NamesInv
<1>4. ASSUME NEW k \in Leagues, RetiresStrays(k) PROVE Goal
  <2> DEFINE strays == {x \in RoundsOf(k) : /\ roundOn[k][x] = "open" /\ x >= date
                                            /\ ~Intentional(k, x) /\ <<k, x>> \notin claimed}
  <2>1. /\ roundOn' = [roundOn EXCEPT ![k] = [x \in Dates |-> IF x \in strays THEN "none" ELSE @[x]]]
        /\ UNCHANGED <<anchor, extras, dissolved>>
    BY <1>4 DEF RetiresStrays
  <2>2. \A x \in strays : roundOn[k][x] = "open" /\ ~(x < date)
    BY SeasonAssumption DEF NamesInv, RoundsOf
  <2> HIDE DEF strays
  <2>3. \A i \in Leagues, x \in Dates : ~(i = k /\ x \in strays) => roundOn'[i][x] = roundOn[i][x]
    BY <2>1 DEF NamesInv
  <2> QED
    BY <2>1, <2>2, <2>3
<1>5. ASSUME NEW k \in Leagues, NEW e \in Dates, Settles(k, e) PROVE Goal
  <2>1. /\ roundOn[k][e] = "open" /\ roundOn' = [roundOn EXCEPT ![k][e] = "settled"]
        /\ UNCHANGED <<anchor, extras, dissolved>>
    BY <1>5 DEF Settles
  <2> QED
    BY <2>1 DEF NamesInv
<1>6. ASSUME NEW a, MovesAnchor(a) PROVE Goal
  <2>1. ~AnySettled(Leagues, Dates)
    BY <1>6 DEF MovesAnchor
  <2> QED
    BY <2>1 DEF AnySettled
<1>7. ASSUME NEW e \in Dates, DeclaresExtra(e) PROVE Goal
  <2>1. e >= date /\ ~AnySettled(Leagues, Week(e)) /\ extras' = extras \cup {e}
        /\ UNCHANGED <<anchor, roundOn, dissolved>>
    BY <1>7 DEF DeclaresExtra
  <2>2. d \notin Week(e)
    BY <2>1 DEF AnySettled
  <2> QED
    BY <2>1, <2>2
<1>8. ASSUME NEW e \in Dates, WithdrawsExtra(e) PROVE Goal
  BY <1>8 DEF WithdrawsExtra
<1>9. ASSUME NEW k \in Leagues,
             Dissolves(k) \/ (\E w \in Weekdays : MovesWeekday(k, w)) \/ (\E e \in Dates : ClaimsOn(k, e))
      PROVE  Goal
  BY <1>9 DEF Dissolves, MovesWeekday, ClaimsOn
<1> QED
  BY <1>1, <1>2, <1>3, <1>4, <1>5, <1>6, <1>7, <1>8, <1>9 DEF SeasonNext

(* A week numbered past the anchor's own is one football week; in week one  *)
(* are the anchor's and every date before it.                               *)
LEMMA WhatAWeekHolds ==
    ASSUME anchor \in Nat, anchor % 7 = 3, NEW n, NEW x \in Nat, WeekNumber(x) = n
    PROVE  /\ n \in Nat /\ n >= 1 /\ anchor + 7 * (n - 1) \in Nat /\ (anchor + 7 * (n - 1)) % 7 = 3
           /\ Saturday(x) >= anchor => Saturday(x) = anchor + 7 * (n - 1)
           /\ Saturday(x) < anchor => n = 1
<1>1. Saturday(x) \in Nat /\ Saturday(x) % 7 = 3
  BY Weeks
<1>2. CASE Saturday(x) >= anchor
  <2>1. WeekNumber(x) \in Nat /\ anchor + 7 * (WeekNumber(x) - 1) = Saturday(x)
    BY <1>2, OneWeekANumber
  <2>2. n >= 1
    BY <1>1, <1>2, <2>1
  <2> QED
    BY <1>1, <1>2, <2>1, <2>2
<1>3. CASE Saturday(x) < anchor
  <2>1. (Saturday(x) - anchor) \div 7 + 1 < 1
    BY <1>1, <1>3
  <2>2. n = 1
    BY <2>1 DEF WeekNumber
  <2> QED
    BY <1>1, <1>3, <2>2
<1> QED
  BY <1>1, <1>2, <1>3

(* The occurrences a settled round is ordered among: nothing before the     *)
(* anchor is added or taken any more, and nothing is declared in its week.  *)
LEMMA OccurrencesHold ==
    ASSUME NamesInv, [SeasonNext]_seasonVars, anchor # NoCalendar,
           NEW l \in Leagues \ dissolved', NEW d \in Dates, roundOn[l][d] = "settled",
           Saturday(d) >= anchor,
           ~\E e \in extras \ extras' : WeekNumber(e) = WeekNumber(d),
           ~\E k \in dissolved' \ dissolved : \E e \in RoundsOf(k) : Saturday(e) < anchor
    PROVE  Occurrences(WeekNumber(d))' = Occurrences(WeekNumber(d))
<1> DEFINE n == WeekNumber(d)
<1>0. Dates \subseteq Nat /\ d \in Nat /\ date \in Nat /\ d =< date /\ anchor \in Nat /\ anchor % 7 = 3
      /\ extras \subseteq Dates /\ extras' \subseteq Dates
  BY SeasonAssumption, NamesStep DEF NamesInv
<1>1. /\ anchor' = anchor /\ dissolved \subseteq dissolved' /\ roundOn'[l][d] = "settled"
      /\ \A k \in Leagues, x \in Dates : x < date => (roundOn'[k][x] = "none" <=> roundOn[k][x] = "none")
      /\ \A x \in extras' \ extras : x >= date /\ d \notin Week(x)
  BY SettledRoundsHold
<1>2. \A x : WeekNumber(x)' = WeekNumber(x)
  BY <1>1 DEF WeekNumber
<1>3. \A x \in Dates : WeekNumber(x) = n =>
         Saturday(x) < anchor \/ (Saturday(x) = anchor + 7 * (n - 1) /\ Saturday(x) = Saturday(d))
  <2> SUFFICES ASSUME NEW x \in Dates, WeekNumber(x) = n, ~(Saturday(x) < anchor)
               PROVE  Saturday(x) = anchor + 7 * (n - 1) /\ Saturday(x) = Saturday(d)
    OBVIOUS
  <2>1. x \in Nat /\ Saturday(x) \in Nat
    BY <1>0, Weeks
  <2>2. Saturday(x) >= anchor
    BY <1>0, <2>1
  <2> QED
    BY <1>0, <2>1, <2>2, WhatAWeekHolds
<1>4. \A x \in Dates : Saturday(x) < anchor => x < date
  <2> SUFFICES ASSUME NEW x \in Dates, Saturday(x) < anchor PROVE x < date
    OBVIOUS
  <2>1. x \in Nat /\ Saturday(x) \in Nat /\ Saturday(d) \in Nat
    BY <1>0, Weeks
  <2>2. ~(Saturday(d) =< Saturday(x))
    BY <1>0, <2>1
  <2>3. ~(d =< x)
    BY <1>0, <2>1, <2>2, WeeksInOrder
  <2> QED
    BY <1>0, <2>1, <2>3
<1>5. \A x \in Dates : Saturday(x) < anchor => (x \in Labelled' <=> x \in Labelled)
  <2> SUFFICES ASSUME NEW x \in Dates, Saturday(x) < anchor PROVE x \in Labelled' <=> x \in Labelled
    OBVIOUS
  <2>1. \A k \in Leagues : x \in RoundsOf(k)' <=> x \in RoundsOf(k)
    BY <1>1, <1>4 DEF RoundsOf
  <2>2. ASSUME x \in Labelled' PROVE x \in Labelled
    BY <1>1, <2>1, <2>2 DEF Labelled, Current
  <2>3. ASSUME x \in Labelled PROVE x \in Labelled'
    <3>1. PICK k \in Current : x \in RoundsOf(k)
      BY <2>3 DEF Labelled
    <3>2. k \notin dissolved'
      BY <3>1 DEF Current
    <3> QED
      BY <2>1, <3>1, <3>2 DEF Labelled, Current
  <2> QED
    BY <2>2, <2>3
<1>6. \A x \in Dates : WeekNumber(x) = n => (x \in extras' <=> x \in extras)
  <2> SUFFICES ASSUME NEW x \in extras' \ extras, x \in Dates, WeekNumber(x) = n PROVE FALSE
    OBVIOUS
  <2>1. x >= date /\ d \notin Week(x) /\ x \in Nat
    BY <1>0, <1>1
  <2>2. ~(Saturday(x) < anchor)
    BY <1>0, <1>4, <2>1
  <2>3. Saturday(x) = Saturday(d)
    BY <1>3, <2>2
  <2> QED
    BY <2>1, <2>3 DEF Week
<1>7. d \in Labelled /\ d \in Labelled'
  BY <1>1 DEF Labelled, Current, RoundsOf
<1> DEFINE before == {x \in Dates : x \in Labelled /\ WeekNumber(x) = n /\ Saturday(x) < anchor /\ x \notin extras}
           added == {x \in extras : WeekNumber(x) = n}
           all == {anchor + 7 * (n - 1)} \cup added \cup {Saturday(x) : x \in before}
<1>8. Occurrences(n) = all
  <2>1. {x \in Labelled : WeekNumber(x) = n} # {} /\ Labelled \subseteq Dates
    BY <1>7 DEF Labelled, RoundsOf
  <2>2. Occurrences(n) = {anchor + 7 * (n - 1)} \cup added \cup {Occurrence(x) : x \in {y \in Labelled : WeekNumber(y) = n}}
    BY <2>1 DEF Occurrences
  <2>3. \A x \in {y \in Labelled : WeekNumber(y) = n} : Occurrence(x) \in all
    <3> SUFFICES ASSUME NEW x \in Labelled, WeekNumber(x) = n PROVE Occurrence(x) \in all
      OBVIOUS
    <3>1. CASE x \in extras
      BY <3>1 DEF Occurrence
    <3>2. CASE x \notin extras
      <4>1. Occurrence(x) = Saturday(x) /\ x \in Dates
        BY <2>1, <3>2 DEF Occurrence
      <4>2. Saturday(x) = anchor + 7 * (n - 1) \/ x \in before
        BY <1>3, <3>2, <4>1
      <4> QED
        BY <4>1, <4>2
    <3> QED
      BY <3>1, <3>2
  <2>4. \A x \in before : x \in {y \in Labelled : WeekNumber(y) = n} /\ Saturday(x) = Occurrence(x)
    BY DEF Occurrence
  <2> HIDE DEF before, added
  <2> QED
    BY <2>2, <2>3, <2>4
<1>9. Occurrences(n)' = all
  <2>1. {x \in Labelled' : WeekNumber(x) = n} # {} /\ Labelled' \subseteq Dates
    BY <1>7 DEF Labelled, RoundsOf
  <2>2. added = {x \in extras' : WeekNumber(x) = n}
    BY <1>0, <1>6
  <2>3. Occurrences(n)' = {anchor + 7 * (n - 1)} \cup added
                          \cup {Occurrence(x)' : x \in {y \in Labelled' : WeekNumber(y) = n}}
    <3> HIDE DEF added
    <3> QED
      BY <1>1, <1>2, <2>1, <2>2 DEF Occurrences
  <2>4. \A x \in {y \in Labelled' : WeekNumber(y) = n} : Occurrence(x)' \in all
    <3> SUFFICES ASSUME NEW x \in Labelled', WeekNumber(x) = n PROVE Occurrence(x)' \in all
      OBVIOUS
    <3>1. CASE x \in extras'
      BY <2>2, <3>1 DEF Occurrence
    <3>2. CASE x \notin extras'
      <4>1. Occurrence(x)' = Saturday(x) /\ x \in Dates /\ x \notin extras
        BY <1>6, <2>1, <3>2 DEF Occurrence
      <4>2. Saturday(x) = anchor + 7 * (n - 1) \/ x \in before
        BY <1>3, <1>5, <4>1
      <4> QED
        BY <4>1, <4>2
    <3> QED
      BY <3>1, <3>2
  <2>5. \A x \in before : x \in {y \in Labelled' : WeekNumber(y) = n} /\ Saturday(x) = Occurrence(x)'
    BY <1>5, <1>6 DEF Occurrence
  <2> HIDE DEF before, added
  <2> QED
    BY <2>3, <2>4, <2>5
<1> QED
  BY <1>2, <1>8, <1>9

(* With its week's occurrences and its league's earlier rounds unchanged, a *)
(* round keeps its name.                                                    *)
LEMMA TheNameHolds ==
    ASSUME NamesInv, [SeasonNext]_seasonVars, anchor # NoCalendar,
           NEW l \in Leagues \ dissolved', NEW d \in Dates, roundOn[l][d] = "settled",
           ~\E e \in extras \ extras' : WeekNumber(e) = WeekNumber(d),
           Occurrences(WeekNumber(d))' = Occurrences(WeekNumber(d))
    PROVE  Name(l, d)' = Name(l, d)
<1> DEFINE n == WeekNumber(d)
           near == {e \in RoundsOf(l) : e =< d /\ WeekNumber(e) = n}
<1>0. Dates \subseteq Nat /\ d \in Nat /\ date \in Nat /\ d =< date /\ anchor \in Nat /\ anchor % 7 = 3
      /\ extras \subseteq Dates /\ extras' \subseteq Dates
  BY SeasonAssumption, NamesStep DEF NamesInv
<1>1. /\ anchor' = anchor /\ roundOn'[l][d] = "settled"
      /\ \A x \in Dates : x < date => (roundOn'[l][x] = "none" <=> roundOn[l][x] = "none")
  BY SettledRoundsHold
<1>2. \A x : WeekNumber(x)' = WeekNumber(x)
  BY <1>1 DEF WeekNumber
<1>3. \A x \in Dates : WeekNumber(x) = n => Occurrence(x)' = Occurrence(x)
  <2> SUFFICES ASSUME NEW x \in Dates, WeekNumber(x) = n, x \in extras', x \notin extras
               PROVE  x = Saturday(x)
    BY DEF Occurrence
  <2>1. x \in Occurrences(n)'
    BY <1>2 DEF Occurrences
  <2>2. x \in Occurrences(n)
    BY <2>1
  <2>3. x = anchor + 7 * (n - 1) \/ \E y \in Labelled : x = Occurrence(y)
    BY <2>2 DEF Occurrences
  <2>4. CASE x = anchor + 7 * (n - 1)
    <3>1. x \in Nat /\ x % 7 = 3
      BY <1>0, <2>4, WhatAWeekHolds
    <3> QED
      BY <3>1 DEF Saturday
  <2>5. ASSUME NEW y \in Labelled, x = Occurrence(y) PROVE x = Saturday(x)
    <3>1. x = Saturday(y) /\ y \in Nat /\ x \in Nat
      BY <1>0, <2>5 DEF Occurrence, Labelled, RoundsOf
    <3> QED
      BY <3>1, SaturdayOfASaturday
  <2> QED
    BY <2>3, <2>4, <2>5
<1>4. \A x \in Dates : x =< d => (x \in RoundsOf(l)' <=> x \in RoundsOf(l))
  <2> SUFFICES ASSUME NEW x \in Dates, x =< d PROVE x \in RoundsOf(l)' <=> x \in RoundsOf(l)
    OBVIOUS
  <2>1. x = d \/ x < date
    <3>1. x \in Nat /\ d \in Nat /\ date \in Nat /\ d =< date
      BY <1>0
    <3> QED
      BY <3>1
  <2> QED
    BY <1>1, <2>1 DEF RoundsOf
<1>5. d \in near /\ \A e \in near : e \in Dates /\ e \in Nat /\ e =< d /\ WeekNumber(e) = n
  BY <1>0 DEF RoundsOf
<1>6. \A e \in near : Earlier(l, e)' = Earlier(l, e) /\ Earlier(l, e) \subseteq near
  <2> SUFFICES ASSUME NEW e \in near
               PROVE  Earlier(l, e)' = Earlier(l, e) /\ Earlier(l, e) \subseteq near
    OBVIOUS
  <2>1. \A x \in Dates : x < e => x =< d
    <3> SUFFICES ASSUME NEW x \in Dates, x < e PROVE x =< d
      OBVIOUS
    <3>1. e \in Nat /\ d \in Nat /\ e =< d
      BY <1>0, <1>5
    <3>2. x \in Nat
      BY <1>0
    <3> QED
      BY <3>1, <3>2
  <2>2. RoundsOf(l) \subseteq Dates /\ RoundsOf(l)' \subseteq Dates
    BY DEF RoundsOf
  <2>3. Earlier(l, e) = {x \in RoundsOf(l) : WeekNumber(x) = n /\ x < e}
    BY <1>5 DEF Earlier
  <2>4. Earlier(l, e)' = {x \in RoundsOf(l)' : WeekNumber(x) = n /\ x < e}
    BY <1>2, <1>5 DEF Earlier
  <2> QED
    BY <1>4, <2>1, <2>2, <2>3, <2>4
<1> HIDE DEF near
<1>7. \A e \in near : Label(e)' = Label(e)
  <2> SUFFICES ASSUME NEW e \in near PROVE Label(e)' = Label(e)
    OBVIOUS
  <2>1. Label(e) = <<n, Cardinality({o \in Occurrences(n) : o =< Occurrence(e)})>>
    BY <1>5 DEF Label
  <2>2. Label(e)' = <<n, Cardinality({o \in Occurrences(n)' : o =< Occurrence(e)'})>>
    BY <1>2, <1>5 DEF Label
  <2> QED
    BY <1>3, <1>5, <2>1, <2>2
<1>8. \A e \in near : Doubled(l, e)' <=> Doubled(l, e)
  BY <1>6, <1>7 DEF Doubled
<1>9. {e \in Earlier(l, d) \cup {d} : Doubled(l, e)}' = {e \in Earlier(l, d) \cup {d} : Doubled(l, e)}
  BY <1>5, <1>6, <1>8
<1>10. CASE Doubled(l, d)
  <2>1. Name(l, d) = <<n, Cardinality(Occurrences(n)) + Cardinality({e \in Earlier(l, d) \cup {d} : Doubled(l, e)})>>
    BY <1>10 DEF Name
  <2>2. Name(l, d)' = <<n, Cardinality(Occurrences(n)') + Cardinality({e \in Earlier(l, d) \cup {d} : Doubled(l, e)}')>>
    BY <1>1, <1>2, <1>5, <1>8, <1>10 DEF Name
  <2> QED
    BY <1>9, <2>1, <2>2
<1>11. CASE ~Doubled(l, d)
  <2>1. Name(l, d) = Label(d)
    BY <1>11 DEF Name
  <2>2. Name(l, d)' = Label(d)'
    BY <1>1, <1>5, <1>8, <1>11 DEF Name
  <2> QED
    BY <1>5, <1>7, <2>1, <2>2
<1> QED
  BY <1>10, <1>11

(* A settled round keeps its name through whatever is discovered, edited or *)
(* dissolved, save for the cases the property names                         *)
(* (reanchor_from_earliest_round, move_anchor, declare_extra_week).         *)
THEOREM SettledNamesStay == SeasonSpec => SettledNamesAreKept
<1> DEFINE Kept == \A l \in Leagues \ dissolved', d \in Dates :
              roundOn[l][d] = "settled" /\ anchor # NoCalendar =>
                  \/ Name(l, d)' = Name(l, d)
                  \/ \E e \in extras \ extras' : WeekNumber(e) = WeekNumber(d)
                  \/ \E k \in dissolved' \ dissolved : \E e \in RoundsOf(k) : Saturday(e) < anchor
                  \/ Saturday(d) < anchor /\ anchor' = anchor /\ Occurrences(1)' # Occurrences(1)
<1>1. NamesInv /\ [SeasonNext]_seasonVars => Kept
  <2> SUFFICES ASSUME NamesInv, [SeasonNext]_seasonVars, anchor # NoCalendar,
                      NEW l \in Leagues \ dissolved', NEW d \in Dates, roundOn[l][d] = "settled",
                      ~\E e \in extras \ extras' : WeekNumber(e) = WeekNumber(d),
                      ~\E k \in dissolved' \ dissolved : \E e \in RoundsOf(k) : Saturday(e) < anchor,
                      ~(Saturday(d) < anchor /\ anchor' = anchor /\ Occurrences(1)' # Occurrences(1))
               PROVE  Name(l, d)' = Name(l, d)
    OBVIOUS
  <2>1. d \in Nat /\ anchor \in Nat /\ anchor % 7 = 3
    BY SeasonAssumption DEF NamesInv
  <2>2. CASE Saturday(d) >= anchor
    BY <2>2, OccurrencesHold, TheNameHolds
  <2>3. CASE Saturday(d) < anchor
    <3>1. anchor' = anchor
      BY SettledRoundsHold
    <3>2. Occurrences(1)' = Occurrences(1)
      BY <2>3, <3>1
    <3>3. WeekNumber(d) = 1 /\ WeekNumber(d)' = 1
      <4>1. WeekNumber(d) = 1
        BY <2>1, <2>3, WhatAWeekHolds
      <4> QED
        BY <3>1, <4>1 DEF WeekNumber
    <3>4. Occurrences(WeekNumber(d))' = Occurrences(WeekNumber(d))
      BY <3>2, <3>3
    <3> QED
      BY <3>4, TheNameHolds
  <2>4. Saturday(d) \in Nat
    BY <2>1, Weeks
  <2> QED
    BY <2>1, <2>2, <2>3, <2>4
<1> QED
  BY <1>1, NamesStart, NamesStep, PTL DEF SeasonSpec, SettledNamesAreKept
=============================================================================
