---------------------------- MODULE MCBackground ----------------------------
(* Results, alarms, pushes, the provider's client and the season's weeks    *)
(* side by side: each behaviour narrows to one of them and to the cases it  *)
(* is about, so the state spaces add up instead of multiplying.             *)
EXTENDS Results, Alarms, Pushes, Providers, SeasonWeeks

VARIABLE about  \* what this behaviour is about

(* Two members of one league and one of another on the same fixture.        *)
Claim(r, m, o) ==
    [round |-> r, member |-> m, fixture |-> 1, market |-> MarketOf(o), outcome |-> o]
ThePicks == {Claim("A", "ann", "HOME"), Claim("A", "bob", "YES"), Claim("B", "cat", "HOME")}
TheScores == {<<1, 0>>, <<1, 1>>}

(* A caller, and a game that is never played.                               *)
Asker == CHOOSE c \in Callers : TRUE
Unplayed == CHOOSE f \in Fixtures : TRUE
TheFinals == {<<0, 0>>, <<1, 0>>}

(* One game whose books may lack a runner or a winner; the others' are      *)
(* plain, or all removed.                                                   *)
Odd == CHOOSE f \in Fixtures \ {Unplayed} : TRUE
PlainBook(f) ==
    \A o \in Selections : MarketOf(o) \in closed[f] =>
        runner[f][o] = IF game[f].phase = "off" THEN "removed"
                       ELSE IF o \in Winners(game[f].score) THEN "winner" ELSE "loser"
OddBook(f) == \A o \in Selections \ {"HOME"} : runner[f][o] = "removed" => game[f].phase = "off"

ResultCases == {"whole", "half"}
AlarmCases == {"trouble", "daily", "notice", "reminder"}
PushCases == {"delivery", "policy"}
ProviderCases == {"session", "quota", "settle"}
SeasonCases == {"week", "anchor"}

BackgroundInit ==
    /\ ResultsInit /\ AlarmsInit /\ PushesInit /\ ProvidersInit /\ SeasonInit
    /\ about \in ResultCases \cup AlarmCases \cup PushCases \cup ProviderCases \cup SeasonCases
    /\ about \notin {"session", "settle"} => source = "odds-api"
    /\ \A l \in Leagues : (cadence[l] = 3 \/ (about = "anchor" /\ l = "A"))
                          /\ (about = "anchor" \/ RoundsOf(l) = {})
    /\ about # "reminder" => round = [status |-> "scheduled", opens |-> 0, locks |-> 1]

ResultStep ==
    /\ about \in ResultCases
    /\ ResultsNext
    /\ Cardinality({j \in Jobs : job'[j].at # "idle"}) < 3
    /\ about = "whole" => /\ losses' = 0 /\ shown'[1].absent = {}
                          /\ shown'[1].markets \in {{}, Markets}
                          /\ shown'[1].won \in {{}, Winners(<<1, 0>>)}
    /\ about = "half" => entries' + losses' < 2 /\ shown'[1].absent \in {{}, {"HOME"}}
    /\ UNCHANGED <<alarmVars, pushVars, providerVars, seasonVars>>

AlarmStep ==
    /\ \/ about = "trouble" /\ TroubleNext /\ UNCHANGED <<dailyVars, noticeVars, reminderVars>>
       \/ about = "daily" /\ DailyNext /\ UNCHANGED <<troubleVars, noticeVars, reminderVars>>
       \/ about = "notice" /\ NoticeNext /\ UNCHANGED <<troubleVars, dailyVars, reminderVars>>
       \/ about = "reminder" /\ ReminderNext /\ UNCHANGED <<troubleVars, dailyVars, noticeVars>>
    /\ UNCHANGED <<resultVars, pushVars, providerVars, seasonVars>>

NoSettings(p) == ~p.global /\ p.muted = {} /\ p.start = Unset /\ p.end = Unset
PushStep ==
    /\ \/ /\ about = "delivery" /\ DeliveryNext /\ UNCHANGED policy
          /\ Cardinality(There') > 1 => sends' < 2
          /\ Cardinality({t \in Tabs : tab'[t] # NoTab} \cup {s \in Senders : sender'[s] # NoSend}) < 3
       \/ /\ about = "policy" /\ PolicyNext /\ UNCHANGED deliveryVars
          /\ NoSettings(policy) \/ NoSettings(policy')
       \/ /\ about = "policy" /\ policy.start = Unset /\ policy.end = Unset
          /\ DeliveryNext /\ UNCHANGED <<policy, sender>>
          /\ Cardinality({t \in Tabs : tab'[t] # NoTab}) < 2 /\ There = {}
    /\ UNCHANGED <<resultVars, alarmVars, providerVars, seasonVars>>

Asked(op) == \A c \in Callers : caller'[c].op \in {"none", op}
ProviderStep ==
    /\ about \in ProviderCases
    /\ ProvidersNext
    /\ game'[Unplayed] = game[Unplayed]
    /\ about # "settle" => game' = game
    /\ about # "quota" => \A c \in Callers : caller'[c].tries = 0
    /\ about = "session" => Asked("odds") /\ \A c \in Callers : Cardinality(caller'[c].asked) < 2
    /\ about = "quota" =>
           /\ stale' = FALSE
           /\ \A c \in Callers \ {Asker} : caller'[c].op \in {"none", "slate"} /\ caller'[c].tries = 0
    /\ about = "settle" =>
           /\ \A f \in Fixtures : closed'[f] # closed[f] => PlainBook(f)' \/ (f = Odd /\ OddBook(f)')
           /\ stale' = FALSE /\ lapses' = 0 /\ Asked("settle")
           /\ \A c \in Callers : (c # Asker => caller'[c] = Idle)
                                 /\ (caller[c].at = "done" => caller'[c] = caller[c])
    /\ UNCHANGED <<resultVars, alarmVars, pushVars, seasonVars>>

SeasonStep ==
    /\ about \in SeasonCases
    /\ SeasonNext
    /\ about = "week" =>
           /\ anchor' \in {anchor, 3} /\ dissolved' = {} /\ date' < 10
           /\ \A l \in Leagues : roundOn'[l][10] = "none"
           /\ cadence'["B"] = 3 /\ claimed' \subseteq {<<"A", 0>>}
           /\ changes' # changes => extras' # extras \/ cadence' # cadence
    /\ about = "anchor" =>
           /\ claimed' = {} /\ cadence' = cadence /\ extras' = {}
           /\ \A l \in Leagues : roundOn'[l][0] = "none"
    /\ UNCHANGED <<resultVars, alarmVars, pushVars, providerVars>>

BackgroundNext ==
    (ResultStep \/ AlarmStep \/ PushStep \/ ProviderStep \/ SeasonStep) /\ UNCHANGED about
BackgroundSpec ==
    BackgroundInit /\ [][BackgroundNext]_<<resultVars, alarmVars, pushVars, providerVars, seasonVars, about>>
=============================================================================
