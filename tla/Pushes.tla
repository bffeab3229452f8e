------------------------------- MODULE Pushes -------------------------------
(* Push delivery to one member's browser: the rows of push_subscriptions,   *)
(* two ways of sending (inside the caller's transaction, on rows it read    *)
(* without a lock; or prepared, delivered without a session and recorded    *)
(* under row locks), and the mutes and quiet hours every message passes.    *)
EXTENDS Integers, FiniteSets

CONSTANTS
    Senders,     \* sends that may be under way at once
    Tabs,        \* tabs that may subscribe or unsubscribe at once
    LastRow,     \* bound on the rows of the endpoint
    Threshold,   \* failed sends in a row that switch a row off
    MaxSends,    \* bound on the sends
    Hours,       \* hours in a day
    Categories   \* categories of message with a mute of their own
Rows == 1..LastRow

ASSUME PushesAssumption ==
    Threshold \in Nat \ {0} /\ MaxSends \in Nat /\ Hours \in Nat \ {0} /\ LastRow \in Nat

VARIABLES
    row,        \* row[r]: NoRow, or is_active and failed_send_count
    tab,        \* tab[t]: what a subscribe or an unsubscribe has read
    sender,     \* sender[s]: how it sends, the rows it read and what came of each
    sends,      \* sends so far
    streak,     \* (history) streak[r]: failed sends since the last success or subscribe
    refusals,   \* (history) refusals[r]: failed sends in all
    overtaken,  \* (history) rows written from a reading another write had made stale
    policy      \* the member's settings, league membership and the server's keys
deliveryVars == <<row, tab, sender, sends, streak, refusals, overtaken>>
pushVars == <<deliveryVars, policy>>

NoRow == [active |-> FALSE, fails |-> -1]
NewRow == [active |-> TRUE, fails |-> 0]
There == {r \in Rows : row[r] # NoRow}
Active == {r \in There : row[r].active}
NoTab == [at |-> "idle", seen |-> NoRow, of |-> {}]
NoSend == [how |-> "idle", seen |-> <<>>, outcome |-> <<>>]
(* A timeout and any other error leave the row alone.                       *)
Outcomes == {"sent", "failed", "no answer"}
Ways == {"inline", "prepared"}
Unset == -1

PushesInit ==
    /\ row = [r \in Rows |-> NoRow] /\ tab = [t \in Tabs |-> NoTab]
    /\ sender = [s \in Senders |-> NoSend] /\ sends = 0
    /\ streak = [r \in Rows |-> 0] /\ refusals = [r \in Rows |-> 0]
    /\ overtaken = {}
    /\ policy = [global |-> FALSE, muted |-> {}, start |-> Unset, end |-> Unset,
                 league |-> "in", keys |-> TRUE]

(* A flush writes the columns that differ from what was read, over whatever *)
(* the row holds by then.                                                   *)
Flushed(r, seen, new) ==
    [active |-> IF new.active # seen.active THEN new.active ELSE row[r].active,
     fails |-> IF new.fails # seen.fails THEN new.fails ELSE row[r].fails]

(***************************************************************************)
(* Subscribing.  The endpoint is looked up and then written; nothing in the *)
(* table is unique, and two rows make every later look-up fail.             *)
(***************************************************************************)
LooksUp(t, what) ==
    /\ tab[t].at = "idle" /\ Cardinality(There) < 2
    /\ what = "unsubscribe" => There # {}
    /\ tab' = [tab EXCEPT ![t] = [at |-> what, of |-> There,
                                  seen |-> IF There = {} THEN NoRow ELSE row[CHOOSE r \in There : TRUE]]]
    /\ UNCHANGED <<row, sender, sends, streak, refusals, overtaken>>

Inserts(t) ==
    /\ tab[t].at = "subscribe" /\ tab[t].of = {}
    /\ LET r == Cardinality(There) + 1 IN r \in Rows /\ row' = [row EXCEPT ![r] = NewRow]
    /\ tab' = [tab EXCEPT ![t] = NoTab]
    /\ UNCHANGED <<sender, sends, streak, refusals, overtaken>>

Updates(t) ==
    /\ tab[t].at # "idle"
    /\ \E r \in tab[t].of :
         LET seen == tab[t].seen
             new == IF tab[t].at = "subscribe" THEN NewRow ELSE [seen EXCEPT !.active = FALSE] IN
         /\ row' = [row EXCEPT ![r] = Flushed(r, seen, new)]
         /\ overtaken' = IF row[r] # seen THEN overtaken \cup {r} ELSE overtaken \ {r}
         /\ streak' = IF tab[t].at = "subscribe" THEN [streak EXCEPT ![r] = 0] ELSE streak
    /\ tab' = [tab EXCEPT ![t] = NoTab]
    /\ UNCHANGED <<sender, sends, refusals>>

(***************************************************************************)
(* Sending.  What became of each push is applied to the row once all of     *)
(* them are through; only a refusal counts, and a success starts afresh.    *)
(***************************************************************************)
Reads(s, how) ==
    /\ sender[s].how = "idle" /\ sends < MaxSends /\ Active # {}
    /\ sends' = sends + 1
    /\ sender' = [sender EXCEPT ![s] = [how |-> how, seen |-> [r \in Active |-> row[r]], outcome |-> <<>>]]
    /\ UNCHANGED <<row, tab, streak, refusals, overtaken>>

Delivers(s) ==
    /\ sender[s].how # "idle" /\ sender[s].outcome = <<>>
    /\ \E o \in [DOMAIN sender[s].seen -> Outcomes] : sender' = [sender EXCEPT ![s].outcome = o]
    /\ UNCHANGED <<row, tab, sends, streak, refusals, overtaken>>

\* mutant: a success does not start the count afresh
NeverReset(old, outcome) ==
    IF outcome = "failed"
    THEN [active |-> old.active /\ old.fails + 1 < Threshold, fails |-> old.fails + 1]
    ELSE old
Counted(old, outcome) ==
    CASE outcome = "sent" -> [old EXCEPT !.fails = 0]
      [] outcome = "failed" ->
           [active |-> old.active /\ old.fails + 1 < Threshold, fails |-> old.fails + 1]
      [] OTHER -> old

Records(s) ==
    LET mine == sender[s]
        held(r) == IF mine.how = "prepared" THEN row[r] ELSE mine.seen[r]
        told == {r \in DOMAIN mine.seen : mine.outcome[r] \in {"sent", "failed"}} IN
    /\ mine.how # "idle" /\ mine.outcome # <<>>
    /\ row' = [r \in Rows |-> IF r \in told THEN Flushed(r, held(r), Counted(held(r), mine.outcome[r]))
                              ELSE row[r]]
    /\ streak' = [r \in Rows |-> IF r \notin told THEN streak[r]
                              ELSE IF mine.outcome[r] = "sent" THEN 0 ELSE streak[r] + 1]
    /\ refusals' = [r \in Rows |-> IF r \in told /\ mine.outcome[r] = "failed"
                                   THEN refusals[r] + 1 ELSE refusals[r]]
    /\ overtaken' = (overtaken \ {r \in told : mine.outcome[r] = "sent"})
                    \cup {r \in told : row[r] # held(r)}
    /\ sender' = [sender EXCEPT ![s] = NoSend]
    /\ UNCHANGED <<tab, sends>>

Lost(s) ==
    /\ sender[s].how # "idle"
    /\ sender' = [sender EXCEPT ![s] = NoSend]
    /\ UNCHANGED <<row, tab, sends, streak, refusals, overtaken>>

DeliveryNext ==
    \/ \E t \in Tabs : LooksUp(t, "subscribe") \/ LooksUp(t, "unsubscribe") \/ Inserts(t) \/ Updates(t)
    \/ \E s \in Senders : (\E how \in Ways : Reads(s, how)) \/ Delivers(s) \/ Records(s) \/ Lost(s)

(***************************************************************************)
(* The policy a message passes, as one call decides it, as a batch of       *)
(* collected calls does, and as the bell shows it afterwards.               *)
(***************************************************************************)
(* A message: its category ("none" has no mute), whether it names a league, *)
(* and whether the inbox knows its kind.                                    *)
Messages == [category : Categories \cup {"none", "alarm"}, league : BOOLEAN, known : BOOLEAN]
Inboxable(m) == m.league /\ m.known /\ m.category # "none"
CategoryMuted(c) == c \in policy.muted

\* mutant: a day-time span that ends when it starts is taken for an overnight one
QuietOvernight(t) ==
    /\ policy.start # Unset /\ policy.end # Unset
    /\ IF policy.start < policy.end THEN policy.start =< t /\ t < policy.end
       ELSE t >= policy.start \/ t < policy.end
Quiet(t) ==
    /\ policy.start # Unset /\ policy.end # Unset
    /\ IF policy.start =< policy.end THEN policy.start =< t /\ t < policy.end
       ELSE t >= policy.start \/ t < policy.end

Nothing == [inbox |-> FALSE, push |-> FALSE]
Prepared(m, t) ==
    IF \/ ~Inboxable(m) /\ ~policy.keys
       \/ m.league /\ policy.league = "muted"
       \/ policy.global
       \/ m.category # "none" /\ CategoryMuted(m.category)
    THEN Nothing
    ELSE [inbox |-> Inboxable(m), push |-> ~Quiet(t) /\ policy.keys /\ Active # {}]

Subscribed == IF policy.keys THEN Active ELSE {}
Collected(m, t) ==
    IF \/ m.league /\ policy.league = "muted"
       \/ policy.global
       \/ m.category # "none" /\ CategoryMuted(m.category)
    THEN Nothing
    ELSE [inbox |-> Inboxable(m), push |-> ~Quiet(t) /\ Subscribed # {}]

InBell(m) == ~policy.global /\ m.category \notin policy.muted /\ policy.league # "muted"

PatchesPreferences ==
    \E g \in BOOLEAN, M \in SUBSET Categories, from, to \in (0..(Hours - 1)) \cup {Unset} :
        policy' = [policy EXCEPT !.global = g, !.muted = M, !.start = from, !.end = to]
MutesLeague == policy.league # "left" /\ \E l \in {"in", "muted"} : policy' = [policy EXCEPT !.league = l]
LeavesLeague == policy.league # "left" /\ policy' = [policy EXCEPT !.league = "left"]
ConfiguresPush == policy' = [policy EXCEPT !.keys = ~@]

PolicyNext == PatchesPreferences \/ MutesLeague \/ LeavesLeague \/ ConfiguresPush

PushesNext == (DeliveryNext /\ UNCHANGED policy) \/ (PolicyNext /\ UNCHANGED deliveryVars)
PushesSpec == PushesInit /\ [][PushesNext]_pushVars
-----------------------------------------------------------------------------
(* A device stops being sent to only because its member unsubscribed it or  *)
(* because enough sends to it failed one after the other since the last     *)
(* success and the last subscribe.  A send made inside a transaction writes *)
(* from a reading that another send or a new subscribe may have overtaken:  *)
(* there only the number of failures in all is sure.                        *)
Unsubscribes(t) == tab[t].at = "unsubscribe" /\ tab'[t].at = "idle"
DisabledIsEarned ==
    [][\A r \in Active \ {a \in Rows : row'[a].active} :
          \/ \E t \in Tabs : Unsubscribes(t)
          \/ refusals'[r] >= Threshold /\ (streak'[r] >= Threshold \/ r \in overtaken')]_deliveryVars

(* Whatever the member changes, and whether or not they have a device: a    *)
(* message sent on its own and one collected for a batch are kept and       *)
(* pushed in exactly the same cases; what a mute would stop now is what it  *)
(* hides from the bell; and quiet hours are the hours from the start up to  *)
(* the end, around midnight (_prepare_notification,                         *)
(* prepare_collected_notifications, _visible_inbox_filters, _is_quiet).     *)
Agree(m, t) ==
    /\ Prepared(m, t) = Collected(m, t)
    /\ Inboxable(m) => (Prepared(m, t).inbox <=> InBell(m))
    /\ policy.start # Unset /\ policy.end # Unset =>
           (Quiet(t) <=> (t - policy.start) % Hours < (policy.end - policy.start) % Hours)
OnePolicy == [][policy' # policy => \A m \in Messages, t \in 0..(Hours - 1) : Agree(m, t)']_policy
=============================================================================
