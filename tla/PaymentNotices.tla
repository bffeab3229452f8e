--------------------------- MODULE PaymentNotices ---------------------------
(* What the API's scheduler tells people about the league's money.  A run    *)
(* reads what is due, claims each notice by inserting its kind and subject   *)
(* under a unique constraint, in the transaction that writes the inbox rows, *)
(* and pushes after the commit.  Around a redeploy two processes run it.     *)
EXTENDS Integers, FiniteSets

CONSTANTS
    Receipts,   \* link payments
    Runners,    \* scheduler processes alive at once
    MaxReads,   \* bound on the reader's successful reads
    MaxRuns     \* bound on the runs started

ASSUME NoticesAssumption == MaxReads \in Nat /\ MaxRuns \in Nat

VARIABLES
    receipt,   \* each payment's entry: absent, queued or a member's
    aged,      \* payments whose latest change is past LOOKBACK
    account,   \* monzo_connections: status, the last successful read, stale for an hour
    approval,  \* approved_at, named by the read that found it, and how far it has run
    sent,      \* notification_sends: the run that claimed each notice, or 0
    inbox,     \* inbox rows written for each notice
    pushed,    \* pushes delivered for each notice
    runner,    \* each process's run
    started    \* runs started

noticesVars == <<receipt, aged, account, approval, sent, inbox, pushed, runner, started>>
money == <<receipt, aged>>
told == <<sent, inbox, pushed>>

OutageNames == 0 .. 2 * MaxReads + 1
Notices ==
    [kind: {"payment_queued", "payment_recorded"}, subject: Receipts]
        \cup [kind: {"monzo_link_down", "monzo_link_recovered"}, subject: OutageNames]
        \cup [kind: {"monzo_approval_due"}, subject: 0 .. MaxReads]

Resting == [at |-> "resting", now |-> 0, due |-> {}]

NoticesTypeOK ==
    /\ receipt \in [Receipts -> {"absent", "queued", "member"}]
    /\ aged \subseteq Receipts
    /\ account \in [status: {"not_connected", "awaiting_approval", "connected", "needs_reconnect"},
                    success: 0 .. MaxReads, stale: BOOLEAN]
    /\ approval \in [at: 0 .. MaxReads, runs: {"out", "fresh", "ending"}]
    /\ sent \in [Notices -> 0 .. MaxRuns]
    /\ inbox \in [Notices -> Nat] /\ pushed \in [Notices -> Nat]
    /\ runner \in [Runners -> [at: {"resting", "reading", "claimed", "committed"},
                               now: 0 .. MaxRuns, due: SUBSET Notices]]
    /\ started \in 0 .. MaxRuns

----------------------------------------------------------------------------
(* The payments service and the calendar                                    *)

(* A payment is written queued or matched, a queued one is assigned, and    *)
(* either becomes old.                                                      *)
PaymentMoves(p) ==
    /\ \/ /\ receipt[p] = "absent"
          /\ \E to \in {"queued", "member"} : receipt' = [receipt EXCEPT ![p] = to]
          /\ UNCHANGED aged
       \/ /\ receipt[p] = "queued"
          /\ receipt' = [receipt EXCEPT ![p] = "member"]
          /\ aged' = aged \ {p}
       \/ /\ receipt[p] # "absent" /\ p \notin aged
          /\ aged' = aged \cup {p}
          /\ UNCHANGED receipt
    /\ UNCHANGED <<account, approval, told, runner, started>>

LinkReads ==
    /\ account.status \in {"awaiting_approval", "connected"}
    /\ account.success < MaxReads
    /\ account' = [status |-> "connected", success |-> account.success + 1, stale |-> FALSE]
    /\ approval' = IF account.status = "awaiting_approval" THEN [at |-> account'.success, runs |-> "fresh"] ELSE approval
    /\ UNCHANGED <<money, told, runner, started>>

LinkFails ==
    /\ \/ /\ account.status \in {"awaiting_approval", "connected"}
          /\ account' = [account EXCEPT !.status = "needs_reconnect"]
       \/ /\ account.status # "not_connected" /\ ~account.stale
          /\ account' = [account EXCEPT !.stale = TRUE]
    /\ UNCHANGED <<money, approval, told, runner, started>>

Reconnects ==
    /\ account.status # "awaiting_approval"
    /\ account' = [account EXCEPT !.status = "awaiting_approval"]
    /\ UNCHANGED <<money, approval, told, runner, started>>

ApprovalAges ==
    /\ approval.runs # "out"
    /\ approval' = [approval EXCEPT !.runs = IF @ = "fresh" THEN "ending" ELSE "out"]
    /\ UNCHANGED <<money, account, told, runner, started>>

----------------------------------------------------------------------------
(* What is due                                                              *)

(* An outage is named by the last successful read before it.                *)
Outage == account.success

Payment(kind, state) ==
    {[kind |-> kind, subject |-> p] : p \in {q \in Receipts \ aged : receipt[q] = state}}

Down == [kind |-> "monzo_link_down", subject |-> Outage]

(* The outage told last, by the time of the run that told it.               *)
LatestDown ==
    LET downs == {n \in Notices : n.kind = "monzo_link_down" /\ sent[n] # 0}
    IN  {n.subject : n \in {d \in downs : \A e \in downs : sent[e] =< sent[d]}}

(* notify_monzo_link                                                        *)
LinkDue ==
    IF account.status = "needs_reconnect" \/ (account.status = "connected" /\ account.stale)
    THEN {Down}
    ELSE IF account.status = "connected"
    THEN {[kind |-> "monzo_link_recovered", subject |-> s] : s \in LatestDown \ {Outage}}
    ELSE {}

ApprovalDue ==
    IF account.status = "connected" /\ approval.runs = "ending"
    THEN {[kind |-> "monzo_approval_due", subject |-> approval.at]}
    ELSE {}

NoticesDue ==
    {n \in Payment("payment_queued", "queued") \cup Payment("payment_recorded", "member")
           \cup LinkDue \cup ApprovalDue : sent[n] = 0}

----------------------------------------------------------------------------
(* run_payment_notices                                                      *)

Prepare(r) ==
    /\ runner[r] = Resting
    /\ started < MaxRuns
    /\ started' = started + 1
    /\ runner' = [runner EXCEPT ![r] = [at |-> "reading", now |-> started', due |-> NoticesDue]]
    /\ UNCHANGED <<money, account, approval, told>>

(* Mutant of ClaimNotices: what was read as unsent is sent, whoever         *)
(* inserted it since.                                                       *)
ClaimUnasked(r) ==
    /\ runner[r].at = "reading"
    /\ runner' = [runner EXCEPT ![r].at = "claimed"]
    /\ UNCHANGED <<money, account, approval, told, started>>

(* The insert waits for another run's insert of the same row to commit, and *)
(* then inserts nothing.                                                    *)
ClaimNotices(r) ==
    /\ runner[r].at = "reading"
    /\ \A q \in Runners : runner[q].at = "claimed" => runner[q].due \cap runner[r].due = {}
    /\ runner' = [runner EXCEPT ![r].at = "claimed",
                                ![r].due = {n \in @ : sent[n] = 0}]
    /\ UNCHANGED <<money, account, approval, told, started>>

Commit(r) ==
    /\ runner[r].at = "claimed"
    /\ LET due == runner[r].due
       IN  /\ sent' = [n \in Notices |-> IF n \in due THEN runner[r].now ELSE sent[n]]
           /\ inbox' = [n \in Notices |-> inbox[n] + (IF n \in due THEN 1 ELSE 0)]
    /\ runner' = [runner EXCEPT ![r].at = "committed"]
    /\ UNCHANGED <<money, account, approval, pushed, started>>

(* deliver_prepared_fanout: each push arrives or fails.                     *)
Push(r) ==
    /\ runner[r].at = "committed"
    /\ \E arrives \in {{}, runner[r].due} :
           pushed' = [n \in Notices |-> pushed[n] + (IF n \in arrives THEN 1 ELSE 0)]
    /\ runner' = [runner EXCEPT ![r] = Resting]
    /\ UNCHANGED <<money, account, approval, sent, inbox, started>>

RunnerCrash(r) ==
    /\ runner[r] # Resting
    /\ runner' = [runner EXCEPT ![r] = Resting]
    /\ UNCHANGED <<money, account, approval, told, started>>

NoticesInit ==
    /\ receipt = [p \in Receipts |-> "absent"]
    /\ aged = {}
    /\ account = [status |-> "awaiting_approval", success |-> 0, stale |-> FALSE]
    /\ approval = [at |-> 0, runs |-> "out"]
    /\ sent = [n \in Notices |-> 0]
    /\ inbox = sent /\ pushed = sent
    /\ runner = [r \in Runners |-> Resting]
    /\ started = 0

NoticesNext ==
    \/ LinkReads
    \/ LinkFails
    \/ Reconnects
    \/ ApprovalAges
    \/ \E p \in Receipts : PaymentMoves(p)
    \/ \E r \in Runners :
           Prepare(r) \/ ClaimNotices(r) \/ Commit(r) \/ Push(r) \/ RunnerCrash(r)

NoticesSpec == NoticesInit /\ [][NoticesNext]_noticesVars

----------------------------------------------------------------------------
(* Every notice goes out once, however runs overlap, fail or are cut short, *)
(* and a push only after its inbox row is committed (_claim,                *)
(* run_payment_notices); and one outage, however it began and however many  *)
(* runs see it, raises one alarm: never more alarms than times the link has *)
(* stopped reading (notify_monzo_link).                                     *)
NoticeGoesOutOnce ==
    /\ \A n \in Notices : inbox[n] =< 1 /\ pushed[n] =< inbox[n]
    /\ Cardinality({n \in Notices : n.kind = "monzo_link_down" /\ sent[n] # 0})
           =< account.success + 1
=============================================================================
