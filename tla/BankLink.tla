------------------------------ MODULE BankLink ------------------------------
(* The payments service: one process that holds the league owner's bank     *)
(* token, reads the money that came in through the league's payment link,   *)
(* and writes it to the ledger at most once.                                *)
(*                                                                          *)
(* Everything that spends the token holds one lock, kept here as the state  *)
(* of one reader.  The row of the connection is committed in the middle of  *)
(* a refresh, because the bank honours only the pair it issued last.  A     *)
(* crash loses what the process knew and nothing that was committed.        *)
EXTENDS Integers, FiniteSets

CONSTANTS
    Payments,  \* transactions that come in through the payment link
    TopUps,    \* the owner's own moves into the league's pot
    Payees,    \* members a payment can be matched to
    Owners,    \* bank users who may try to connect
    MaxTime,   \* bound on the clock
    MaxPairs,  \* bound on the token pairs the bank issues to one user
    Overlap,   \* how late the bank lists a transaction, and READ_OVERLAP
    History,   \* HISTORY_LIMIT
    Nobody     \* no user, no member, no job

Moves == Payments \cup TopUps
Never == -1
Queued == "queued"
Unwritten == "unwritten"

ASSUME BankAssumption ==
    /\ Overlap \in Nat /\ History \in Nat /\ MaxTime \in Nat /\ MaxPairs \in Nat
    /\ Nobody \notin Payees \cup Owners
    /\ Payments \cap TopUps = {} /\ {Queued, Unwritten} \cap Payees = {}

VARIABLES
    now,
    made,     \* when each transaction happened, or Never
    shown,    \* when the bank began to list it, or Never
    known,    \* the link (for a top-up, the pot) was known when it happened
    live,     \* the pair the bank honours, for each user
    approved, \* users who approved the service in the bank's app
    link,     \* the league has its payment link set
    conn,     \* the monzo_connections row
    reader,   \* what the process holds the lock for
    history,  \* this process has read back to the counting start
    pot,      \* the name pot deposits give the league's pot is known
    entry,    \* each transaction's ledger entry: Unwritten, Queued or a member
    payer,    \* who the payer map says the payer is
    torn      \* (history) users whose latest pair never reached the row

bank == <<made, shown, known>>
ledger == <<entry, payer, pot>>
bankVars == <<now, made, shown, known, live, approved, link, conn, reader, history, pot, entry,
              payer, torn>>

Held == {"awaiting_approval", "connected"}
Idle == [at |-> "idle", job |-> Nobody, user |-> Nobody, pair |-> 0, began |-> 0]

----------------------------------------------------------------------------
(* The bank, the owner and the organiser                                    *)

BankTick ==
    /\ now < MaxTime
    /\ \A x \in Moves : made[x] # Never /\ shown[x] = Never => now < made[x] + Overlap
    /\ now' = now + 1
    /\ UNCHANGED <<bank, live, approved, link, conn, reader, history, ledger, torn>>

Happens(x) ==
    /\ made[x] = Never
    /\ made' = [made EXCEPT ![x] = now]
    /\ known' = [known EXCEPT ![x] = IF x \in Payments THEN link ELSE pot]
    /\ UNCHANGED <<now, shown, live, approved, link, conn, reader, history, ledger, torn>>

IsListed(x) ==
    /\ made[x] # Never /\ shown[x] = Never
    /\ shown' = [shown EXCEPT ![x] = now]
    /\ UNCHANGED <<now, made, known, live, approved, link, conn, reader, history, ledger, torn>>

(* The owner approves in the app, or the approval lapses after 90 days.     *)
Approve(u) ==
    /\ live[u] # 0
    /\ approved' = IF u \in approved THEN approved \ {u} ELSE approved \cup {u}
    /\ UNCHANGED <<now, bank, live, link, conn, reader, history, ledger, torn>>

(* update_league: a site admin sets or clears the league's link id.         *)
EditLink ==
    /\ link' = ~link
    /\ UNCHANGED <<now, bank, live, approved, conn, reader, history, ledger, torn>>

(* assign_payment, under the entry's row lock, and the payer map with it.   *)
AssignPayment(x, m) ==
    /\ entry[x] = Queued
    /\ entry' = [entry EXCEPT ![x] = m]
    /\ payer' = m
    /\ UNCHANGED <<now, bank, live, approved, link, conn, reader, history, pot, torn>>

----------------------------------------------------------------------------
(* Connecting                                                               *)

LetGo == reader' = Idle

(* A fresh one-use state; it takes the row, not the lock.                   *)
StartConnect ==
    /\ reader.at # "reading"
    /\ conn' = [conn EXCEPT !.state = TRUE]
    /\ UNCHANGED <<now, bank, live, approved, link, reader, history, ledger, torn>>

(* finish_connect: the state is used up before the code is exchanged.       *)
FinishConnect(u) ==
    /\ reader = Idle
    /\ conn.state
    /\ conn' = [conn EXCEPT !.state = FALSE]
    /\ reader' = [Idle EXCEPT !.at = "exchanging", !.job = "connect", !.user = u, !.began = now]
    /\ UNCHANGED <<now, bank, live, approved, link, history, ledger, torn>>

(* The bank issues a pair and waits for the owner's approval, or refuses.   *)
Exchange ==
    /\ reader.at = "exchanging"
    /\ LET u == reader.user
       IN  \/ /\ live[u] < MaxPairs
              /\ live' = [live EXCEPT ![u] = @ + 1]
              /\ approved' = approved \ {u}
              /\ torn' = torn \cup {u}
              /\ reader' = [reader EXCEPT !.at = "issued", !.pair = live[u] + 1]
           \/ LetGo /\ UNCHANGED <<live, approved, torn>>
    /\ UNCHANGED <<now, bank, link, conn, history, ledger>>

(* Mutant of KeepConnection: whoever finished connecting last is read.      *)
KeepAnyConnection ==
    /\ reader.at = "issued"
    /\ conn' = [conn EXCEPT !.user = reader.user, !.pair = reader.pair,
                            !.status = "awaiting_approval", !.since = reader.began,
                            !.through = IF conn.user = reader.user THEN @ ELSE Never,
                            !.hook = @ /\ conn.user = reader.user]
    /\ torn' = torn \ {reader.user}
    /\ LetGo
    /\ UNCHANGED <<now, bank, live, approved, link, history, ledger>>

(* The row is read again: a connection another user holds stays theirs, a   *)
(* new user's payments count from now, a returning one's from where they    *)
(* did.                                                                     *)
KeepConnection ==
    /\ reader.at = "issued"
    /\ LET u == reader.user
           taken == conn.status \in Held /\ conn.user \notin {Nobody, u}
           same == conn.user = u
       IN  IF taken THEN UNCHANGED <<conn, torn>>
           ELSE /\ conn' = [conn EXCEPT
                       !.user = u, !.pair = reader.pair, !.status = "awaiting_approval",
                       !.since = IF same /\ conn.since # Never THEN @ ELSE reader.began,
                       !.through = IF same THEN @ ELSE Never,
                       !.hook = same /\ @]
                /\ torn' = torn \ {u}
    /\ LetGo
    /\ UNCHANGED <<now, bank, live, approved, link, history, ledger>>

----------------------------------------------------------------------------
(* The token                                                                *)

(* catch_up, every five minutes, and nudge, for the transaction a webhook   *)
(* named: take the lock and a usable access token, refreshed when due.      *)
BeginRead(job) ==
    /\ reader = Idle
    /\ conn.status \in (IF job = "catch-up" THEN Held ELSE {"connected"})
    /\ job \in Moves => conn.hook /\ link /\ shown[job] # Never
    /\ \E step \in {"asking", "refreshing"} :
           reader' = [Idle EXCEPT !.at = step, !.job = job, !.user = conn.user]
    /\ UNCHANGED <<now, bank, live, approved, link, conn, history, ledger, torn>>

(* An access token the bank no longer takes is refreshed once.              *)
Unauthorised ==
    /\ reader.at = "asking"
    /\ reader.pair = 0
    /\ reader' = [reader EXCEPT !.at = "refreshing"]
    /\ UNCHANGED <<now, bank, live, approved, link, conn, history, ledger, torn>>

(* The bank rotates the pair, and the answer arrives or is lost; or it      *)
(* refuses a pair that is not the live one; or it cannot be reached.        *)
Refresh ==
    /\ reader.at = "refreshing"
    /\ LET u == reader.user
       IN  \/ /\ conn.pair = live[u] /\ live[u] < MaxPairs
              /\ live' = [live EXCEPT ![u] = @ + 1]
              /\ torn' = torn \cup {u}
              /\ \/ reader' = [reader EXCEPT !.at = "rotated", !.pair = live[u] + 1]
                 \/ LetGo
              /\ UNCHANGED conn
           \/ /\ conn.pair # live[u]
              /\ conn' = [conn EXCEPT !.status = "needs_reconnect", !.pair = 0]
              /\ LetGo
              /\ UNCHANGED <<live, torn>>
           \/ LetGo /\ UNCHANGED <<live, conn, torn>>
    /\ UNCHANGED <<now, bank, approved, link, history, ledger>>

(* Mutant of StorePair: the row keeps the refresh token it had.             *)
StoreAccessOnly ==
    /\ reader.at = "rotated"
    /\ torn' = torn \ {reader.user}
    /\ reader' = [reader EXCEPT !.at = "asking"]
    /\ UNCHANGED <<now, bank, live, approved, link, conn, history, ledger>>

(* The pair is committed before anything uses it.                           *)
StorePair ==
    /\ reader.at = "rotated"
    /\ conn' = [conn EXCEPT !.pair = reader.pair]
    /\ torn' = torn \ {reader.user}
    /\ reader' = [reader EXCEPT !.at = "asking"]
    /\ UNCHANGED <<now, bank, live, approved, link, history, ledger>>

----------------------------------------------------------------------------
(* Reading                                                                  *)

(* A catch-up lists the accounts, which stay withheld until the owner has   *)
(* approved; a nudge reads its one transaction.  A failure is recorded and  *)
(* changes nothing else.                                                    *)
Ask ==
    /\ reader.at = "asking"
    /\ \/ /\ reader.user \in approved
          /\ reader' = [reader EXCEPT !.at = "reading", !.began = now]
       \/ LetGo
    /\ UNCHANGED <<now, bank, live, approved, link, conn, history, ledger, torn>>

Later(a, b) == IF a > b THEN a ELSE b

Learning == ~history /\ ~pot

(* Mutant of From: each read starts where the last one did.                 *)
FromTheLast ==
    Later(Later(conn.since, reader.began - History),
          IF conn.through = Never \/ Learning THEN 0 ELSE conn.through)

(* Where a catch-up reads from: the last complete read less the overlap,    *)
(* within the history the bank serves; the counting start while the first   *)
(* read of this process has a pot to learn.                                 *)
From ==
    Later(Later(conn.since, reader.began - History),
          IF conn.through = Never \/ Learning THEN 0 ELSE conn.through - Overlap)

Match == IF payer = Nobody THEN Queued ELSE payer

(* record_link_payment and record_top_up: once, by the transaction's id,    *)
(* from the counting start on; a top-up only if its pot was known when it   *)
(* was made.                                                                *)
Written(S, potKnown) ==
    [x \in Moves |->
        IF /\ x \in S
           /\ entry[x] = Unwritten
           /\ made[x] >= conn.since
           /\ x \in TopUps => potKnown /\ known[x]
        THEN Match ELSE entry[x]]

(* Link payments first, then the bank's filings of them, which name the     *)
(* pot, then top-ups; read_through moves with the whole of it or not at     *)
(* all.                                                                     *)
CatchUp ==
    /\ reader.at = "reading" /\ reader.job = "catch-up"
    /\ \/ /\ LET seen == {x \in Moves : shown[x] # Never /\ made[x] >= From}
                 learns == \E x \in Payments \cap seen : Written(seen, pot)[x] # Unwritten
             IN  IF link
                 THEN /\ entry' = Written(seen, pot)
                      /\ pot' = (pot \/ learns)
                      /\ history' = (history \/ Learning)
                 ELSE UNCHANGED <<entry, pot, history>>
          /\ \E hooked \in {conn.hook, TRUE} :
                 conn' = [conn EXCEPT !.status = "connected", !.hook = hooked,
                                      !.through = IF link THEN reader.began ELSE @]
       \/ UNCHANGED <<entry, pot, history, conn>>
    /\ LetGo
    /\ UNCHANGED <<now, bank, live, approved, link, payer, torn>>

(* nudge: the one transaction, as the bank shows it.                        *)
Nudge ==
    /\ reader.at = "reading" /\ reader.job \in Moves
    /\ \/ /\ entry' = Written({reader.job}, pot)
          /\ pot' = (pot \/ (reader.job \in Payments /\ entry'[reader.job] # Unwritten))
       \/ UNCHANGED <<entry, pot>>
    /\ LetGo
    /\ UNCHANGED <<now, bank, live, approved, link, conn, history, payer, torn>>

Crash ==
    /\ reader # Idle \/ history
    /\ LetGo
    /\ history' = FALSE
    /\ UNCHANGED <<now, bank, live, approved, link, conn, ledger, torn>>

----------------------------------------------------------------------------

BankInit ==
    /\ now = 0
    /\ made = [x \in Moves |-> Never] /\ shown = made
    /\ known = [x \in Moves |-> FALSE]
    /\ live = [u \in Owners |-> 0]
    /\ approved = {} /\ torn = {}
    /\ link \in BOOLEAN
    /\ conn = [status |-> "not_connected", user |-> Nobody, pair |-> 0, state |-> FALSE,
               since |-> Never, through |-> Never, hook |-> FALSE]
    /\ reader = Idle
    /\ history = FALSE /\ pot = FALSE
    /\ entry = [x \in Moves |-> Unwritten]
    /\ payer = Nobody

BankNext ==
    \/ BankTick
    \/ EditLink
    \/ StartConnect
    \/ Exchange
    \/ KeepConnection
    \/ Unauthorised
    \/ Refresh
    \/ StorePair
    \/ Ask
    \/ CatchUp
    \/ Nudge
    \/ Crash
    \/ \E u \in Owners : Approve(u) \/ FinishConnect(u)
    \/ \E job \in {"catch-up"} \cup Moves : BeginRead(job)
    \/ \E x \in Moves : \/ Happens(x)
                        \/ IsListed(x)
                        \/ \E m \in Payees : AssignPayment(x, m)

BankSpec == BankInit /\ [][BankNext]_bankVars

----------------------------------------------------------------------------
(* Nothing is missed: once a complete read has passed the moment a          *)
(* transaction was listed, it is in the ledger, if it counts at all and the *)
(* bank still served it.  Reads that fail half-way, crashes and late        *)
(* listings are what could break it (catch_up, READ_OVERLAP, read_through). *)
NothingMissed ==
    \A x \in Moves :
        /\ shown[x] # Never /\ shown[x] < conn.through
        /\ made[x] >= conn.since
        /\ known[x]
        /\ now - made[x] =< History
        => entry[x] # Unwritten

(* The pair in the row is the one the bank honours, unless an answer was    *)
(* lost or the process died between the bank's answer and the commit        *)
(* (_access_token: the pair is committed together, before anything else     *)
(* uses it).                                                                *)
StoredPairIsLive ==
    conn.status \in Held /\ conn.user \notin torn => conn.pair = live[conn.user]

(* While a user's account is being read no other user's replaces it, and    *)
(* the counting start of one user survives every reconnect                  *)
(* (finish_connect).                                                        *)
OwnerIsKept ==
    [][/\ conn.status \in Held /\ conn.user # Nobody => conn'.user = conn.user
       /\ conn'.user = conn.user /\ conn.since # Never => conn'.since = conn.since]_bankVars
=============================================================================
