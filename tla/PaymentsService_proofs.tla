----------------------- MODULE PaymentsService_proofs -----------------------
(* What the payments service keeps: the bank reader first, then the notices *)
(* of what it read.  The two share no state here.                           *)
EXTENDS BankLink, PaymentNotices, FiniteSetTheorems, TLAPS

(* The bank reader keeps the pair the bank honours, keeps its owner, and    *)
(* misses no transaction: for any number of transactions and bank users,    *)
(* any clock, any overlap and any length of history.                        *)

Statuses == {"not_connected", "awaiting_approval", "connected", "needs_reconnect"}
Steps == {"idle", "exchanging", "issued", "asking", "refreshing", "rotated", "reading"}
Times == Nat \cup {Never}
Users == Owners \cup {Nobody}

Connections == [status : Statuses, user : Users, pair : Nat, state : BOOLEAN,
                since : Times, through : Times, hook : BOOLEAN]
Readers == [at : Steps, job : Moves \cup {"catch-up", "connect", Nobody}, user : Users,
            pair : Nat, began : Nat]

BankTypeOK ==
    /\ now \in Nat
    /\ made \in [Moves -> Times] /\ shown \in [Moves -> Times] /\ known \in [Moves -> BOOLEAN]
    /\ live \in [Owners -> Nat]
    /\ approved \subseteq Owners /\ torn \subseteq Owners
    /\ link \in BOOLEAN /\ history \in BOOLEAN /\ pot \in BOOLEAN
    /\ conn \in Connections /\ reader \in Readers
    /\ entry \in [Moves -> Payees \cup {Queued, Unwritten}]
    /\ payer \in Payees \cup {Nobody}

(* Whoever spends the token spends the connection's: the row cannot change  *)
(* hands while it is read, and a pair just issued is the live one.          *)
TokenInv ==
    /\ conn.status \in Held => conn.user \in Owners
    /\ reader.at \in {"asking", "refreshing", "rotated", "reading"} =>
           conn.status \in Held /\ reader.user = conn.user
    /\ reader.at \in {"exchanging", "issued"} => reader.user \in Owners
    /\ reader.at \in {"issued", "rotated"} => reader.pair = live[reader.user]
    /\ StoredPairIsLive

(* The bank lists a transaction at most Overlap after it was made, no read  *)
(* is of the future, and a top-up whose pot was known finds it known still. *)
Listed(x) ==
    /\ made[x] =< now /\ shown[x] =< now
    /\ shown[x] # Never => made[x] # Never /\ shown[x] =< made[x] + Overlap
    /\ made[x] # Never /\ shown[x] = Never => now =< made[x] + Overlap
    /\ x \in TopUps /\ known[x] => pot

TimeInv ==
    /\ conn.through =< now /\ reader.began =< now
    /\ \A x \in Moves : Listed(x)

BankInv == BankTypeOK /\ TokenInv /\ TimeInv /\ NothingMissed

----------------------------------------------------------------------------

LEMMA IdleIsReader == Idle \in Readers /\ Idle.began = 0 /\ Idle.at = "idle"
  BY DEF Idle, Readers, Steps, Users

LEMMA BankInitInv == BankInit => BankInv
  <1> SUFFICES ASSUME BankInit
               PROVE  BankInv
    OBVIOUS
  <1>1. conn \in Connections
    BY DEF BankInit, Connections, Statuses, Users, Times
  <1>2. BankTypeOK
    BY <1>1, IdleIsReader DEF BankInit, BankTypeOK, Times
  <1>3. TokenInv
    BY IdleIsReader DEF BankInit, TokenInv, StoredPairIsLive, Held
  <1>4. TimeInv
    BY IdleIsReader, BankAssumption DEF BankInit, TimeInv, Listed, Never
  <1>5. NothingMissed
    BY DEF BankInit, NothingMissed, Never
  <1> QED
    BY <1>2, <1>3, <1>4, <1>5 DEF BankInv

----------------------------------------------------------------------------
(* Types.                                                                   *)

(* What a read writes is an entry, and an entry once written stays.         *)
LEMMA WrittenEntries ==
    ASSUME BankTypeOK, NEW S \in SUBSET Moves, NEW potKnown \in BOOLEAN
    PROVE  /\ Written(S, potKnown) \in [Moves -> Payees \cup {Queued, Unwritten}]
           /\ \A x \in Moves : entry[x] # Unwritten => Written(S, potKnown)[x] = entry[x]
           /\ \A x \in S : /\ made[x] >= conn.since
                           /\ x \in TopUps => potKnown /\ known[x]
                           => Written(S, potKnown)[x] # Unwritten
  <1>1. Match \in Payees \cup {Queued} /\ Match # Unwritten
    BY BankAssumption DEF BankTypeOK, Match, Queued, Unwritten
  <1> QED
    BY <1>1 DEF BankTypeOK, Written

LEMMA BankTypeStep ==
    ASSUME BankTypeOK, TokenInv, [BankNext]_bankVars
    PROVE  BankTypeOK'
  <1> USE IdleIsReader DEF BankTypeOK, bank, ledger
  <1>1. ASSUME NEW r \in Readers
        PROVE  /\ \A at \in Steps : [r EXCEPT !.at = at] \in Readers
               /\ \A at \in Steps, n \in Nat : [r EXCEPT !.at = at, !.pair = n] \in Readers
               /\ \A at \in Steps, n \in Nat : [r EXCEPT !.at = at, !.began = n] \in Readers
    BY <1>1 DEF Readers
  <1>2. reader.user \in Users /\ reader.pair \in Nat /\ reader.began \in Nat
        /\ conn.user \in Users
    BY DEF Readers, Connections
  <1>3. CASE BankTick
    BY <1>3 DEF BankTick
  <1>4. CASE EditLink
    BY <1>4 DEF EditLink
  <1>5. CASE StartConnect
    <2>1. conn' \in Connections
      BY <1>5 DEF StartConnect, Connections
    <2> QED
      BY <1>5, <2>1 DEF StartConnect
  <1>6. CASE Exchange
    <2>1. CASE LetGo /\ UNCHANGED <<live, approved, torn>>
      BY <1>6, <2>1 DEF Exchange, LetGo
    <2>2. CASE ~(LetGo /\ UNCHANGED <<live, approved, torn>>)
      <3>1. /\ live' = [live EXCEPT ![reader.user] = @ + 1]
            /\ approved' = approved \ {reader.user} /\ torn' = torn \cup {reader.user}
            /\ reader' = [reader EXCEPT !.at = "issued", !.pair = live[reader.user] + 1]
            /\ live[reader.user] < MaxPairs
        BY <1>6, <2>2 DEF Exchange
      <3>2. reader.user \in Owners
        BY <1>6 DEF Exchange, TokenInv
      <3>3. live[reader.user] + 1 \in Nat
        BY <3>2
      <3>4. live' \in [Owners -> Nat]
        BY <3>1, <3>3
      <3>5. reader' \in Readers
        BY <1>1, <3>1, <3>3 DEF Steps
      <3> QED
        BY <1>6, <3>1, <3>2, <3>4, <3>5 DEF Exchange
    <2> QED
      BY <2>1, <2>2
  <1>7. CASE KeepConnection
    <2>1. conn' \in Connections
      <3>1. CASE UNCHANGED conn
        BY <3>1
      <3>2. CASE conn' = [conn EXCEPT
                       !.user = reader.user, !.pair = reader.pair, !.status = "awaiting_approval",
                       !.since = IF conn.user = reader.user /\ conn.since # Never THEN @ ELSE reader.began,
                       !.through = IF conn.user = reader.user THEN @ ELSE Never,
                       !.hook = conn.user = reader.user /\ @]
        BY <1>2, <1>7, <3>2 DEF KeepConnection, Connections, Statuses, Times
      <3> QED
        BY <1>7, <3>1, <3>2 DEF KeepConnection
    <2>2. torn' \subseteq Owners
      BY <1>7 DEF KeepConnection
    <2> QED
      BY <1>7, <2>1, <2>2 DEF KeepConnection, LetGo
  <1>8. CASE Unauthorised
    BY <1>1, <1>8 DEF Unauthorised, Steps
  <1>9. CASE Refresh
    <2>1. /\ reader.user \in Owners /\ live[reader.user] + 1 \in Nat
      BY <1>9 DEF Refresh, TokenInv
    <2>2. live' \in [Owners -> Nat] /\ torn' \subseteq Owners
      BY <1>9, <2>1 DEF Refresh
    <2>3. conn' \in Connections
      <3>1. [conn EXCEPT !.status = "needs_reconnect", !.pair = 0] \in Connections
        BY DEF Connections, Statuses
      <3> QED
        BY <1>9, <3>1 DEF Refresh
    <2>4. [reader EXCEPT !.at = "rotated", !.pair = live[reader.user] + 1] \in Readers
      BY <1>1, <2>1 DEF Steps
    <2>5. reader' \in Readers
      BY <1>9, <2>4 DEF Refresh, LetGo
    <2> QED
      BY <1>9, <2>2, <2>3, <2>5 DEF Refresh
  <1>10. CASE StorePair
    <2>1. conn' \in Connections
      BY <1>2, <1>10 DEF StorePair, Connections
    <2>2. reader' \in Readers
      BY <1>1, <1>10 DEF StorePair, Steps
    <2> QED
      BY <1>10, <2>1, <2>2 DEF StorePair
  <1>11. CASE Ask
    <2>1. [reader EXCEPT !.at = "reading", !.began = now] \in Readers
      BY <1>1 DEF Steps
    <2>2. reader' \in Readers
      BY <1>11, <2>1 DEF Ask, LetGo
    <2> QED
      BY <1>11, <2>2 DEF Ask
  <1>12. CASE CatchUp
    <2> DEFINE seen == {x \in Moves : shown[x] # Never /\ made[x] >= From}
    <2>1. entry' \in [Moves -> Payees \cup {Queued, Unwritten}]
      <3>1. seen \in SUBSET Moves
        OBVIOUS
      <3>2. Written(seen, pot) \in [Moves -> Payees \cup {Queued, Unwritten}]
        BY <3>1, WrittenEntries
      <3> QED
        BY <1>12, <3>2 DEF CatchUp
    <2>2. pot' \in BOOLEAN /\ history' \in BOOLEAN
      BY <1>12 DEF CatchUp, Learning
    <2>3. conn' \in Connections
      BY <1>2, <1>12 DEF CatchUp, Connections, Statuses, Times
    <2> QED
      BY <1>12, <2>1, <2>2, <2>3 DEF CatchUp, LetGo
  <1>13. CASE Nudge
    <2>1. entry' \in [Moves -> Payees \cup {Queued, Unwritten}]
      <3>1. {reader.job} \in SUBSET Moves
        BY <1>13 DEF Nudge
      <3>2. Written({reader.job}, pot) \in [Moves -> Payees \cup {Queued, Unwritten}]
        BY <3>1, WrittenEntries
      <3> QED
        BY <1>13, <3>2 DEF Nudge
    <2>2. pot' \in BOOLEAN
      BY <1>13 DEF Nudge
    <2> QED
      BY <1>13, <2>1, <2>2 DEF Nudge, LetGo
  <1>14. CASE Crash
    BY <1>14 DEF Crash, LetGo
  <1>15. ASSUME NEW u \in Owners, Approve(u)
         PROVE  BankTypeOK'
    BY <1>15 DEF Approve
  <1>16. ASSUME NEW u \in Owners, FinishConnect(u)
         PROVE  BankTypeOK'
    <2>1. conn' \in Connections
      BY <1>16 DEF FinishConnect, Connections
    <2>2. reader' \in Readers
      BY <1>16 DEF FinishConnect, Idle, Readers, Steps, Users
    <2> QED
      BY <1>16, <2>1, <2>2 DEF FinishConnect
  <1>17. ASSUME NEW job \in {"catch-up"} \cup Moves, BeginRead(job)
         PROVE  BankTypeOK'
    <2>1. reader' \in Readers
      BY <1>2, <1>17 DEF BeginRead, Idle, Readers, Steps
    <2> QED
      BY <1>17, <2>1 DEF BeginRead
  <1>18. ASSUME NEW x \in Moves, Happens(x) \/ IsListed(x)
         PROVE  BankTypeOK'
    BY <1>18 DEF Happens, IsListed, Times
  <1>19. ASSUME NEW x \in Moves, NEW m \in Payees, AssignPayment(x, m)
         PROVE  BankTypeOK'
    BY <1>19 DEF AssignPayment
  <1>20. CASE UNCHANGED bankVars
    BY <1>20 DEF bankVars
  <1> QED
    BY <1>3, <1>4, <1>5, <1>6, <1>7, <1>8, <1>9, <1>10, <1>11, <1>12, <1>13, <1>14, <1>15, <1>16,
       <1>17, <1>18, <1>19, <1>20
    DEF BankNext

----------------------------------------------------------------------------
(* The token.                                                               *)

(* A step that is not about the connection, and lets go of the lock or      *)
(* keeps what it is held for, disturbs nothing of the token.                *)
LEMMA TokenKept ==
    ASSUME TokenInv, UNCHANGED <<live, torn>>,
           conn'.status = conn.status, conn'.user = conn.user, conn'.pair = conn.pair,
           reader' = Idle \/ UNCHANGED <<reader.at, reader.user, reader.pair>>
    PROVE  TokenInv'
  BY IdleIsReader DEF TokenInv, StoredPairIsLive, Held

LEMMA TokenStep ==
    ASSUME BankTypeOK, TokenInv, [BankNext]_bankVars
    PROVE  TokenInv'
  <1> USE DEF bank, ledger, LetGo
  <1>1. conn \in Connections /\ reader \in Readers
    BY DEF BankTypeOK
  <1>2. CASE BankTick \/ EditLink \/ Crash \/ Nudge \/ UNCHANGED bankVars
    BY <1>2, TokenKept DEF BankTick, EditLink, Crash, Nudge, bankVars
  <1>3. ASSUME NEW u \in Owners, Approve(u)
        PROVE  TokenInv'
    BY <1>3, TokenKept DEF Approve
  <1>4. ASSUME NEW x \in Moves, \/ Happens(x) \/ IsListed(x)
                                \/ \E m \in Payees : AssignPayment(x, m)
        PROVE  TokenInv'
    BY <1>4, TokenKept DEF Happens, IsListed, AssignPayment
  <1>5. CASE StartConnect
    BY <1>1, <1>5, TokenKept DEF StartConnect, Connections
  <1>6. CASE CatchUp
    BY <1>1, <1>6 DEF CatchUp, Connections, TokenInv, StoredPairIsLive, Held, Idle
  <1>7. ASSUME NEW u \in Owners, FinishConnect(u)
        PROVE  TokenInv'
    BY <1>1, <1>7 DEF FinishConnect, Connections, TokenInv, StoredPairIsLive, Held, Idle
  <1>8. CASE Exchange
    <2>1. CASE reader' = Idle /\ UNCHANGED <<live, approved, torn>>
      BY <1>8, <2>1, TokenKept DEF Exchange
    <2>2. CASE ~(reader' = Idle /\ UNCHANGED <<live, approved, torn>>)
      <3>1. /\ live' = [live EXCEPT ![reader.user] = @ + 1]
            /\ torn' = torn \cup {reader.user} /\ conn' = conn
            /\ reader' = [reader EXCEPT !.at = "issued", !.pair = live[reader.user] + 1]
        BY <1>8, <2>2 DEF Exchange
      <3>2. reader.user \in Owners
        BY <1>8 DEF Exchange, TokenInv
      <3>3. reader'.at = "issued" /\ reader'.user = reader.user
            /\ reader'.pair = live'[reader'.user]
        BY <1>1, <3>1, <3>2 DEF Readers, BankTypeOK
      <3> QED
        BY <3>1, <3>2, <3>3 DEF TokenInv, StoredPairIsLive, BankTypeOK
    <2> QED
      BY <2>1, <2>2
  <1>9. CASE KeepConnection
    <2>1. /\ reader.user \in Owners /\ reader.pair = live[reader.user]
          /\ reader' = Idle /\ live' = live
      BY <1>9 DEF KeepConnection, TokenInv
    <2>2. CASE UNCHANGED <<conn, torn>>
      BY <2>1, <2>2, TokenKept
    <2>3. CASE ~UNCHANGED <<conn, torn>>
      <3>1. /\ conn'.user = reader.user /\ conn'.pair = reader.pair
            /\ torn' = torn \ {reader.user}
        BY <1>1, <1>9, <2>3 DEF KeepConnection, Connections
      <3> QED
        BY <2>1, <3>1, IdleIsReader DEF TokenInv, StoredPairIsLive
    <2> QED
      BY <2>2, <2>3
  <1>10. CASE Unauthorised \/ Ask
    <2>1. /\ UNCHANGED <<conn, live, torn>>
          /\ reader.at = "asking"
          /\ \/ reader' = Idle
             \/ reader'.at \in {"refreshing", "reading"} /\ reader'.user = reader.user
      BY <1>1, <1>10 DEF Unauthorised, Ask, Readers
    <2> QED
      BY <2>1, IdleIsReader DEF TokenInv, StoredPairIsLive
  <1>11. CASE Refresh
    <2>1. /\ conn.status \in Held /\ reader.user = conn.user /\ reader.user \in Owners
      BY <1>11 DEF Refresh, TokenInv
    <2>2. CASE /\ live' = [live EXCEPT ![reader.user] = @ + 1]
               /\ torn' = torn \cup {reader.user} /\ conn' = conn
               /\ \/ reader' = [reader EXCEPT !.at = "rotated", !.pair = live[reader.user] + 1]
                  \/ reader' = Idle
      <3>1. reader' = Idle \/ /\ reader'.at = "rotated" /\ reader'.user = reader.user
                              /\ reader'.pair = live'[reader'.user]
        BY <1>1, <2>1, <2>2 DEF Readers, BankTypeOK
      <3> QED
        BY <2>1, <2>2, <3>1, IdleIsReader DEF TokenInv, StoredPairIsLive, BankTypeOK
    <2>3. CASE /\ conn' = [conn EXCEPT !.status = "needs_reconnect", !.pair = 0]
               /\ reader' = Idle /\ UNCHANGED <<live, torn>>
      BY <1>1, <2>3, IdleIsReader DEF TokenInv, StoredPairIsLive, Held, Connections
    <2>4. CASE reader' = Idle /\ UNCHANGED <<live, conn, torn>>
      BY <2>4, TokenKept
    <2> QED
      BY <1>11, <2>2, <2>3, <2>4 DEF Refresh
  <1>12. CASE StorePair
    <2>1. /\ conn.status \in Held /\ reader.user = conn.user /\ reader.user \in Owners
          /\ reader.pair = live[reader.user]
      BY <1>12 DEF StorePair, TokenInv
    <2>2. /\ conn'.status = conn.status /\ conn'.user = conn.user /\ conn'.pair = reader.pair
          /\ reader'.at = "asking" /\ reader'.user = reader.user /\ live' = live
      BY <1>1, <1>12 DEF StorePair, Connections, Readers
    <2> QED
      BY <2>1, <2>2 DEF TokenInv, StoredPairIsLive
  <1>13. ASSUME NEW job \in {"catch-up"} \cup Moves, BeginRead(job)
         PROVE  TokenInv'
    <2>1. conn.status \in Held /\ UNCHANGED <<conn, live, torn>>
      BY <1>13 DEF BeginRead, Held
    <2>2. reader'.at \in {"asking", "refreshing"} /\ reader'.user = conn.user
      BY <1>13 DEF BeginRead, Idle
    <2> QED
      BY <2>1, <2>2 DEF TokenInv, StoredPairIsLive
  <1> QED
    BY <1>2, <1>3, <1>4, <1>5, <1>6, <1>7, <1>8, <1>9, <1>10, <1>11, <1>12, <1>13 DEF BankNext

(* The bank reader's type invariant: with the token's, for a pair is only   *)
(* ever issued to a user the process holds the lock for.                    *)
THEOREM BankTypes == BankSpec => [](BankTypeOK /\ TokenInv)
  BY BankInitInv, BankTypeStep, TokenStep, PTL DEF BankSpec, BankInv

(* The stored pair is the one the bank honours, unless an answer or the     *)
(* process was lost between the bank's answer and the commit                *)
(* (_access_token).                                                         *)
THEOREM TheStoredPairIsLive == BankSpec => []StoredPairIsLive
  <1>1. TokenInv => StoredPairIsLive
    BY DEF TokenInv
  <1> QED
    BY <1>1, BankTypes, PTL

(* Nobody takes over an account that is being read, and the start from      *)
(* which one user's payments count survives every reconnect                 *)
(* (finish_connect).                                                        *)
THEOREM TheOwnerIsKept == BankSpec => OwnerIsKept
  <1>1. ASSUME BankTypeOK, BankNext
        PROVE  /\ conn.status \in Held /\ conn.user # Nobody => conn'.user = conn.user
               /\ conn'.user = conn.user /\ conn.since # Never => conn'.since = conn.since
    <2> USE DEF bank, ledger
    <2>1. conn \in Connections
      BY <1>1 DEF BankTypeOK
    <2>2. CASE KeepConnection
      BY <2>1, <2>2 DEF KeepConnection, Connections
    <2>3. CASE StartConnect \/ \E u \in Owners : FinishConnect(u)
      BY <2>1, <2>3 DEF StartConnect, FinishConnect, Connections
    <2>4. CASE Refresh \/ StorePair
      BY <2>1, <2>4 DEF Refresh, StorePair, Connections
    <2>5. CASE CatchUp
      BY <2>1, <2>5 DEF CatchUp, Connections
    <2>6. CASE UNCHANGED conn
      BY <2>6
    <2> QED
      BY <1>1, <2>2, <2>3, <2>4, <2>5, <2>6
      DEF BankNext, BankTick, EditLink, Exchange, Unauthorised, Ask, Nudge, Crash, Approve,
          BeginRead, Happens, IsListed, AssignPayment
  <1> QED
    BY <1>1, BankTypes, PTL DEF BankSpec, OwnerIsKept

----------------------------------------------------------------------------
(* Time, and what a complete read has seen.                                 *)

LEMMA TimeStep ==
    ASSUME BankTypeOK, TimeInv, [BankNext]_bankVars
    PROVE  TimeInv'
  <1> USE BankAssumption DEF bank, ledger, LetGo, Never
  <1>1. conn \in Connections /\ reader \in Readers /\ now \in Nat
    BY DEF BankTypeOK
  <1>2. reader.began \in Nat /\ conn.through \in Times
        /\ \A x \in Moves : made[x] \in Times /\ shown[x] \in Times
    BY <1>1 DEF Connections, Readers, BankTypeOK
  <1>3. ASSUME UNCHANGED <<now, bank>>, pot => pot',
               conn'.through \in {conn.through, reader.began, Never},
               reader'.began \in {reader.began, now, 0}
        PROVE  TimeInv'
    BY <1>2, <1>1, <1>3 DEF TimeInv, Listed, Times
  <1>4. CASE EditLink \/ Exchange \/ Unauthorised \/ Refresh \/ StorePair \/ Ask \/ UNCHANGED bankVars
    <2>1. UNCHANGED <<now, bank, pot>>
      BY <1>4 DEF EditLink, Exchange, Unauthorised, Refresh, StorePair, Ask, bankVars
    <2>2. conn'.through = conn.through
      BY <1>1, <1>4 DEF EditLink, Exchange, Unauthorised, Refresh, StorePair, Ask, bankVars, Connections
    <2>3. reader'.began \in {reader.began, now, 0}
      BY <1>1, <1>4, IdleIsReader
      DEF EditLink, Exchange, Unauthorised, Refresh, StorePair, Ask, bankVars, Readers
    <2> QED
      BY <1>3, <2>1, <2>2, <2>3
  <1>5. CASE StartConnect \/ KeepConnection \/ CatchUp \/ Nudge \/ Crash
    <2>1. UNCHANGED <<now, bank>>
      BY <1>5 DEF StartConnect, KeepConnection, CatchUp, Nudge, Crash
    <2>2. pot => pot'
      <3>1. ASSUME CatchUp, pot
            PROVE  pot'
        BY <3>1, Zenon DEF CatchUp
      <3>2. ASSUME Nudge, pot
            PROVE  pot'
        BY <3>2, Zenon DEF Nudge
      <3> QED
        BY <1>5, <3>1, <3>2 DEF StartConnect, KeepConnection, Crash
    <2>3. conn'.through \in {conn.through, reader.began, Never}
      <3>1. CASE StartConnect \/ Nudge \/ Crash
        BY <1>1, <3>1 DEF StartConnect, Nudge, Crash, Connections
      <3>2. CASE KeepConnection
        BY <1>1, <3>2 DEF KeepConnection, Connections
      <3>3. CASE CatchUp
        BY <1>1, <3>3 DEF CatchUp, Connections
      <3> QED
        BY <1>5, <3>1, <3>2, <3>3
    <2>4. reader'.began \in {reader.began, now, 0}
      BY <1>5, IdleIsReader DEF StartConnect, KeepConnection, CatchUp, Nudge, Crash
    <2> QED
      BY <1>3, <2>1, <2>2, <2>3, <2>4
  <1>6. ASSUME NEW u \in Owners, Approve(u) \/ FinishConnect(u)
        PROVE  TimeInv'
    <2>1. conn'.through = conn.through /\ reader'.began \in {reader.began, now}
      BY <1>1, <1>6 DEF Approve, FinishConnect, Connections, Idle
    <2> QED
      BY <1>3, <1>6, <2>1 DEF Approve, FinishConnect
  <1>7. ASSUME NEW job \in {"catch-up"} \cup Moves, BeginRead(job)
        PROVE  TimeInv'
    <2>1. conn' = conn /\ reader'.began = 0
      BY <1>7 DEF BeginRead, Idle
    <2> QED
      BY <1>3, <1>7, <2>1 DEF BeginRead
  <1>8. ASSUME NEW x \in Moves, NEW m \in Payees, AssignPayment(x, m)
        PROVE  TimeInv'
    BY <1>3, <1>8 DEF AssignPayment
  <1>9. CASE BankTick
    <2>1. \A x \in Moves : Listed(x)'
      BY <1>1, <1>2, <1>9 DEF BankTick, TimeInv, Listed, Times
    <2> QED
      BY <1>1, <1>2, <1>9, <2>1 DEF BankTick, TimeInv, Times
  <1>10. ASSUME NEW x \in Moves, Happens(x)
         PROVE  TimeInv'
    <2>1. shown[x] = Never
      BY <1>10 DEF Happens, TimeInv, Listed
    <2>2. Listed(x)'
      BY <1>1, <1>10, <2>1 DEF Happens, Listed, BankTypeOK
    <2>3. ASSUME NEW y \in Moves \ {x}
          PROVE  Listed(y)'
      <3>1. made'[y] = made[y] /\ known'[y] = known[y]
        BY <1>10, <2>3 DEF Happens, BankTypeOK
      <3> QED
        BY <1>10, <3>1 DEF Happens, TimeInv, Listed
    <2> QED
      BY <1>10, <2>2, <2>3 DEF Happens, TimeInv
  <1>11. ASSUME NEW x \in Moves, IsListed(x)
         PROVE  TimeInv'
    <2>1. Listed(x)'
      BY <1>1, <1>2, <1>11 DEF IsListed, TimeInv, Listed, BankTypeOK
    <2>2. ASSUME NEW y \in Moves \ {x}
          PROVE  Listed(y)'
      <3>1. shown'[y] = shown[y]
        BY <1>11, <2>2 DEF IsListed, BankTypeOK
      <3> QED
        BY <1>11, <3>1 DEF IsListed, TimeInv, Listed
    <2> QED
      BY <1>11, <2>1, <2>2 DEF IsListed, TimeInv
  <1> QED
    BY <1>4, <1>5, <1>6, <1>7, <1>8, <1>9, <1>10, <1>11 DEF BankNext

(* A complete read writes every transaction that was listed by the time it  *)
(* began: what lies before From was listed before the last complete read.   *)
LEMMA CompleteReadWrites ==
    ASSUME BankTypeOK, TimeInv, NothingMissed, NEW x \in Moves,
           shown[x] # Never, shown[x] < reader.began, made[x] >= conn.since,
           known[x], now - made[x] =< History,
           NEW seen, seen = {y \in Moves : shown[y] # Never /\ made[y] >= From}
    PROVE  Written(seen, pot)[x] # Unwritten
  <1>1. /\ now \in Nat /\ made[x] \in Nat /\ shown[x] \in Nat /\ reader.began \in Nat
        /\ conn.since \in Times /\ conn.through \in Times
    BY DEF BankTypeOK, TimeInv, Listed, Connections, Readers, Times
  <1>2. /\ reader.began =< now /\ shown[x] =< made[x] + Overlap
        /\ x \in TopUps => pot
    BY DEF TimeInv, Listed
  <1>3. seen \in SUBSET Moves /\ pot \in BOOLEAN
    BY DEF BankTypeOK
  <1>4. CASE x \in seen
    BY <1>2, <1>3, <1>4, WrittenEntries
  <1>5. CASE x \notin seen
    <2>1. made[x] < From
      BY <1>1, <1>5, BankAssumption DEF From, Later, Never, Times
    <2>2. conn.through # Never /\ made[x] < conn.through - Overlap
      BY <1>1, <1>2, <2>1, BankAssumption DEF From, Later, Never, Times
    <2>3. shown[x] < conn.through
      BY <1>1, <1>2, <2>2, BankAssumption DEF Times, Never
    <2>4. entry[x] # Unwritten
      BY <2>3 DEF NothingMissed
    <2> QED
      BY <1>3, <2>4, WrittenEntries
  <1> QED
    BY <1>4, <1>5

LEMMA MissStep ==
    ASSUME BankTypeOK, BankTypeOK', TimeInv, NothingMissed, [BankNext]_bankVars
    PROVE  NothingMissed'
  <1> USE BankAssumption DEF bank, ledger, LetGo
  <1>1. conn \in Connections /\ reader \in Readers /\ now \in Nat
        /\ entry \in [Moves -> Payees \cup {Queued, Unwritten}]
    BY DEF BankTypeOK
  <1>2. conn.since \in Times /\ conn.through \in Times /\ reader.began \in Nat
        /\ \A x \in Moves : made[x] \in Times /\ shown[x] \in Times
    BY <1>1 DEF Connections, Readers, BankTypeOK
  (* A step that reads nothing: what was written stays, no earlier          *)
  (* transaction is to be counted, and no later one to have been seen.      *)
  <1>3. ASSUME UNCHANGED bank, now' \in {now, now + 1},
               \A x \in Moves : entry[x] # Unwritten => entry'[x] # Unwritten,
               conn'.through \in {conn.through, Never},
               conn'.since = conn.since \/ conn.since = Never \/ conn'.through = Never,
               conn'.since \in Times
        PROVE  NothingMissed'
    BY <1>1, <1>2, <1>3 DEF NothingMissed, Times, Never
  <1>4. CASE \/ BankTick \/ EditLink \/ StartConnect \/ Exchange \/ Unauthorised \/ Refresh
             \/ StorePair \/ Ask \/ Crash \/ UNCHANGED bankVars
             \/ \E u \in Owners : Approve(u) \/ FinishConnect(u)
             \/ \E job \in {"catch-up"} \cup Moves : BeginRead(job)
    <2>1. UNCHANGED <<bank, entry>> /\ now' \in {now, now + 1}
      BY <1>4 DEF BankTick, EditLink, StartConnect, Exchange, Unauthorised, Refresh, StorePair, Ask,
                  Crash, Approve, FinishConnect, BeginRead, bankVars
    <2>2. conn'.through = conn.through /\ conn'.since = conn.since
      BY <1>1, <1>4
      DEF BankTick, EditLink, StartConnect, Exchange, Unauthorised, Refresh, StorePair, Ask, Crash,
          Approve, FinishConnect, BeginRead, bankVars, Connections
    <2> QED
      BY <1>2, <1>3, <2>1, <2>2
  <1>5. CASE KeepConnection
    <2>1. /\ conn'.through \in {conn.through, Never} /\ conn'.since \in Times
          /\ conn'.since = conn.since \/ conn.since = Never \/ conn'.through = Never
      <3>1. CASE UNCHANGED conn
        BY <1>2, <3>1
      <3>2. CASE conn' = [conn EXCEPT
                       !.user = reader.user, !.pair = reader.pair, !.status = "awaiting_approval",
                       !.since = IF conn.user = reader.user /\ conn.since # Never THEN @ ELSE reader.began,
                       !.through = IF conn.user = reader.user THEN @ ELSE Never,
                       !.hook = conn.user = reader.user /\ @]
        <4>1. /\ conn'.through = (IF conn.user = reader.user THEN conn.through ELSE Never)
              /\ conn'.since = (IF conn.user = reader.user /\ conn.since # Never
                               THEN conn.since ELSE reader.began)
          BY <1>1, <3>2 DEF Connections
        <4> QED
          BY <1>2, <4>1 DEF Times
      <3> QED
        BY <1>5, <3>1, <3>2 DEF KeepConnection
    <2> QED
      BY <1>3, <1>5, <2>1 DEF KeepConnection
  <1>6. CASE CatchUp
    <2> DEFINE seen == {x \in Moves : shown[x] # Never /\ made[x] >= From}
    <2>1. CASE UNCHANGED <<entry, pot, history, conn>>
      BY <1>2, <1>3, <1>6, <2>1 DEF CatchUp
    <2>2. CASE ~UNCHANGED <<entry, pot, history, conn>>
      <3>1. /\ conn'.since = conn.since
            /\ conn'.through = IF link THEN reader.began ELSE conn.through
            /\ entry' = IF link THEN Written(seen, pot) ELSE entry
        BY <1>1, <1>6, <2>2 DEF CatchUp, Connections
      <3>2. CASE ~link
        BY <1>2, <1>3, <1>6, <3>1, <3>2 DEF CatchUp
      <3>3. CASE link
        <4>1. UNCHANGED <<now, made, shown, known>>
          BY <1>6 DEF CatchUp
        <4>2. ASSUME NEW x \in Moves,
                     shown[x] # Never, shown[x] < reader.began, made[x] >= conn.since,
                     known[x], now - made[x] =< History
              PROVE  Written(seen, pot)[x] # Unwritten
          <5> HIDE DEF seen
          <5>1. seen = {y \in Moves : shown[y] # Never /\ made[y] >= From}
            BY DEF seen
          <5> QED
            BY <4>2, <5>1, CompleteReadWrites
        <4> HIDE DEF seen
        <4> QED
          BY <3>1, <3>3, <4>1, <4>2 DEF NothingMissed
      <3> QED
        BY <3>2, <3>3
    <2> QED
      BY <2>1, <2>2
  <1>7. CASE Nudge
    <2>1. {reader.job} \in SUBSET Moves /\ pot \in BOOLEAN
      BY <1>7 DEF Nudge, BankTypeOK
    <2>2. \A x \in Moves : entry[x] # Unwritten => entry'[x] # Unwritten
      <3>1. entry' = entry \/ entry' = Written({reader.job}, pot)
        BY <1>7 DEF Nudge
      <3> QED
        BY <2>1, <3>1, WrittenEntries
    <2> QED
      BY <1>2, <1>3, <1>7, <2>2 DEF Nudge
  <1>8. ASSUME NEW x \in Moves, NEW m \in Payees, AssignPayment(x, m)
        PROVE  NothingMissed'
    <2>1. \A y \in Moves : entry[y] # Unwritten => entry'[y] # Unwritten
      BY <1>1, <1>8 DEF AssignPayment
    <2> QED
      BY <1>2, <1>3, <1>8, <2>1 DEF AssignPayment
  <1>9. ASSUME NEW x \in Moves, Happens(x)
        PROVE  NothingMissed'
    <2>1. shown[x] = Never
      BY <1>9 DEF Happens, TimeInv, Listed
    <2>2. \A y \in Moves \ {x} : made'[y] = made[y] /\ known'[y] = known[y]
      BY <1>9 DEF Happens, BankTypeOK
    <2> QED
      BY <1>9, <2>1, <2>2 DEF Happens, NothingMissed
  <1>10. ASSUME NEW x \in Moves, IsListed(x)
         PROVE  NothingMissed'
    <2>1. shown'[x] = now /\ conn.through =< now
      BY <1>10 DEF IsListed, TimeInv, BankTypeOK
    <2>2. \A y \in Moves \ {x} : shown'[y] = shown[y]
      BY <1>10 DEF IsListed, BankTypeOK
    <2>3. ~(shown'[x] < conn.through)
      BY <1>1, <1>2, <2>1 DEF Times, Never
    <2> QED
      BY <1>10, <2>2, <2>3 DEF IsListed, NothingMissed
  <1> QED
    BY <1>4, <1>5, <1>6, <1>7, <1>8, <1>9, <1>10 DEF BankNext

(* Nothing is missed: what a complete read has passed is in the ledger, if  *)
(* it counts and the bank still served it, through reads that fail          *)
(* half-way, crashes, reconnects and late listings (catch_up, READ_OVERLAP, *)
(* read_through).                                                           *)
THEOREM NothingIsMissed == BankSpec => []NothingMissed
  <1>1. BankInit => TimeInv /\ NothingMissed
    BY BankInitInv DEF BankInv
  <1> QED
    BY <1>1, BankTypes, TimeStep, MissStep, PTL DEF BankSpec

-----------------------------------------------------------------------------
(* No notice goes out twice, for any number of payments, processes and      *)
(* runs, and no outage raises a second alarm.                               *)
(*                                                                          *)
(* NoticeGoesOutOnce is not inductive: it needs to know that what a run has *)
(* claimed nobody has sent and nobody else has claimed, that what a run has *)
(* committed nobody has pushed and nobody else will, and that an outage is  *)
(* named by a read the account has made.                                    *)

IsDown(n) == n.kind = "monzo_link_down"

(* The inbox rows and the pushes agree with what is recorded as sent.       *)
Recorded ==
    /\ \A n \in Notices : inbox[n] = (IF sent[n] = 0 THEN 0 ELSE 1) /\ pushed[n] =< inbox[n]
    /\ \A r \in Runners : runner[r] # Resting => runner[r].now # 0

(* Two runs claim, and two runs push, different notices.                    *)
Exclusive ==
    \A q \in Runners :
        /\ \A n \in runner[q].due :
              /\ runner[q].at = "claimed" => sent[n] = 0
              /\ runner[q].at = "committed" => sent[n] # 0 /\ pushed[n] = 0
        /\ \A r \in Runners \ {q} :
              runner[q].at = runner[r].at /\ runner[q].at \in {"claimed", "committed"} =>
                  runner[q].due \cap runner[r].due = {}

(* An outage is named by a read there has been.                             *)
Dated ==
    /\ \A n \in Notices : IsDown(n) /\ sent[n] # 0 => n.subject \in 0 .. account.success
    /\ \A r \in Runners : \A n \in runner[r].due : IsDown(n) => n.subject \in 0 .. account.success

NoticesInv == NoticesTypeOK /\ Recorded /\ Exclusive /\ Dated

----------------------------------------------------------------------------
(* What is due are notices, none of them sent, and only the outage of now.  *)
LEMMA DueNotices ==
    ASSUME NoticesTypeOK
    PROVE  /\ NoticesDue \subseteq Notices
           /\ \A n \in NoticesDue : IsDown(n) => n.subject = account.success
    <1> USE NoticesAssumption
    <1>1. \A p \in Receipts : [kind |-> "payment_queued", subject |-> p] \in Notices
        BY DEF Notices
    <1>2. \A p \in Receipts : [kind |-> "payment_recorded", subject |-> p] \in Notices
        BY DEF Notices
    <1>3. Payment("payment_queued", "queued") \cup Payment("payment_recorded", "member")
              \subseteq Notices
        BY <1>1, <1>2 DEF Payment
    <1>4. Down \in Notices
        BY DEF Down, Notices, Outage, OutageNames, NoticesTypeOK
    <1>5. \A s \in LatestDown : [kind |-> "monzo_link_recovered", subject |-> s] \in Notices
        <2> SUFFICES ASSUME NEW s \in LatestDown
                     PROVE  s \in OutageNames
            BY DEF Notices
        <2>1. PICK n \in Notices : n.kind = "monzo_link_down" /\ s = n.subject
            BY DEF LatestDown
        <2> QED BY <2>1 DEF Notices
    <1>6. LinkDue \subseteq Notices
        BY <1>4, <1>5 DEF LinkDue
    <1>7. ApprovalDue \subseteq Notices
        BY DEF ApprovalDue, Notices, NoticesTypeOK
    <1>8. \A n \in NoticesDue : IsDown(n) => n.subject = account.success
        BY DEF NoticesDue, IsDown, Payment, LinkDue, ApprovalDue, Down, Outage
    <1> QED BY <1>3, <1>6, <1>7, <1>8 DEF NoticesDue

LEMMA NoticesInitInv == NoticesInit => NoticesInv
    <1> SUFFICES ASSUME NoticesInit PROVE NoticesInv
        OBVIOUS
    <1> USE NoticesAssumption DEF NoticesInit, Resting
    <1>1. NoticesTypeOK
        BY DEF NoticesTypeOK
    <1>2. Recorded /\ Exclusive /\ Dated
        BY DEF Recorded, Exclusive, Dated
    <1> QED BY <1>1, <1>2 DEF NoticesInv

(* The payments and the link move under the runs without touching them.     *)
LEMMA WorldStep ==
    ASSUME NoticesInv, UNCHANGED <<told, runner, started>>, NoticesTypeOK',
           account'.success >= account.success
    PROVE  NoticesInv'
    <1> USE DEF NoticesInv, told
    <1>1. Recorded' /\ Exclusive'
        BY DEF Recorded, Exclusive, Resting
    <1>2. Dated'
        BY DEF Dated, IsDown, NoticesTypeOK
    <1> QED BY <1>1, <1>2

LEMMA PrepareStep ==
    ASSUME NoticesInv, NEW r \in Runners, Prepare(r)
    PROVE  NoticesInv'
    <1> USE NoticesAssumption DEF NoticesInv, Prepare, told, money
    <1>1. NoticesTypeOK'
        BY DueNotices DEF NoticesTypeOK
    <1>2. /\ runner'[r].at = "reading" /\ runner'[r].now # 0 /\ runner'[r].due = NoticesDue
          /\ \A q \in Runners \ {r} : runner'[q] = runner[q]
        BY DEF NoticesTypeOK
    <1>3. Recorded'
        BY <1>2 DEF Recorded, Resting
    <1>4. Exclusive'
        BY <1>2 DEF Exclusive
    <1>5. Dated'
        <2>1. \A n \in runner'[r].due : IsDown(n) => n.subject \in 0 .. account.success
            BY <1>2, DueNotices DEF NoticesTypeOK
        <2> QED BY <1>2, <2>1 DEF Dated, IsDown
    <1> QED BY <1>1, <1>3, <1>4, <1>5

LEMMA ClaimStep ==
    ASSUME NoticesInv, NEW r \in Runners, ClaimNotices(r)
    PROVE  NoticesInv'
    <1> DEFINE mine == {n \in runner[r].due : sent[n] = 0}
    <1>0. NoticesTypeOK /\ Recorded /\ Exclusive /\ Dated
        BY DEF NoticesInv
    <1>1. /\ runner'[r] = [runner[r] EXCEPT !.at = "claimed", !.due = mine]
          /\ \A q \in Runners \ {r} : runner'[q] = runner[q]
          /\ runner' = [q \in Runners |-> runner'[q]]
        BY <1>0 DEF NoticesTypeOK, ClaimNotices
    <1>2. /\ runner[r].at = "reading"
          /\ \A q \in Runners : runner[q].at = "claimed" => runner[q].due \cap runner[r].due = {}
          /\ UNCHANGED <<receipt, aged, account, approval, sent, inbox, pushed, started>>
        BY DEF ClaimNotices, told, money
    <1>3. /\ mine \subseteq runner[r].due
          /\ \A n \in mine : sent[n] = 0
        OBVIOUS
    <1>4. runner[r] \in [at: {"resting", "reading", "claimed", "committed"},
                         now: 0 .. MaxRuns, due: SUBSET Notices]
        BY <1>0 DEF NoticesTypeOK
    <1> HIDE DEF mine
    <1>5. /\ runner'[r].at = "claimed" /\ runner'[r].now = runner[r].now /\ runner'[r].due = mine
          /\ runner'[r] \in [at: {"resting", "reading", "claimed", "committed"},
                             now: 0 .. MaxRuns, due: SUBSET Notices]
        BY <1>1, <1>3, <1>4
    <1>6. NoticesTypeOK'
        <2> DEFINE T == [at: {"resting", "reading", "claimed", "committed"},
                         now: 0 .. MaxRuns, due: SUBSET Notices]
        <2>1. runner \in [Runners -> T] /\ runner'[r] \in T
            BY <1>0, <1>5 DEF NoticesTypeOK
        <2> HIDE DEF T
        <2>2. \A q \in Runners : runner'[q] \in T
            BY <1>1, <2>1
        <2>3. runner' \in [Runners -> T]
            BY <1>1, <2>2
        <2> QED BY <1>0, <1>2, <2>3 DEF NoticesTypeOK, T
    <1>7. runner[r].now # 0
        BY <1>0, <1>2 DEF Recorded, Resting
    <1>8. Recorded'
        <2>1. \A q \in Runners : runner'[q] # Resting => runner'[q].now # 0
            BY <1>0, <1>1, <1>5, <1>7 DEF Recorded
        <2> QED BY <1>0, <1>2, <2>1 DEF Recorded
    <1>9. Exclusive'
        <2>1. \A n \in runner'[r].due : sent[n] = 0
            BY <1>3, <1>5
        <2>2. \A q \in Runners \ {r} : runner'[q].at = "claimed" =>
                  runner'[q].due \cap runner'[r].due = {}
            BY <1>1, <1>2, <1>3, <1>5
        <2>3. ASSUME NEW q \in Runners, NEW n \in runner'[q].due
              PROVE  /\ runner'[q].at = "claimed" => sent'[n] = 0
                     /\ runner'[q].at = "committed" => sent'[n] # 0 /\ pushed'[n] = 0
            <3>1. CASE q = r
                BY <1>2, <1>5, <2>1, <3>1
            <3>2. CASE q # r
                BY <1>0, <1>1, <1>2, <3>2, <2>3 DEF Exclusive
            <3> QED BY <3>1, <3>2
        <2>4. ASSUME NEW p \in Runners, NEW q \in Runners \ {p},
                     runner'[p].at = runner'[q].at, runner'[p].at \in {"claimed", "committed"}
              PROVE  runner'[p].due \cap runner'[q].due = {}
            <3>1. CASE p = r \/ q = r
                BY <1>1, <1>5, <2>2, <2>4, <3>1
            <3>2. CASE p # r /\ q # r
                BY <1>0, <1>1, <2>4, <3>2 DEF Exclusive
            <3> QED BY <3>1, <3>2
        <2> QED BY <2>3, <2>4 DEF Exclusive
    <1>10. Dated'
        BY <1>0, <1>1, <1>2, <1>3, <1>5 DEF Dated, IsDown
    <1> QED BY <1>6, <1>8, <1>9, <1>10 DEF NoticesInv

LEMMA CommitStep ==
    ASSUME NoticesInv, NEW r \in Runners, Commit(r)
    PROVE  NoticesInv'
    <1> USE DEF NoticesInv, Commit, told, money
    <1>1. /\ runner'[r].at = "committed" /\ runner'[r].now = runner[r].now
          /\ runner'[r].due = runner[r].due /\ runner[r].at = "claimed"
          /\ \A q \in Runners \ {r} : runner'[q] = runner[q]
        BY DEF NoticesTypeOK
    <1>2. /\ runner[r].due \subseteq Notices
          /\ runner[r].now \in 0 .. MaxRuns /\ runner[r].now # 0
        BY <1>1 DEF NoticesTypeOK, Recorded, Resting
    <1>3. NoticesTypeOK'
        BY <1>2, NoticesAssumption DEF NoticesTypeOK
    <1>4. \A n \in Notices :
              /\ n \in runner[r].due => sent[n] = 0 /\ inbox[n] = 0 /\ sent'[n] # 0 /\ inbox'[n] = 1
              /\ n \notin runner[r].due => sent'[n] = sent[n] /\ inbox'[n] = inbox[n]
        BY <1>1, <1>2 DEF Exclusive, Recorded, NoticesTypeOK
    <1>5. Recorded'
        <2>1. \A n \in Notices : inbox'[n] = (IF sent'[n] = 0 THEN 0 ELSE 1) /\ pushed'[n] =< inbox'[n]
            BY <1>4 DEF Recorded, NoticesTypeOK
        <2>2. \A q \in Runners : runner'[q] # Resting => runner'[q].now # 0
            BY <1>1, <1>2 DEF Recorded
        <2> QED BY <2>1, <2>2 DEF Recorded, Resting
    <1>6. Exclusive'
        <2>1. \A n \in runner[r].due : pushed[n] = 0
            BY <1>2, <1>4 DEF Recorded, NoticesTypeOK
        <2>2. \A q \in Runners \ {r} : runner[q].at = "committed" =>
                  runner[q].due \cap runner[r].due = {}
            BY <1>1 DEF Exclusive
        <2>3. \A q \in Runners : runner[q].due \subseteq Notices
            BY DEF NoticesTypeOK
        <2> QED BY <1>1, <1>2, <1>4, <2>1, <2>2, <2>3 DEF Exclusive
    <1>7. Dated'
        BY <1>1, <1>2, <1>4 DEF Dated, IsDown
    <1> QED BY <1>3, <1>5, <1>6, <1>7

LEMMA PushStep ==
    ASSUME NoticesInv, NEW r \in Runners, Push(r)
    PROVE  NoticesInv'
    <1> USE DEF NoticesInv, Push, told, money
    <1>1. /\ runner'[r] = Resting /\ runner[r].at = "committed"
          /\ \A q \in Runners \ {r} : runner'[q] = runner[q]
        BY DEF NoticesTypeOK
    <1>2. PICK arrives \in {{}, runner[r].due} :
              pushed' = [n \in Notices |-> pushed[n] + (IF n \in arrives THEN 1 ELSE 0)]
        OBVIOUS
    <1>3. runner[r].due \subseteq Notices
        BY DEF NoticesTypeOK
    <1>4. NoticesTypeOK'
        BY <1>2, NoticesAssumption DEF NoticesTypeOK, Resting
    <1>5. \A n \in Notices :
              /\ n \in runner[r].due => inbox[n] = 1 /\ pushed'[n] \in {0, 1}
              /\ n \notin runner[r].due => pushed'[n] = pushed[n]
        BY <1>1, <1>2, <1>3 DEF Exclusive, Recorded, NoticesTypeOK
    <1>6. Recorded'
        <2>1. \A n \in Notices : inbox'[n] = (IF sent'[n] = 0 THEN 0 ELSE 1) /\ pushed'[n] =< inbox'[n]
            BY <1>5 DEF Recorded, NoticesTypeOK
        <2>2. \A q \in Runners : runner'[q] # Resting => runner'[q].now # 0
            BY <1>1 DEF Recorded
        <2> QED BY <2>1, <2>2 DEF Recorded, Resting
    <1>7. Exclusive'
        <2>1. \A q \in Runners : runner[q].due \subseteq Notices
            BY DEF NoticesTypeOK
        <2> QED BY <1>1, <1>5, <2>1 DEF Exclusive, Resting
    <1>8. Dated'
        BY <1>1 DEF Dated, IsDown, Resting
    <1> QED BY <1>4, <1>6, <1>7, <1>8

LEMMA CrashStep ==
    ASSUME NoticesInv, NEW r \in Runners, RunnerCrash(r)
    PROVE  NoticesInv'
    <1> USE DEF NoticesInv, RunnerCrash, told, money
    <1>1. /\ runner'[r] = Resting
          /\ \A q \in Runners \ {r} : runner'[q] = runner[q]
        BY DEF NoticesTypeOK
    <1>2. NoticesTypeOK'
        BY NoticesAssumption DEF NoticesTypeOK, Resting
    <1>3. Recorded' /\ Exclusive' /\ Dated'
        BY <1>1 DEF Recorded, Exclusive, Dated, IsDown, Resting
    <1> QED BY <1>2, <1>3

LEMMA NoticesStep == NoticesInv /\ [NoticesNext]_noticesVars => NoticesInv'
    <1> SUFFICES ASSUME NoticesInv, [NoticesNext]_noticesVars PROVE NoticesInv'
        OBVIOUS
    <1> USE NoticesAssumption
    <1>0. NoticesTypeOK
        BY DEF NoticesInv
    <1>1. CASE LinkReads
        <2>1. NoticesTypeOK' /\ account'.success >= account.success
            BY <1>0, <1>1 DEF LinkReads, NoticesTypeOK, money, told
        <2> QED BY <1>1, <2>1, WorldStep DEF LinkReads
    <1>2. CASE LinkFails
        <2>1. account'.success = account.success
              /\ account' \in [status: {"not_connected", "awaiting_approval", "connected",
                                        "needs_reconnect"}, success: 0 .. MaxReads, stale: BOOLEAN]
            BY <1>0, <1>2 DEF LinkFails, NoticesTypeOK
        <2>2. NoticesTypeOK' /\ account'.success >= account.success
            BY <1>0, <1>2, <2>1 DEF LinkFails, NoticesTypeOK, money, told
        <2> QED BY <1>2, <2>2, WorldStep DEF LinkFails
    <1>3. CASE Reconnects
        <2>1. NoticesTypeOK' /\ account'.success >= account.success
            BY <1>0, <1>3 DEF Reconnects, NoticesTypeOK, money, told
        <2> QED BY <1>3, <2>1, WorldStep DEF Reconnects
    <1>4. CASE ApprovalAges
        <2>1. NoticesTypeOK' /\ account'.success >= account.success
            BY <1>0, <1>4 DEF ApprovalAges, NoticesTypeOK, money, told
        <2> QED BY <1>4, <2>1, WorldStep DEF ApprovalAges
    <1>5. ASSUME NEW p \in Receipts, PaymentMoves(p)
          PROVE  NoticesInv'
        <2>1. NoticesTypeOK' /\ account'.success >= account.success
            BY <1>0, <1>5 DEF PaymentMoves, NoticesTypeOK, told
        <2> QED BY <1>5, <2>1, WorldStep DEF PaymentMoves
    <1>6. ASSUME NEW r \in Runners,
                 Prepare(r) \/ ClaimNotices(r) \/ Commit(r) \/ Push(r) \/ RunnerCrash(r)
          PROVE  NoticesInv'
        BY <1>6, PrepareStep, ClaimStep, CommitStep, PushStep, CrashStep
    <1>7. CASE UNCHANGED noticesVars
        <2>1. NoticesTypeOK' /\ account'.success >= account.success
            BY <1>0, <1>7 DEF noticesVars, NoticesTypeOK
        <2> QED BY <1>7, <2>1, WorldStep DEF noticesVars, told
    <1> QED BY <1>1, <1>2, <1>3, <1>4, <1>5, <1>6, <1>7 DEF NoticesNext

(* Every column of the notices keeps its type (notification_sends,          *)
(* member_notifications, monzo_connections).                                *)
THEOREM NoticeTypes == NoticesSpec => []NoticesTypeOK
    <1>1. NoticesInv => NoticesTypeOK
        BY DEF NoticesInv
    <1> QED BY NoticesInitInv, NoticesStep, <1>1, PTL DEF NoticesSpec

(* The alarms of one kind are told apart by their outage, and the account   *)
(* has no more outages than reads and one.                                  *)
LEMMA AlarmsAreFew ==
    ASSUME NoticesInv
    PROVE  Cardinality({n \in Notices : n.kind = "monzo_link_down" /\ sent[n] # 0})
               =< account.success + 1
    <1> DEFINE S == {n \in Notices : n.kind = "monzo_link_down" /\ sent[n] # 0}
               T == 0 .. account.success
               f == [n \in S |-> n.subject]
    <1>1. account.success \in Nat
        BY NoticesAssumption DEF NoticesInv, NoticesTypeOK
    <1>2. \A n \in S : n = [kind |-> "monzo_link_down", subject |-> n.subject] /\ n.subject \in T
        BY DEF NoticesInv, Dated, IsDown, Notices
    <1>3. f \in Injection(S, T)
        BY <1>2 DEF Injection, IsInjective
    <1>4. IsFiniteSet(T) /\ Cardinality(T) = account.success + 1
        BY <1>1, FS_Interval
    <1> HIDE DEF S, T, f
    <1>5. Cardinality(S) =< account.success + 1
        BY <1>3, <1>4, FS_Injection
    <1> QED BY <1>5 DEF S

(* No notice is kept or pushed twice, and no outage raises a second alarm,  *)
(* however the runs of two processes overlap or die (_claim,                *)
(* run_payment_notices, notify_monzo_link).                                 *)
THEOREM NoticesGoOutOnce == NoticesSpec => []NoticeGoesOutOnce
    <1>1. NoticesInv => NoticeGoesOutOnce
        <2> SUFFICES ASSUME NoticesInv PROVE NoticeGoesOutOnce
            OBVIOUS
        <2>1. \A n \in Notices : inbox[n] =< 1 /\ pushed[n] =< inbox[n]
            BY DEF NoticesInv, Recorded
        <2> QED BY <2>1, AlarmsAreFew DEF NoticeGoesOutOnce
    <1> QED BY NoticesInitInv, NoticesStep, <1>1, PTL DEF NoticesSpec
=============================================================================
