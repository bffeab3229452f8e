------------------------------ MODULE Accounts ------------------------------
(* One member's credential: the PIN and its lockout, the reset journey an   *)
(* admin opens, and the sessions minted under it.  A sign-in commits its    *)
(* counters before it mints, and a refresh commits the revocation of the    *)
(* old token before it mints the new one, so a change of PIN can fall in    *)
(* between.                                                                 *)
EXTENDS Integers, FiniteSets

CONSTANTS
    Clients,      \* requests that can be under way for this member
    Sessions,     \* refresh_tokens rows that can be minted
    MaxAttempts,  \* MAX_FAILED_ATTEMPTS
    MaxPins,      \* bound: PINs ever set
    MaxResets     \* bound: resets an admin issues

ASSUME AccountsAssumption ==
    /\ MaxAttempts \in Nat \ {0} /\ MaxPins \in Nat \ {0} /\ MaxResets \in Nat

VARIABLES
    pin,       \* which PIN the profile's hash is of: 0 is no PIN
    newest,    \* stage of the newest player_pin_reset audit row, "lapsed" past 24 hours
    failed,    \* failed_login_count
    lock,      \* locked_until: none, in the future, in the past
    session,   \* each refresh token: state, the PIN it was opened under, and
               \* (history) whether its request was under way as the PIN changed
    client,    \* each request between its read and its writes
    deleted,   \* profiles.deleted_at is set
    pins,      \* PINs set so far
    resets,    \* resets issued so far
    wrong,     \* (history) wrong PINs recorded since the account was last let off
    raced      \* (history) the counter was written between another's read and write

accountVars == <<pin, newest, failed, lock, session, client, deleted, pins, resets, wrong, raced>>
attempts == <<failed, lock, wrong, raced>>
bounds == <<pins, resets>>

NotMinted == [state |-> "none", under |-> 0, late |-> FALSE]
Idle == [at |-> "idle", under |-> 0, count |-> 0, lock |-> "none", old |-> {}, late |-> FALSE]

LiveSessions == {s \in Sessions : session[s].state = "live"}

Revoked(S) == [s \in Sessions |-> IF s \in S THEN [session[s] EXCEPT !.state = "revoked"]
                                  ELSE session[s]]

(* Mutant of RevokeAll: the credential changes and the sessions stay.       *)
RevokeNone == session

(* revoke_all_refresh_tokens.                                               *)
RevokeAll == Revoked(LiveSessions)

(* The counter is written and, of everyone but C, another write of it is to *)
(* come.                                                                    *)
Counting == {c \in Clients : client[c].at \in {"right", "wrong", "change", "set"}}
Races(C) == raced' = (raced \/ Counting \ C # {})

LetOff == failed' = 0 /\ lock' = "none" /\ wrong' = 0 /\ Races({})

(* A request writes only what it read set.                                  *)
LetsOff(c) ==
    /\ failed' = IF client[c].count = 0 THEN failed ELSE 0
    /\ lock' = IF client[c].lock = "none" THEN lock ELSE "none"
    /\ wrong' = 0 /\ Races({c})

Reads(at) == [Idle EXCEPT !.at = at, !.count = failed, !.lock = lock]

Starts(c, request) == client[c] = Idle /\ client' = [client EXCEPT ![c] = request]
Ends(c) == client' = [client EXCEPT ![c] = Idle]

(* C are answered; every other request under way as the credential changes  *)
(* is late.                                                                 *)
Outdates(C) ==
    client' = [d \in Clients |-> IF d \in C \/ client[d] = Idle THEN Idle
                                 ELSE [client[d] EXCEPT !.late = TRUE]]

----------------------------------------------------------------------------
(* Signing in                                                               *)

MayAnswer == ~deleted /\ pin # 0 /\ lock # "running"

RightPin(c) ==
    /\ MayAnswer
    /\ Starts(c, [Reads("right") EXCEPT !.under = pin])
    /\ UNCHANGED <<pin, newest, attempts, session, deleted, bounds>>

(* The first commit clears what the read found set.                         *)
ClearsAttempts(c) ==
    /\ client[c].at = "right"
    /\ IF client[c].count # 0 \/ client[c].lock # "none" THEN LetsOff(c) ELSE UNCHANGED attempts
    /\ client' = [client EXCEPT ![c].at = "mint"]
    /\ UNCHANGED <<pin, newest, session, deleted, bounds>>

(* _issue_token_pair, for a sign-in or a refresh.                           *)
Mints(c, s) ==
    /\ client[c].at = "mint" /\ session[s] = NotMinted
    /\ session' = [session EXCEPT ![s] = [state |-> "live", under |-> client[c].under,
                                                late |-> client[c].late]]
    /\ Ends(c)
    /\ UNCHANGED <<pin, newest, attempts, deleted, bounds>>

(* A wrong PIN rolls its read back, is charged, and reads the account again.*)
WrongPin(c) ==
    /\ MayAnswer /\ Starts(c, [Idle EXCEPT !.at = "charge"])
    /\ UNCHANGED <<pin, newest, attempts, session, deleted, bounds>>

Charged(c) ==
    /\ client[c].at = "charge"
    /\ client' = [client EXCEPT ![c].at = "wrong", ![c].count = failed, ![c].lock = lock]
    /\ UNCHANGED <<pin, newest, attempts, session, deleted, bounds>>

(* Mutant of Counted: an expired lock keeps the count that set it.          *)
CountedOn(c) == client[c].count + 1

(* A lockout that has expired gives the counter back.                       *)
Counted(c) == IF client[c].lock = "over" THEN 1 ELSE client[c].count + 1

RecordsWrongPin(c) ==
    /\ client[c].at = "wrong"
    /\ failed' = Counted(c)
    /\ lock' = IF Counted(c) >= MaxAttempts THEN "running"
               ELSE IF client[c].lock = "over" THEN "none" ELSE lock
    /\ wrong' = IF client[c].lock = "over" THEN 1 ELSE wrong + 1
    /\ Races({c}) /\ Ends(c)
    /\ UNCHANGED <<pin, newest, session, deleted, bounds>>

LockExpires ==
    /\ lock = "running" /\ lock' = "over"
    /\ UNCHANGED <<pin, newest, failed, wrong, raced, session, client, deleted, bounds>>

(* unlock_player.                                                           *)
Unlock ==
    /\ LetOff
    /\ UNCHANGED <<pin, newest, session, client, deleted, bounds>>

----------------------------------------------------------------------------
(* Refreshing and signing out                                               *)

(* A token that is live is rotated; one already rotated away is a replay.   *)
Presents(c, s) ==
    /\ session[s].state = "live"
    /\ Starts(c, [Idle EXCEPT !.at = "rotate", !.under = session[s].under, !.old = {s},
                              !.late = session[s].late])
    /\ UNCHANGED <<pin, newest, attempts, session, deleted, bounds>>

Replays(s) ==
    /\ session[s].state = "revoked"
    /\ session' = Revoked(LiveSessions)
    /\ UNCHANGED <<pin, newest, attempts, client, deleted, bounds>>

(* The revocation commits; a deleted profile then gets no successor.        *)
Rotates(c) ==
    /\ client[c].at = "rotate"
    /\ session' = Revoked(client[c].old)
    /\ client' = [client EXCEPT ![c].at = "profile", ![c].old = {}]
    /\ UNCHANGED <<pin, newest, attempts, deleted, bounds>>

FindsProfile(c) ==
    /\ client[c].at = "profile"
    /\ IF deleted THEN Ends(c) ELSE client' = [client EXCEPT ![c].at = "mint"]
    /\ UNCHANGED <<pin, newest, attempts, session, deleted, bounds>>

Logout(s) ==
    /\ session[s].state = "live"
    /\ session' = Revoked({s})
    /\ UNCHANGED <<pin, newest, attempts, client, deleted, bounds>>

----------------------------------------------------------------------------
(* Changing and resetting the PIN                                           *)

(* An access token outlives every revocation, so a signed-in member may ask.*)
ChangeRead(c) ==
    /\ ~deleted /\ pin # 0 /\ Starts(c, Reads("change"))
    /\ UNCHANGED <<pin, newest, attempts, session, deleted, bounds>>

SetRead(c) ==
    /\ ~deleted /\ pin = 0 /\ newest = "reset" /\ Starts(c, Reads("set"))
    /\ UNCHANGED <<pin, newest, attempts, session, deleted, bounds>>

(* change_pin and set_pin_after_reset.                                      *)
NewPin(c) ==
    /\ client[c].at \in {"change", "set"} /\ pins < MaxPins
    /\ pin' = pins + 1 /\ pins' = pins + 1
    /\ newest' = IF client[c].at = "set" THEN "set" ELSE newest
    /\ LetsOff(c) /\ session' = RevokeAll
    /\ Outdates({c})
    /\ UNCHANGED <<deleted, resets>>

(* reset_player_pin: clear_pin and the audit row that opens the window.     *)
ResetPin ==
    /\ ~deleted /\ resets < MaxResets /\ resets' = resets + 1
    /\ pin' = 0 /\ newest' = "reset"
    /\ LetOff /\ session' = RevokeAll
    /\ Outdates({})
    /\ UNCHANGED <<deleted, pins>>

(* The member asks; this row is now the newest, and it opens nothing.       *)
ResetRequest ==
    /\ ~deleted /\ newest' = "requested"
    /\ UNCHANGED <<pin, attempts, session, client, deleted, bounds>>

WindowLapses ==
    /\ newest = "reset" /\ newest' = "lapsed"
    /\ UNCHANGED <<pin, attempts, session, client, deleted, bounds>>

(* delete_player keeps the PIN; the member's own erasure clears it.         *)
Delete ==
    /\ ~deleted /\ deleted' = TRUE
    /\ \/ pin' = pin /\ UNCHANGED attempts
       \/ pin' = 0 /\ LetOff
    /\ session' = RevokeAll
    /\ Outdates({})
    /\ UNCHANGED <<newest, bounds>>

AccountsInit ==
    /\ pin = 1 /\ pins = 1 /\ resets = 0 /\ newest = "none" /\ failed = 0 /\ lock = "none"
    /\ session = [s \in Sessions |-> NotMinted]
    /\ client = [c \in Clients |-> Idle]
    /\ deleted = FALSE /\ wrong = 0 /\ raced = FALSE

AccountsNext ==
    \/ LockExpires \/ Unlock \/ ResetPin \/ ResetRequest \/ WindowLapses \/ Delete
    \/ \E c \in Clients :
           \/ RightPin(c) \/ ClearsAttempts(c) \/ WrongPin(c) \/ Charged(c)
           \/ RecordsWrongPin(c)
           \/ Rotates(c) \/ FindsProfile(c) \/ ChangeRead(c) \/ SetRead(c) \/ NewPin(c)
           \/ \E s \in Sessions : Mints(c, s) \/ Presents(c, s)
    \/ \E s \in Sessions : Replays(s) \/ Logout(s)

AccountsSpec == AccountsInit /\ [][AccountsNext]_accountVars

----------------------------------------------------------------------------
(* "End every session opened with the old one": whatever sequence of        *)
(* sign-ins, refreshes, resets and deletions came before, a session that    *)
(* can still be refreshed was opened under the PIN the account has, unless  *)
(* its own request was under way when the PIN changed (change_pin,          *)
(* clear_pin, set_pin_after_reset, delete_player).                          *)
SessionsFollowThePin == \A s \in LiveSessions : session[s].late \/ (session[s].under = pin /\ ~deleted)

(* Five wrong PINs lock the account and no fewer, counted afresh from the   *)
(* last sign-in, unlock, new PIN or expired lock: an expired lock gives the *)
(* counter back and not one attempt (login, Batch 66).  Two writes of the   *)
(* counter at once can lose one.                                            *)
LockIsEarned == ~raced => failed = wrong /\ (lock = "running" => wrong >= MaxAttempts)
=============================================================================
