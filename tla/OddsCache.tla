----------------------------- MODULE OddsCache ------------------------------
(* The odds cache in front of a metered provider: one round's events, the   *)
(* members who open its card or freeze a price on a pick, and the marker    *)
(* that takes an event nobody prices off the card.  A refill asks a chunk   *)
(* at a time under the cache's lock; what it learned is written to the      *)
(* database after the lock is gone.                                         *)
EXTENDS Integers, FiniteSets, Sequences

CONSTANTS
    LastEvent,       \* the round's events are numbered in the order they are asked
    Callers,         \* card loads, warm passes and picks under way
    ChunkSize,       \* EVENTS_PER_ODDS_REQUEST
    IsolationLimit,  \* odds_isolation_requests
    HourLimit,       \* odds_hourly_request_limit
    Reserve          \* odds_pick_reserve_requests

ASSUME OddsAssumption ==
    /\ LastEvent \in Nat \ {0} /\ ChunkSize \in Nat \ {0}
    /\ IsolationLimit \in Nat /\ HourLimit \in Nat /\ Reserve \in Nat

VARIABLES
    market,   \* the provider's answer on each event: listed, left out, or it is gone
    entry,    \* the cache's entry of each event: what it says and how old it is
    holdOff,  \* hold-offs running: a 429's, a refused key's
    carded,   \* this hour's requests counted for cards and warm passes
    charged,  \* this hour's requests counted for everything else
    caller,   \* each call of the cache
    marked,   \* events with odds_unpriced_since_utc
    due,      \* marked events whose re-check is due
    unoffered \* (history) events the provider answered about without a price, or refused alone

oddsVars == <<market, entry, holdOff, carded, charged, caller, marked, due, unoffered>>
spending == <<carded, charged>>
markers == <<marked, due>>

Events == 1..LastEvent
NoEntry == [says |-> "none", age |-> "fresh"]
NoCall == [at |-> "idle", card |-> FALSE, wanted |-> {}, was |-> {}, todo |-> {},
           rejected |-> <<>>, halves |-> <<>>, probes |-> 0, observed |-> {}, priced |-> {}]
Refilling == {c \in Callers : caller[c].at = "refill"}

----------------------------------------------------------------------------
(* Before the lock                                                          *)

(* A card, or the warm job, asks about what is not marked or is due again;  *)
(* a pick asks about its own event.                                         *)
Askable == {e \in Events : e \notin marked \/ e \in due}

Calls(c) ==
    /\ caller[c] = NoCall
    /\ \/ /\ Askable # {}
          /\ caller' = [caller EXCEPT ![c] = [NoCall EXCEPT !.at = "waits", !.card = TRUE,
                                              !.wanted = Askable, !.was = marked]]
       \/ \E e \in Events :
              caller' = [caller EXCEPT ![c] = [NoCall EXCEPT !.at = "waits", !.wanted = {e}]]
    /\ UNCHANGED <<market, entry, holdOff, spending, markers, unoffered>>

(* A price ages for a pick before it does for a card, whose ceiling widens  *)
(* as the plan runs down; an absence ages slowly for both.                  *)
Stale(e, card) ==
    \/ entry[e].says = "none" \/ entry[e].age = "old"
    \/ entry[e].says = "price" /\ entry[e].age = "aging" /\ ~card

(* One request's worth of S, and the first half of a chunk.                 *)
Chunk(S) == {e \in S : Cardinality({f \in S : f =< e}) =< ChunkSize}
Half(S) == {e \in S : 2 * Cardinality({f \in S : f =< e}) =< Cardinality(S)}

Remaining == IF carded + charged > HourLimit THEN 0 ELSE HourLimit - carded - charged

(* Mutant of MayAsk: the last request of the reserve is a card's too.       *)
MayAskToTheEnd(card) == holdOff = {} /\ (card => Remaining >= Reserve)

(* _refuse_upstream: a hold-off binds everyone, the reserve binds cards.    *)
MayAsk(card) == holdOff = {} /\ (card => Remaining > Reserve)

Priced(S) == {e \in S : entry[e].says = "price"}

(* A pick that would ask charges its installation's budget first, which may *)
(* refuse it.                                                               *)
Enters(c) ==
    /\ caller[c].at = "waits" /\ Refilling = {}
    /\ LET card == caller[c].card
           stale == {e \in caller[c].wanted : Stale(e, card)}
       IN  \/ /\ stale # {} /\ MayAsk(card)
              /\ caller' = [caller EXCEPT ![c] = [@ EXCEPT !.at = "refill", !.todo = stale,
                                                          !.probes = IsolationLimit]]
           \/ /\ stale = {} \/ ~MayAsk(card) \/ ~card
              /\ caller' = [caller EXCEPT ![c] = NoCall]
    /\ UNCHANGED <<market, entry, holdOff, spending, markers, unoffered>>

----------------------------------------------------------------------------
(* A refill, under the lock                                                 *)

Charge(c) ==
    IF caller[c].card THEN carded' = carded + 1 /\ charged' = charged
    ELSE charged' = charged + 1 /\ carded' = carded

(* An answer about S: an entry for each event, whatever it says.            *)
Store(S) ==
    entry' = [e \in Events |-> IF e \in S THEN [says |-> market[e], age |-> "fresh"] ELSE entry[e]]

Answers(S) ==
    /\ \A e \in S : market[e] # "gone"
    /\ Store(S)
    /\ unoffered' = unoffered \cup {e \in S : market[e] = "nothing"}

(* A pick is refused with whatever the provider said; a card carries on.    *)
Or(c, next) == IF caller[c].card THEN next ELSE NoCall

(* A 429 or a refused key ends the refill, which keeps what it observed.    *)
Stopped(c) == Or(c, [caller[c] EXCEPT !.todo = {}, !.rejected = <<>>, !.halves = <<>>])

HoldsOff(c, why) ==
    /\ holdOff' = holdOff \cup {why}
    /\ caller' = [caller EXCEPT ![c] = Stopped(c)]
    /\ UNCHANGED <<entry, unoffered>>

(* Mutant of Rejected: what came back without a price has none.             *)
RejectedAsObserved(call, C) ==
    [call EXCEPT !.rejected = Append(@, C), !.observed = @ \cup C]

(* A rejected chunk is no evidence about any event in it.                   *)
Rejected(call, C) == [call EXCEPT !.rejected = Append(@, C)]

AsksChunk(c) ==
    /\ caller[c].at = "refill" /\ caller[c].todo # {}
    /\ Charge(c)
    /\ LET C == Chunk(caller[c].todo)
           rest == [caller[c] EXCEPT !.todo = @ \ C]
       IN  \/ /\ Answers(C)
              /\ caller' = [caller EXCEPT ![c] = [rest EXCEPT !.observed = @ \cup C]]
              /\ UNCHANGED holdOff
           \/ \E why \in {"rate limited", "refused"} : HoldsOff(c, why)
           \/ /\ \E e \in C : market[e] = "gone"
              /\ caller' = [caller EXCEPT ![c] = Or(c, Rejected(rest, C))]
              /\ UNCHANGED <<entry, holdOff, unoffered>>
           \/ /\ caller' = [caller EXCEPT ![c] = Or(c, rest)]
              /\ UNCHANGED <<entry, holdOff, unoffered>>
    /\ UNCHANGED <<market, markers>>

(* The halves still to probe: a rejected chunk is split when it comes up.   *)
Halved(C) == IF Cardinality(C) = 1 THEN <<C>> ELSE <<Half(C), C \ Half(C)>>
ToProbe(c) ==
    IF caller[c].halves # <<>> THEN caller[c].halves
    ELSE IF caller[c].rejected # <<>> THEN Halved(Head(caller[c].rejected)) ELSE <<>>

(* An event refused on its own does not exist any more.                     *)
Blamed(S) == IF Cardinality(S) = 1 THEN S ELSE {}

Isolates(c) ==
    /\ caller[c].at = "refill" /\ caller[c].todo = {}
    /\ ToProbe(c) # <<>> /\ caller[c].probes > 0
    /\ Charge(c)
    /\ LET S == Head(ToProbe(c))
           next == [caller[c] EXCEPT
                       !.probes = @ - 1, !.halves = Tail(ToProbe(c)),
                       !.rejected = IF caller[c].halves = <<>> THEN Tail(@) ELSE @]
           gone == Blamed(S)
       IN  \/ /\ Answers(S)
              /\ caller' = [caller EXCEPT ![c] = [next EXCEPT !.observed = @ \cup S]]
              /\ UNCHANGED holdOff
           \/ \E why \in {"rate limited", "refused"} : HoldsOff(c, why)
           \/ /\ \E e \in S : market[e] = "gone"
              /\ entry' = [e \in Events |-> IF e \in gone THEN [says |-> "nothing", age |-> "fresh"]
                                            ELSE entry[e]]
              /\ unoffered' = IF Cardinality(S) = 1 THEN unoffered \cup S ELSE unoffered
              /\ caller' = [caller EXCEPT ![c] =
                     [next EXCEPT !.observed = @ \cup gone,
                                  !.rejected = IF gone = {} THEN Append(@, S) ELSE @]]
              /\ UNCHANGED holdOff
           \/ /\ caller' = [caller EXCEPT ![c] = next]
              /\ UNCHANGED <<entry, holdOff, unoffered>>
    /\ UNCHANGED <<market, markers>>

(* The refill is over: the lock goes, and a card has something to write.    *)
Leaves(c) ==
    /\ caller[c].at = "refill" /\ caller[c].todo = {}
    /\ ToProbe(c) = <<>> \/ caller[c].probes = 0
    /\ caller' = [caller EXCEPT ![c] =
           IF caller[c].card
           THEN [@ EXCEPT !.at = "learned", !.rejected = <<>>, !.halves = <<>>, !.probes = 0,
                          !.priced = Priced(caller[c].wanted)]
           ELSE NoCall]
    /\ UNCHANGED <<market, entry, holdOff, spending, markers, unoffered>>

----------------------------------------------------------------------------
(* What a card learned                                                      *)

(* record_observations, over the rows as they were before the provider was  *)
(* asked: an event that was priced and still is writes nothing.             *)
Records(c) ==
    /\ caller[c].at = "learned"
    /\ LET seen == caller[c].observed
           found == seen \cap caller[c].priced \cap caller[c].was
           missing == seen \ caller[c].priced
       IN  /\ marked' = (marked \ found) \cup (missing \ caller[c].was)
           /\ due' = (due \ (found \cup missing)) \cap marked'
    /\ caller' = [caller EXCEPT ![c] = NoCall]
    /\ UNCHANGED <<market, entry, holdOff, spending, unoffered>>

----------------------------------------------------------------------------
(* Around the cache                                                         *)

(* A slate walk, a settlement or the catalogue: not cached, charged for all *)
(* the same, with whatever other requests went out meanwhile.               *)
Uncached(n) ==
    /\ charged' = charged + n
    /\ UNCHANGED <<market, entry, holdOff, carded, caller, markers, unoffered>>

(* Requests fall out of the hour.                                           *)
HourRolls ==
    /\ \/ carded > 0 /\ carded' = carded - 1 /\ UNCHANGED charged
       \/ charged > 0 /\ charged' = charged - 1 /\ UNCHANGED carded
    /\ UNCHANGED <<market, entry, holdOff, caller, markers, unoffered>>

(* A hold-off is pruned by the next call after its time.                    *)
HoldOffEnds(why) ==
    /\ why \in holdOff /\ Refilling = {} /\ holdOff' = holdOff \ {why}
    /\ UNCHANGED <<market, entry, spending, caller, markers, unoffered>>

Ages(e) ==
    /\ entry[e].says # "none" /\ entry[e].age # "old"
    /\ entry' = [entry EXCEPT ![e].age = IF @ = "fresh" THEN "aging" ELSE "old"]
    /\ UNCHANGED <<market, holdOff, spending, caller, markers, unoffered>>

(* A bookmaker opens or withdraws a market; an event is played and gone.    *)
MarketMoves(e, to) ==
    /\ market[e] # "gone" /\ market' = [market EXCEPT ![e] = to]
    /\ UNCHANGED <<entry, holdOff, spending, caller, markers, unoffered>>

RecheckFallsDue(e) ==
    /\ e \in marked \ due /\ due' = due \cup {e}
    /\ UNCHANGED <<market, entry, holdOff, spending, caller, marked, unoffered>>

(* The process restarts: only the marker is stored.                         *)
Restart ==
    /\ entry' = [e \in Events |-> NoEntry] /\ holdOff' = {} /\ carded' = 0 /\ charged' = 0
    /\ caller' = [c \in Callers |-> NoCall]
    /\ UNCHANGED <<market, markers, unoffered>>

OddsInit ==
    /\ market \in [Events -> {"price", "nothing", "gone"}]
    /\ entry = [e \in Events |-> NoEntry]
    /\ holdOff = {} /\ carded = 0 /\ charged = 0 /\ marked = {} /\ due = {} /\ unoffered = {}
    /\ caller = [c \in Callers |-> NoCall]

OddsNext ==
    \/ \E c \in Callers :
           Calls(c) \/ Enters(c) \/ AsksChunk(c) \/ Isolates(c) \/ Leaves(c) \/ Records(c)
    \/ \E n \in 1..2 : Uncached(n)
    \/ HourRolls \/ Restart
    \/ \E why \in holdOff : HoldOffEnds(why)
    \/ \E e \in Events :
           \/ Ages(e) \/ RecheckFallsDue(e)
           \/ \E to \in {"price", "nothing", "gone"} : MarketMoves(e, to)

OddsSpec == OddsInit /\ [][OddsNext]_oddsVars

----------------------------------------------------------------------------
(* "A provider we cannot reach is not evidence that a fixture has no        *)
(* price": an event is off the card only if the provider answered about it  *)
(* without a price, or refused it on its own.  A chunk it rejects, a half   *)
(* of one, a 429 or an outage says nothing of anybody (_refill, _isolate,   *)
(* record_observations).                                                    *)
MarkedOnEvidence == marked \subseteq unoffered

(* Requests are rationed: nobody asks inside a hold-off, and the cards of   *)
(* an hour send at most one refill into what is kept for picks, however     *)
(* many of them arrive together (_refuse_upstream, the lock of _snapshot).  *)
LongestRefill == ((LastEvent + ChunkSize - 1) \div ChunkSize) + IsolationLimit
RequestsAreRationed ==
    /\ \A c \in Refilling : caller[c].todo # {} \/ ToProbe(c) # <<>> => holdOff = {}
    /\ HourLimit > Reserve => carded =< HourLimit - Reserve - 1 + LongestRefill
=============================================================================
