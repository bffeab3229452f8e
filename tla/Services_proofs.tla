-------------------------- MODULE Services_proofs --------------------------
(* The odds cache, the football data and its matches, and a member's pick   *)
(* screen: what holds of them for any round, budget, number of members,     *)
(* divisions, games and requests.                                           *)
EXTENDS OddsCache, FootballData, Matches, PickEditor, FiniteSetTheorems, TLAPS

(***************************************************************************)
(* The odds cache: nothing comes off the card without evidence, and         *)
(* requests are rationed.                                                   *)
(***************************************************************************)

Stages == {"idle", "waits", "refill", "learned"}
CallRecords ==
    [at : Stages, card : BOOLEAN, wanted : SUBSET Events, was : SUBSET Events,
     todo : SUBSET Events, rejected : Seq(SUBSET Events), halves : Seq(SUBSET Events),
     probes : Nat, observed : SUBSET Events, priced : SUBSET Events]

(* A call asks about nothing but what is wanted of it.                      *)
Within(call) ==
    /\ call.todo \subseteq call.wanted /\ call.observed \subseteq call.wanted
    /\ call.rejected \in Seq(SUBSET call.wanted) /\ call.halves \in Seq(SUBSET call.wanted)

Entries == [says : {"none", "price", "nothing"}, age : {"fresh", "aging", "old"}]

OddsTypeOK ==
    /\ market \in [Events -> {"price", "nothing", "gone"}]
    /\ entry \in [Events -> Entries]
    /\ holdOff \subseteq {"rate limited", "refused"}
    /\ carded \in Nat /\ charged \in Nat
    /\ marked \subseteq Events /\ due \subseteq Events /\ unoffered \subseteq Events
    /\ caller \in [Callers -> CallRecords]
    /\ \A c \in Callers : Within(caller[c])

(* What is remembered of an event, and what a call has seen of it, rests on *)
(* an answer: an absence on one about it alone or without a price for it.   *)
Evidence(call) ==
    /\ call.at = "waits" => call.observed = {}
    /\ call.at = "refill" => \A e \in call.observed : entry[e].says # "none"
    /\ call.at = "learned" => call.observed \ call.priced \subseteq unoffered

EvidenceInv ==
    /\ \A e \in Events : entry[e].says = "nothing" => e \in unoffered
    /\ marked \subseteq unoffered
    /\ \A c \in Callers : Evidence(caller[c])

(* One call refills at a time.  While it has more to ask no hold-off runs,  *)
(* and the chunks and probes a card has left to ask fit under the ceiling.  *)
Ceiling == HourLimit - Reserve - 1 + LongestRefill
HasMore(c) == caller[c].todo # {} \/ ToProbe(c) # <<>>
FitsUnder(c) == \E k \in Nat : /\ Cardinality(caller[c].todo) =< k * ChunkSize
                          /\ carded + k + caller[c].probes =< Ceiling

RationInv ==
    /\ \A c, d \in Refilling : c = d
    /\ \A c \in Refilling : HasMore(c) =>
           /\ holdOff = {}
           /\ HourLimit > Reserve /\ caller[c].card => FitsUnder(c)
    /\ HourLimit > Reserve => carded =< Ceiling

----------------------------------------------------------------------------
(* Chunks and halves.                                                       *)

LEMMA NatSetHasLeast ==
    ASSUME NEW S \in SUBSET Nat, S # {}
    PROVE  \E x \in S : \A y \in S : x =< y
  <1> DEFINE R == {ss \in Nat \X Nat : ss[1] < ss[2]}
  <1>1. R = OpToRel(<, Nat)
    BY DEF OpToRel
  <1>2. IsWellFoundedOn(R, Nat)
    BY <1>1, NatLessThanWellFounded, Zenon
  <1>3. PICK x \in S : \A y \in S : <<y, x>> \notin R
    <2> HIDE DEF R
    <2> QED
      BY <1>2, WFMin
  <1>4. ASSUME NEW y \in S
        PROVE  x =< y
    <2>1. x \in Nat /\ y \in Nat /\ <<y, x>> \notin R
      BY <1>3
    <2>2. ~ (y < x)
      BY <2>1
    <2> QED
      BY <2>1, <2>2
  <1> QED
    BY <1>4

LEMMA EventsAreFinite ==
    ASSUME NEW S \in SUBSET Events
    PROVE  IsFiniteSet(S) /\ Cardinality(S) \in Nat /\ Cardinality(S) =< LastEvent
  <1>1. IsFiniteSet(Events) /\ Cardinality(Events) = LastEvent
    BY FS_Interval, OddsAssumption DEF Events
  <1> QED
    BY <1>1, FS_Subset, FS_CardinalityType, OddsAssumption

(* A chunk is all there is left to ask, or it is full.                      *)
LEMMA ChunkIsFull ==
    ASSUME NEW S \in SUBSET Events, Chunk(S) # S
    PROVE  Cardinality(Chunk(S)) >= ChunkSize
  <1> DEFINE UpTo(e) == {f \in S : f =< e}
             Beyond == {e \in S : Cardinality(UpTo(e)) > ChunkSize}
  <1>1. \A e \in S : Cardinality(UpTo(e)) \in Nat
    BY EventsAreFinite
  <1>2. Beyond # {} /\ Beyond \in SUBSET Nat
    <2>1. PICK e \in S : ~ (Cardinality(UpTo(e)) =< ChunkSize)
      BY DEF Chunk
    <2>2. e \in Beyond
      <3> HIDE DEF UpTo
      <3> QED
        BY <1>1, <2>1, OddsAssumption
    <2>3. \A x \in Events : x \in Nat
      BY OddsAssumption DEF Events
    <2> QED
      BY <2>2, <2>3
  <1>3. PICK e \in Beyond : \A f \in Beyond : e =< f
    <2> HIDE DEF Beyond
    <2> QED
      BY <1>2, NatSetHasLeast
  <1>4. UpTo(e) \ {e} \subseteq Chunk(S)
    <2> SUFFICES ASSUME NEW f \in S, f =< e, f # e
                 PROVE  f \in Chunk(S)
      OBVIOUS
    <2>1. f \notin Beyond
      BY <1>3 DEF Events
    <2> QED
      BY <1>1, <2>1, OddsAssumption DEF Chunk
  <1>5. /\ IsFiniteSet(UpTo(e)) /\ e \in UpTo(e)
        /\ Cardinality(UpTo(e)) > ChunkSize
    BY <1>3, EventsAreFinite DEF Events
  <1>6. Cardinality(UpTo(e) \ {e}) = Cardinality(UpTo(e)) - 1
    <2> HIDE DEF UpTo
    <2> QED
      BY <1>5, FS_RemoveElement
  <1>7. IsFiniteSet(Chunk(S)) /\ Cardinality(Chunk(S)) \in Nat
    BY EventsAreFinite DEF Chunk
  <1>8. Cardinality(UpTo(e) \ {e}) =< Cardinality(Chunk(S))
    <2> HIDE DEF UpTo
    <2> QED
      BY <1>4, <1>7, FS_Subset
  <1> QED
    BY <1>1, <1>3, <1>5, <1>6, <1>7, <1>8, OddsAssumption

(* Asking a chunk takes one request off those that are left.                *)
LEMMA ChunkTakesOne ==
    ASSUME NEW S \in SUBSET Events, S # {}, NEW k \in Nat, Cardinality(S) =< k * ChunkSize
    PROVE  k > 0 /\ Cardinality(S \ Chunk(S)) =< (k - 1) * ChunkSize
  <1>1. IsFiniteSet(S) /\ Cardinality(S) \in Nat /\ Cardinality(S) # 0
    BY EventsAreFinite, FS_EmptySet
  <1>2. k > 0
    <2> SUFFICES ASSUME k = 0
                 PROVE  FALSE
      OBVIOUS
    <2> QED
      BY <1>1, OddsAssumption
  <1>3. (k - 1) * ChunkSize = k * ChunkSize - ChunkSize /\ (k - 1) * ChunkSize \in Nat
    BY <1>2, OddsAssumption
  <1>4. CASE Chunk(S) = S
    <2>1. S \ Chunk(S) = {}
      BY <1>4
    <2> QED
      BY <1>2, <1>3, <2>1, FS_EmptySet
  <1>5. CASE Chunk(S) # S
    <2>1. Chunk(S) \in SUBSET S
      BY DEF Chunk
    <2>2. Cardinality(S \ Chunk(S)) = Cardinality(S) - Cardinality(S \cap Chunk(S))
      BY <1>1, FS_Difference
    <2>3. S \cap Chunk(S) = Chunk(S)
      BY <2>1
    <2>4. Cardinality(Chunk(S)) >= ChunkSize /\ Cardinality(Chunk(S)) \in Nat
      BY <1>5, <2>1, ChunkIsFull, EventsAreFinite
    <2>5. Cardinality(S) - Cardinality(Chunk(S)) =< k * ChunkSize - ChunkSize
      <3>1. k * ChunkSize \in Nat
        BY OddsAssumption
      <3> QED
        BY <1>1, <2>4, <3>1, OddsAssumption
    <2> QED
      BY <1>2, <1>3, <2>2, <2>3, <2>5
  <1> QED
    BY <1>4, <1>5

(* The whole round takes no more chunks than LongestRefill allows for.      *)
LEMMA RoundFits ==
    ASSUME NEW S \in SUBSET Events
    PROVE  \E k \in Nat : Cardinality(S) =< k * ChunkSize /\ k + IsolationLimit = LongestRefill
  <1> DEFINE k == (LastEvent + ChunkSize - 1) \div ChunkSize
  <1>1. k \in Nat /\ LastEvent =< k * ChunkSize
    BY OddsAssumption
  <1>2. Cardinality(S) \in Nat /\ Cardinality(S) =< LastEvent
    BY EventsAreFinite
  <1>3. k * ChunkSize \in Nat
    BY <1>1, OddsAssumption
  <1>4. Cardinality(S) =< k * ChunkSize
    <2> HIDE DEF k
    <2> QED
      BY <1>1, <1>2, <1>3, OddsAssumption
  <1> QED
    BY <1>1, <1>4 DEF LongestRefill

----------------------------------------------------------------------------
(* What a step makes of a call.                                             *)

LEMMA SequencesOfSets ==
    ASSUME NEW W \in SUBSET Events
    PROVE  /\ \A s \in Seq(SUBSET W) : s \in Seq(SUBSET Events)
           /\ <<>> \in Seq(SUBSET W)
           /\ \A s \in Seq(SUBSET W), S \in SUBSET W : Append(s, S) \in Seq(SUBSET W)
           /\ \A s \in Seq(SUBSET W) : s # <<>> => Head(s) \in SUBSET W /\ Tail(s) \in Seq(SUBSET W)
           /\ \A S, T \in SUBSET W : <<S>> \in Seq(SUBSET W) /\ <<S, T>> \in Seq(SUBSET W)
  OBVIOUS

LEMMA NoCallIsCall == NoCall \in CallRecords /\ Within(NoCall) /\ NoCall.at = "idle"
  BY DEF NoCall, CallRecords, Within, Stages

LEMMA ToProbeIsWanted ==
    ASSUME OddsTypeOK, NEW c \in Callers
    PROVE  ToProbe(c) \in Seq(SUBSET caller[c].wanted)
  <1> DEFINE W == caller[c].wanted
  <1>1. /\ W \in SUBSET Events
        /\ caller[c].halves \in Seq(SUBSET W) /\ caller[c].rejected \in Seq(SUBSET W)
    BY DEF OddsTypeOK, CallRecords, Within
  <1>2. ASSUME NEW C \in SUBSET W
        PROVE  Halved(C) \in Seq(SUBSET W)
    <2>1. Half(C) \in SUBSET W
      BY DEF Half
    <2> QED
      BY <1>1, <2>1, SequencesOfSets DEF Halved
  <1>3. caller[c].rejected # <<>> => Head(caller[c].rejected) \in SUBSET W
    BY <1>1, SequencesOfSets
  <1> QED
    BY <1>1, <1>2, <1>3, SequencesOfSets DEF ToProbe

(* A call under way asks for the same, whatever it has left to ask.         *)
SameCall(old, new) ==
    /\ new.at = old.at /\ new.card = old.card /\ new.wanted = old.wanted
    /\ new.was = old.was /\ new.priced = old.priced

LEMMA StoppedCall ==
    ASSUME OddsTypeOK, NEW c \in Callers
    PROVE  /\ Stopped(c) \in CallRecords /\ Within(Stopped(c))
           /\ Stopped(c) # NoCall => /\ SameCall(caller[c], Stopped(c))
                                     /\ Stopped(c).observed = caller[c].observed
                                     /\ Stopped(c).todo = {} /\ Stopped(c).rejected = <<>>
                                     /\ Stopped(c).halves = <<>>
  <1> DEFINE n == [caller[c] EXCEPT !.todo = {}, !.rejected = <<>>, !.halves = <<>>]
  <1>1. caller[c] \in CallRecords /\ Within(caller[c]) /\ caller[c].wanted \in SUBSET Events
    BY DEF OddsTypeOK, CallRecords
  <1>2. n \in CallRecords /\ SameCall(caller[c], n)
        /\ n.observed = caller[c].observed /\ n.todo = {} /\ n.rejected = <<>> /\ n.halves = <<>>
    <2>1. <<>> \in Seq(SUBSET Events)
      OBVIOUS
    <2> QED
      BY <1>1, <2>1 DEF CallRecords, SameCall
  <1>3. Within(n)
    BY <1>1, <1>2 DEF Within, SameCall
  <1>4. Stopped(c) = n \/ Stopped(c) = NoCall
    BY DEF Stopped, Or
  <1> HIDE DEF n
  <1> QED
    BY <1>2, <1>3, <1>4, NoCallIsCall

(* Asking a chunk leaves that much less to ask, and no more to probe than   *)
(* the chunk, if it was rejected.                                           *)
LEMMA ChunkCall ==
    ASSUME OddsTypeOK, NEW c \in Callers, AsksChunk(c)
    PROVE  \E n \in CallRecords :
               /\ caller' = [caller EXCEPT ![c] = n] /\ Within(n)
               /\ n # NoCall =>
                      /\ SameCall(caller[c], n) /\ n.probes = caller[c].probes
                      /\ \/ n.todo = caller[c].todo \ Chunk(caller[c].todo) /\ holdOff' = holdOff
                         \/ n.todo = {} /\ n.rejected = <<>> /\ n.halves = <<>>
                      /\ \/ n.observed = caller[c].observed
                         \/ /\ n.observed = caller[c].observed \cup Chunk(caller[c].todo)
                            /\ Answers(Chunk(caller[c].todo))
  <1> DEFINE C == Chunk(caller[c].todo)
             rest == [caller[c] EXCEPT !.todo = @ \ C]
             W == caller[c].wanted
  <1>1. /\ caller[c] \in CallRecords /\ Within(caller[c]) /\ W \in SUBSET Events
        /\ C \in SUBSET W /\ C \subseteq caller[c].todo
    BY DEF OddsTypeOK, CallRecords, Within, Chunk
  <1>2. /\ rest \in CallRecords /\ Within(rest)
        /\ SameCall(caller[c], rest) /\ rest.probes = caller[c].probes
        /\ rest.todo = caller[c].todo \ C /\ rest.observed = caller[c].observed
        /\ rest.rejected = caller[c].rejected /\ rest.halves = caller[c].halves
    <2> HIDE DEF C
    <2> QED
      BY <1>1 DEF CallRecords, SameCall, Within
  <1>3. CASE Answers(C) /\ holdOff' = holdOff
             /\ caller' = [caller EXCEPT ![c] = [rest EXCEPT !.observed = @ \cup C]]
    <2> DEFINE n == [rest EXCEPT !.observed = @ \cup C]
    <2> HIDE DEF C, rest
    <2>1. /\ n \in CallRecords /\ SameCall(caller[c], n) /\ n.probes = caller[c].probes
          /\ n.todo = caller[c].todo \ C /\ n.observed = caller[c].observed \cup C
          /\ n.rejected = caller[c].rejected /\ n.halves = caller[c].halves
      BY <1>1, <1>2 DEF CallRecords, SameCall
    <2>2. Within(n)
      BY <1>1, <2>1 DEF Within, SameCall
    <2>3. caller' = [caller EXCEPT ![c] = n] /\ holdOff' = holdOff /\ Answers(C)
      BY <1>3 DEF n
    <2> HIDE DEF n
    <2> QED
      BY <2>1, <2>2, <2>3 DEF C
  <1>4. CASE \E why \in {"rate limited", "refused"} : HoldsOff(c, why)
    <2>1. caller' = [caller EXCEPT ![c] = Stopped(c)]
      BY <1>4 DEF HoldsOff
    <2>2. Stopped(c) = NoCall \/ Stopped(c).probes = caller[c].probes
      BY <1>1 DEF Stopped, Or, CallRecords
    <2> QED
      BY <2>1, <2>2, StoppedCall
  <1>5. CASE caller' = [caller EXCEPT ![c] = Or(c, Rejected(rest, C))] /\ holdOff' = holdOff
    <2> DEFINE n == Rejected(rest, C)
    <2>1. Append(caller[c].rejected, C) \in Seq(SUBSET W)
      BY <1>1, SequencesOfSets DEF Within
    <2>2. Append(caller[c].rejected, C) \in Seq(SUBSET Events)
      <3>1. \A s \in Seq(SUBSET W) : s \in Seq(SUBSET Events)
        BY <1>1, SequencesOfSets
      <3> QED
        BY <2>1, <3>1
    <2> HIDE DEF C, rest
    <2>3. /\ n \in CallRecords /\ SameCall(caller[c], n) /\ n.probes = caller[c].probes
          /\ n.todo = caller[c].todo \ C /\ n.observed = caller[c].observed
          /\ n.rejected = Append(caller[c].rejected, C) /\ n.halves = caller[c].halves
      BY <1>2, <2>2 DEF CallRecords, SameCall, Rejected
    <2>4. Within(n)
      BY <1>1, <2>1, <2>3 DEF Within, SameCall
    <2>5. Or(c, n) = n \/ Or(c, n) = NoCall
      BY DEF Or
    <2>6. caller' = [caller EXCEPT ![c] = Or(c, n)] /\ holdOff' = holdOff
      BY <1>5 DEF n
    <2> HIDE DEF n
    <2> QED
      BY <2>3, <2>4, <2>5, <2>6, NoCallIsCall DEF C
  <1>6. CASE caller' = [caller EXCEPT ![c] = Or(c, rest)] /\ holdOff' = holdOff
    <2> HIDE DEF rest
    <2>1. Or(c, rest) = rest \/ Or(c, rest) = NoCall
      BY DEF Or
    <2> QED
      BY <1>2, <1>6, <2>1, NoCallIsCall
  <1> HIDE DEF rest
  <1> QED
    BY <1>3, <1>4, <1>5, <1>6 DEF AsksChunk, rest

(* A probe is one probe less; what it finds missing alone it has observed.  *)
LEMMA ProbeCall ==
    ASSUME OddsTypeOK, NEW c \in Callers, Isolates(c)
    PROVE  \E n \in CallRecords :
               /\ caller' = [caller EXCEPT ![c] = n] /\ Within(n)
               /\ n # NoCall =>
                      /\ SameCall(caller[c], n) /\ n.todo = {}
                      /\ \/ n.probes = caller[c].probes - 1 /\ holdOff' = holdOff
                         \/ n.rejected = <<>> /\ n.halves = <<>>
                      /\ \A e \in n.observed \ caller[c].observed : entry'[e].says # "none"
  <1> DEFINE S == Head(ToProbe(c))
             W == caller[c].wanted
             next == [caller[c] EXCEPT
                         !.probes = @ - 1, !.halves = Tail(ToProbe(c)),
                         !.rejected = IF caller[c].halves = <<>> THEN Tail(@) ELSE @]
  <1>1. /\ caller[c] \in CallRecords /\ Within(caller[c]) /\ W \in SUBSET Events
        /\ caller[c].probes \in Nat /\ caller[c].probes > 0 /\ caller[c].todo = {}
        /\ ToProbe(c) # <<>> /\ ToProbe(c) \in Seq(SUBSET W)
    BY ToProbeIsWanted DEF OddsTypeOK, CallRecords, Isolates
  <1>2. S \in SUBSET W /\ Tail(ToProbe(c)) \in Seq(SUBSET W) /\ S \in SUBSET Events
    BY <1>1, SequencesOfSets
  <1>3. caller[c].halves = <<>> => Tail(caller[c].rejected) \in Seq(SUBSET W)
    <2>1. caller[c].halves = <<>> => caller[c].rejected # <<>>
      BY <1>1 DEF ToProbe
    <2>2. caller[c].rejected \in Seq(SUBSET W)
      BY <1>1 DEF Within
    <2> QED
      BY <1>1, <2>1, <2>2, SequencesOfSets
  <1>4. \A s \in Seq(SUBSET W) : s \in Seq(SUBSET Events)
    BY <1>1, SequencesOfSets
  <1>5. /\ next \in CallRecords /\ SameCall(caller[c], next)
        /\ next.todo = {} /\ next.probes = caller[c].probes - 1
        /\ next.observed = caller[c].observed
        /\ next.halves = Tail(ToProbe(c))
        /\ next.rejected = IF caller[c].halves = <<>> THEN Tail(caller[c].rejected)
                           ELSE caller[c].rejected
    <2>1. PICK h \in Seq(SUBSET Events) : h = Tail(ToProbe(c))
      BY <1>2, <1>4
    <2>2. PICK r \in Seq(SUBSET Events) :
              r = IF caller[c].halves = <<>> THEN Tail(caller[c].rejected) ELSE caller[c].rejected
      BY <1>1, <1>3, <1>4 DEF CallRecords
    <2>3. next = [caller[c] EXCEPT !.probes = caller[c].probes - 1, !.halves = h, !.rejected = r]
      BY <2>1, <2>2
    <2>4. caller[c].probes - 1 \in Nat
      BY <1>1
    <2> HIDE DEF next
    <2> QED
      BY <1>1, <2>1, <2>2, <2>3, <2>4 DEF CallRecords, SameCall
  <1>6. Within(next)
    <2> HIDE DEF next
    <2> QED
      BY <1>1, <1>2, <1>3, <1>5 DEF Within, SameCall
  <1>7. CASE Answers(S) /\ caller' = [caller EXCEPT ![c] = [next EXCEPT !.observed = @ \cup S]]
             /\ holdOff' = holdOff
    <2> DEFINE n == [next EXCEPT !.observed = @ \cup S]
    <2> HIDE DEF next, S
    <2>1. /\ n \in CallRecords /\ SameCall(caller[c], n) /\ n.todo = {}
          /\ n.probes = caller[c].probes - 1 /\ n.observed = caller[c].observed \cup S
          /\ n.rejected = next.rejected /\ n.halves = next.halves
      BY <1>2, <1>5 DEF CallRecords, SameCall
    <2>2. Within(n)
      BY <1>2, <1>6, <1>5, <2>1 DEF Within, SameCall
    <2>3. \A e \in S : entry'[e].says = market[e]
      BY <1>2, <1>7 DEF Answers, Store
    <2>4. \A e \in S : market[e] \in {"price", "nothing", "gone"}
      BY <1>2 DEF OddsTypeOK
    <2>5. \A e \in n.observed \ caller[c].observed : entry'[e].says # "none"
      BY <2>1, <2>3, <2>4
    <2>6. caller' = [caller EXCEPT ![c] = n] /\ holdOff' = holdOff
      BY <1>7 DEF n
    <2> HIDE DEF n
    <2> QED
      BY <2>1, <2>2, <2>5, <2>6
  <1>8. CASE \E why \in {"rate limited", "refused"} : HoldsOff(c, why)
    BY <1>8, StoppedCall DEF HoldsOff
  <1>9. CASE /\ entry' = [e \in Events |-> IF e \in Blamed(S) THEN [says |-> "nothing", age |-> "fresh"]
                                           ELSE entry[e]]
             /\ caller' = [caller EXCEPT ![c] =
                    [next EXCEPT !.observed = @ \cup Blamed(S),
                                 !.rejected = IF Blamed(S) = {} THEN Append(@, S) ELSE @]]
             /\ holdOff' = holdOff
    <2> DEFINE n == [next EXCEPT !.observed = @ \cup Blamed(S),
                                 !.rejected = IF Blamed(S) = {} THEN Append(@, S) ELSE @]
    <2> HIDE DEF next, S
    <2>1. Blamed(S) \in SUBSET W
      BY <1>2 DEF Blamed
    <2>2. next.rejected \in Seq(SUBSET W) /\ next.halves \in Seq(SUBSET W)
      BY <1>5, <1>6 DEF Within, SameCall
    <2>3. Append(next.rejected, S) \in Seq(SUBSET W)
      BY <1>1, <1>2, <2>2, SequencesOfSets
    <2>4. Append(next.rejected, S) \in Seq(SUBSET Events)
      BY <1>4, <2>3
    <2>5. /\ n \in CallRecords /\ SameCall(caller[c], n) /\ n.todo = {}
          /\ n.probes = caller[c].probes - 1 /\ n.observed = caller[c].observed \cup Blamed(S)
          /\ n.rejected = (IF Blamed(S) = {} THEN Append(next.rejected, S) ELSE next.rejected)
          /\ n.halves = next.halves
      BY <1>1, <1>5, <2>1, <2>4 DEF CallRecords, SameCall
    <2>6. Within(n)
      BY <1>1, <2>1, <2>2, <2>3, <2>5 DEF Within, SameCall
    <2>7. \A e \in Blamed(S) : entry'[e].says = "nothing"
      BY <1>1, <1>9, <2>1
    <2>8. caller' = [caller EXCEPT ![c] = n] /\ holdOff' = holdOff
      BY <1>9 DEF n
    <2> HIDE DEF n
    <2>9. \A e \in n.observed \ caller[c].observed : entry'[e].says # "none"
      BY <2>5, <2>7
    <2> QED
      BY <2>5, <2>6, <2>8, <2>9
  <1>10. CASE caller' = [caller EXCEPT ![c] = next] /\ holdOff' = holdOff
    <2> HIDE DEF next
    <2> QED
      BY <1>5, <1>6, <1>10
  <1> HIDE DEF next, S
  <1> QED
    BY <1>7, <1>8, <1>9, <1>10 DEF Isolates, next, S

----------------------------------------------------------------------------
(* Types.                                                                   *)

LEMMA OddsInitInv == OddsInit => OddsTypeOK /\ EvidenceInv /\ RationInv
  <1> SUFFICES ASSUME OddsInit
               PROVE  OddsTypeOK /\ EvidenceInv /\ RationInv
    OBVIOUS
  <1>1. NoEntry \in Entries /\ NoEntry.says = "none"
    BY DEF NoEntry, Entries
  <1>2. OddsTypeOK
    BY <1>1, NoCallIsCall DEF OddsInit, OddsTypeOK
  <1>3. EvidenceInv
    BY <1>1, NoCallIsCall DEF OddsInit, EvidenceInv, Evidence
  <1>4. \E k \in Nat : k + IsolationLimit = LongestRefill
    BY RoundFits
  <1>5. RationInv
    BY <1>4, NoCallIsCall, OddsAssumption DEF OddsInit, RationInv, Refilling, Ceiling
  <1> QED
    BY <1>2, <1>3, <1>5

(* What a request teaches: nothing is forgotten, and nothing is missing     *)
(* without an answer that says so.                                          *)
NewlyLearnt ==
    /\ entry' \in [Events -> Entries]
    /\ unoffered \subseteq unoffered' /\ unoffered' \subseteq Events
    /\ \A e \in Events : /\ entry[e].says # "none" => entry'[e].says # "none"
                         /\ entry'[e].says = "nothing" => entry[e].says = "nothing" \/ e \in unoffered'

LEMMA AnswersTeach ==
    ASSUME OddsTypeOK, NEW S \in SUBSET Events, Answers(S)
    PROVE  NewlyLearnt /\ \A e \in S : entry'[e].says # "none"
  <1>1. \A e \in S : market[e] \in {"price", "nothing"}
    BY DEF OddsTypeOK, Answers
  <1>2. \A e \in Events : entry'[e] = IF e \in S THEN [says |-> market[e], age |-> "fresh"] ELSE entry[e]
    BY DEF Answers, Store
  <1>3. entry' \in [Events -> Entries]
    <2>1. \A e \in S : [says |-> market[e], age |-> "fresh"] \in Entries
      BY <1>1 DEF Entries
    <2> QED
      BY <2>1 DEF Answers, Store, OddsTypeOK
  <1>4. unoffered' = unoffered \cup {e \in S : market[e] = "nothing"}
    BY DEF Answers
  <1>5. ASSUME NEW e \in S
        PROVE  entry'[e].says = market[e] /\ entry'[e].says \in {"price", "nothing"}
    <2>1. entry'[e] = [says |-> market[e], age |-> "fresh"]
      BY <1>2
    <2> QED
      BY <1>1, <2>1
  <1>6. ASSUME NEW e \in Events
        PROVE  /\ entry[e].says # "none" => entry'[e].says # "none"
               /\ entry'[e].says = "nothing" => entry[e].says = "nothing" \/ e \in unoffered'
    <2>1. CASE e \in S
      BY <1>4, <1>5, <2>1
    <2>2. CASE e \notin S
      BY <1>2, <2>2
    <2> QED
      BY <2>1, <2>2
  <1>7. unoffered \subseteq unoffered' /\ unoffered' \subseteq Events
    BY <1>4 DEF OddsTypeOK
  <1> QED
    BY <1>3, <1>5, <1>6, <1>7 DEF NewlyLearnt

LEMMA RequestsTeach ==
    ASSUME OddsTypeOK, NEW c \in Callers, AsksChunk(c) \/ Isolates(c)
    PROVE  NewlyLearnt
  <1>1. CASE UNCHANGED <<entry, unoffered>>
    BY <1>1 DEF NewlyLearnt, OddsTypeOK
  <1>2. CASE AsksChunk(c) /\ ~UNCHANGED <<entry, unoffered>>
    <2>1. Chunk(caller[c].todo) \in SUBSET Events
      BY DEF OddsTypeOK, CallRecords, Chunk
    <2>2. Answers(Chunk(caller[c].todo))
      BY <1>2 DEF AsksChunk, HoldsOff
    <2> QED
      BY <2>1, <2>2, AnswersTeach
  <1>3. CASE Isolates(c) /\ ~UNCHANGED <<entry, unoffered>>
    <2> DEFINE S == Head(ToProbe(c))
    <2>1. S \in SUBSET Events
      <3>1. ToProbe(c) \in Seq(SUBSET caller[c].wanted) /\ ToProbe(c) # <<>>
            /\ caller[c].wanted \in SUBSET Events
        BY <1>3, ToProbeIsWanted DEF Isolates, OddsTypeOK, CallRecords
      <3> QED
        BY <3>1, SequencesOfSets
    <2>2. CASE Answers(S)
      <3> HIDE DEF S
      <3> QED
        BY <2>1, <2>2, AnswersTeach
    <2>3. CASE /\ entry' = [e \in Events |-> IF e \in Blamed(S) THEN [says |-> "nothing", age |-> "fresh"]
                                             ELSE entry[e]]
               /\ unoffered' = IF Cardinality(S) = 1 THEN unoffered \cup S ELSE unoffered
      <3> HIDE DEF S
      <3>1. [says |-> "nothing", age |-> "fresh"] \in Entries
        BY DEF Entries
      <3>2. Blamed(S) \subseteq unoffered' /\ unoffered \subseteq unoffered'
            /\ unoffered' \subseteq Events
        BY <2>1, <2>3 DEF Blamed, OddsTypeOK
      <3> QED
        BY <2>3, <3>1, <3>2 DEF NewlyLearnt, OddsTypeOK
    <2> HIDE DEF S
    <2> QED
      BY <1>3, <2>2, <2>3 DEF Isolates, HoldsOff, S
  <1> QED
    BY <1>1, <1>2, <1>3

LEMMA OddsTypeStep ==
    ASSUME OddsTypeOK, [OddsNext]_oddsVars
    PROVE  OddsTypeOK'
  <1> USE DEF spending, markers
  <1>1. /\ market \in [Events -> {"price", "nothing", "gone"}]
        /\ entry \in [Events -> Entries]
        /\ holdOff \subseteq {"rate limited", "refused"}
        /\ carded \in Nat /\ charged \in Nat
        /\ marked \subseteq Events /\ due \subseteq Events /\ unoffered \subseteq Events
        /\ caller \in [Callers -> CallRecords] /\ \A c \in Callers : Within(caller[c])
    BY DEF OddsTypeOK
  (* Most steps rewrite one call.                                           *)
  <1>2. ASSUME NEW c \in Callers, NEW n \in CallRecords, Within(n),
               caller' = [caller EXCEPT ![c] = n]
        PROVE  caller' \in [Callers -> CallRecords] /\ \A d \in Callers : Within(caller'[d])
    BY <1>1, <1>2
  <1>3. ASSUME NEW c \in Callers, Calls(c)
        PROVE  OddsTypeOK'
    <2>1. PICK n \in CallRecords : Within(n) /\ caller' = [caller EXCEPT ![c] = n]
      <3>1. ASSUME NEW W \in SUBSET Events, NEW n,
                   \/ n = [NoCall EXCEPT !.at = "waits", !.wanted = W]
                   \/ n = [NoCall EXCEPT !.at = "waits", !.card = TRUE, !.wanted = W, !.was = marked]
            PROVE  n \in CallRecords /\ Within(n)
        <4>1. <<>> \in Seq(SUBSET Events) /\ <<>> \in Seq(SUBSET W)
          OBVIOUS
        <4>2. n \in CallRecords
          <5>1. [NoCall EXCEPT !.at = "waits", !.wanted = W] \in CallRecords
            BY <4>1 DEF NoCall, CallRecords, Stages
          <5>2. [NoCall EXCEPT !.at = "waits", !.card = TRUE, !.wanted = W, !.was = marked] \in CallRecords
            BY <1>1, <4>1 DEF NoCall, CallRecords, Stages
          <5> QED
            BY <3>1, <5>1, <5>2
        <4>3. n.todo = {} /\ n.observed = {} /\ n.rejected = <<>> /\ n.halves = <<>> /\ n.wanted = W
          BY <3>1 DEF NoCall
        <4> QED
          BY <4>1, <4>2, <4>3 DEF Within
      <3>2. Askable \in SUBSET Events /\ \A e \in Events : {e} \in SUBSET Events
        BY DEF Askable
      <3> QED
        BY <1>3, <3>1, <3>2 DEF Calls
    <2> QED
      BY <1>1, <1>2, <1>3, <2>1 DEF Calls, OddsTypeOK
  <1>4. ASSUME NEW c \in Callers, Enters(c)
        PROVE  OddsTypeOK'
    <2>1. PICK n \in CallRecords : Within(n) /\ caller' = [caller EXCEPT ![c] = n]
      <3> DEFINE stale == {e \in caller[c].wanted : Stale(e, caller[c].card)}
                 n == [caller[c] EXCEPT !.at = "refill", !.todo = stale, !.probes = IsolationLimit]
      <3>1. caller[c] \in CallRecords /\ Within(caller[c]) /\ stale \in SUBSET caller[c].wanted
            /\ caller[c].wanted \in SUBSET Events
        BY <1>1 DEF CallRecords
      <3>2. n \in CallRecords /\ Within(n)
        <4> HIDE DEF stale
        <4> QED
          BY <3>1, OddsAssumption DEF CallRecords, Within, Stages
      <3>3. caller' = [caller EXCEPT ![c] = n] \/ caller' = [caller EXCEPT ![c] = NoCall]
        BY <1>4 DEF Enters
      <3> HIDE DEF n
      <3> QED
        BY <3>2, <3>3, NoCallIsCall
    <2> QED
      BY <1>1, <1>2, <1>4, <2>1 DEF Enters, OddsTypeOK
  <1>5. ASSUME NEW c \in Callers, AsksChunk(c) \/ Isolates(c)
        PROVE  OddsTypeOK'
    <2>1. PICK n \in CallRecords : Within(n) /\ caller' = [caller EXCEPT ![c] = n]
      BY <1>5, ChunkCall, ProbeCall
    <2>2. NewlyLearnt
      BY <1>5, RequestsTeach
    <2>3. carded' \in Nat /\ charged' \in Nat
      <3>1. carded \in Nat /\ charged \in Nat /\ Charge(c)
        BY <1>1, <1>5 DEF AsksChunk, Isolates
      <3> QED
        BY ONLY <3>1 DEF Charge
    <2>4. holdOff' \subseteq {"rate limited", "refused"} /\ UNCHANGED <<market, marked, due>>
      BY <1>1, <1>5 DEF AsksChunk, Isolates, HoldsOff
    <2> QED
      BY <1>1, <1>2, <2>1, <2>2, <2>3, <2>4 DEF OddsTypeOK, NewlyLearnt
  <1>6. ASSUME NEW c \in Callers, Leaves(c)
        PROVE  OddsTypeOK'
    <2>1. PICK n \in CallRecords : Within(n) /\ caller' = [caller EXCEPT ![c] = n]
      <3> DEFINE P == Priced(caller[c].wanted)
                 n == [caller[c] EXCEPT !.at = "learned", !.rejected = <<>>, !.halves = <<>>,
                                        !.probes = 0, !.priced = P]
      <3>1. caller[c] \in CallRecords /\ Within(caller[c]) /\ P \in SUBSET Events
        BY <1>1 DEF CallRecords, Priced
      <3>2. <<>> \in Seq(SUBSET Events) /\ <<>> \in Seq(SUBSET caller[c].wanted)
        OBVIOUS
      <3>3. n \in CallRecords /\ Within(n)
        <4> HIDE DEF P
        <4> QED
          BY <3>1, <3>2 DEF CallRecords, Within, Stages
      <3>4. caller' = [caller EXCEPT ![c] = n] \/ caller' = [caller EXCEPT ![c] = NoCall]
        BY <1>6 DEF Leaves
      <3> HIDE DEF n
      <3> QED
        BY <3>3, <3>4, NoCallIsCall
    <2> QED
      BY <1>1, <1>2, <1>6, <2>1 DEF Leaves, OddsTypeOK
  <1>7. ASSUME NEW c \in Callers, Records(c)
        PROVE  OddsTypeOK'
    <2>1. caller[c].observed \subseteq Events
      BY <1>1 DEF CallRecords
    <2>2. marked' \subseteq Events /\ due' \subseteq Events
      BY <1>1, <1>7, <2>1 DEF Records
    <2>3. caller' = [caller EXCEPT ![c] = NoCall]
      BY <1>7 DEF Records
    <2> QED
      BY <1>1, <1>2, <1>7, <2>2, <2>3, NoCallIsCall DEF Records, OddsTypeOK
  <1>8. ASSUME NEW e \in Events, Ages(e)
        PROVE  OddsTypeOK'
    <2>1. entry' \in [Events -> Entries]
      BY <1>1, <1>8 DEF Ages, Entries
    <2> QED
      BY <1>1, <1>8, <2>1 DEF Ages, OddsTypeOK
  <1>9. ASSUME NEW e \in Events, \/ RecheckFallsDue(e)
                                 \/ \E to \in {"price", "nothing", "gone"} : MarketMoves(e, to)
        PROVE  OddsTypeOK'
    BY <1>1, <1>9 DEF RecheckFallsDue, MarketMoves, OddsTypeOK
  <1>10. CASE Restart
    <2>1. NoEntry \in Entries
      BY DEF NoEntry, Entries
    <2> QED
      BY <1>1, <1>10, <2>1, NoCallIsCall DEF Restart, OddsTypeOK
  <1>11. CASE HourRolls \/ (\E n \in 1 .. 2 : Uncached(n)) \/ \E why \in holdOff : HoldOffEnds(why)
    <2>1. carded' \in Nat /\ charged' \in Nat
      <3>0. carded \in Nat /\ charged \in Nat
        BY <1>1
      <3>1. CASE HourRolls
        BY ONLY <3>0, <3>1 DEF HourRolls
      <3>2. CASE \E n \in 1 .. 2 : Uncached(n)
        BY ONLY <3>0, <3>2 DEF Uncached
      <3>3. CASE \E why \in holdOff : HoldOffEnds(why)
        BY <1>1, <3>3 DEF HoldOffEnds
      <3> QED
        BY <1>11, <3>1, <3>2, <3>3
    <2>2. holdOff' \subseteq holdOff /\ UNCHANGED <<market, entry, caller, markers, unoffered>>
      BY <1>11 DEF HourRolls, Uncached, HoldOffEnds
    <2> QED
      BY <1>1, <2>1, <2>2 DEF OddsTypeOK
  <1>12. CASE UNCHANGED oddsVars
    BY <1>12 DEF oddsVars, OddsTypeOK
  <1> QED
    BY <1>3, <1>4, <1>5, <1>6, <1>7, <1>8, <1>9, <1>10, <1>11, <1>12 DEF OddsNext

(* The odds cache's type invariant, and that no call asks about, or reports *)
(* on, an event that was not wanted of it.                                  *)
THEOREM OddsTypes == OddsSpec => []OddsTypeOK
  BY OddsInitInv, OddsTypeStep, PTL DEF OddsSpec

----------------------------------------------------------------------------
(* Evidence.                                                                *)

(* As long as nothing is forgotten, only the call that takes the step and   *)
(* the marker it writes are in question.                                    *)
LEMMA EvidenceKept ==
    ASSUME OddsTypeOK, EvidenceInv, unoffered \subseteq unoffered',
           \A e \in Events :
               /\ entry[e].says # "none" => entry'[e].says # "none"
               /\ entry'[e].says = "nothing" => entry[e].says = "nothing" \/ e \in unoffered',
           marked' \subseteq unoffered',
           \A c \in Callers : caller'[c] = caller[c] \/ Evidence(caller[c])'
    PROVE  EvidenceInv'
  <1>1. \A e \in Events : entry'[e].says = "nothing" => e \in unoffered'
    BY DEF EvidenceInv
  <1>2. ASSUME NEW c \in Callers
        PROVE  Evidence(caller[c])'
    <2>1. CASE caller'[c] = caller[c]
      <3>1. caller[c].observed \subseteq Events /\ Evidence(caller[c])
        BY DEF OddsTypeOK, CallRecords, EvidenceInv
      <3> QED
        BY <2>1, <3>1 DEF Evidence
    <2> QED
      BY <2>1
  <1> QED
    BY <1>1, <1>2 DEF EvidenceInv

LEMMA EvidenceStep ==
    ASSUME OddsTypeOK, OddsTypeOK', EvidenceInv, [OddsNext]_oddsVars
    PROVE  EvidenceInv'
  <1> USE DEF spending, markers
  <1>1. marked \subseteq unoffered /\ caller \in [Callers -> CallRecords]
    BY DEF EvidenceInv, OddsTypeOK
  <1>2. ASSUME NEW c \in Callers, Calls(c)
        PROVE  EvidenceInv'
    <2>1. UNCHANGED <<entry, marked, unoffered>>
      BY <1>2 DEF Calls
    <2>5. \A d \in Callers \ {c} : caller'[d] = caller[d]
      BY <1>1, <1>2 DEF Calls
    <2>2. caller'[c].at = "waits" /\ caller'[c].observed = {}
      BY <1>1, <1>2 DEF Calls, NoCall
    <2>3. Evidence(caller[c])'
      BY <2>2 DEF Evidence
    <2> QED
      BY <1>1, <2>1, <2>3, <2>5, EvidenceKept
  <1>3. ASSUME NEW c \in Callers, Enters(c)
        PROVE  EvidenceInv'
    <2>1. UNCHANGED <<entry, marked, unoffered>>
      BY <1>3 DEF Enters
    <2>2. caller[c].observed = {} /\ caller[c] \in CallRecords
      BY <1>1, <1>3 DEF Enters, EvidenceInv, Evidence
    <2> DEFINE n == [caller[c] EXCEPT !.at = "refill",
                         !.todo = {e \in caller[c].wanted : Stale(e, caller[c].card)},
                         !.probes = IsolationLimit]
    <2>3. n.at = "refill" /\ n.observed = {}
      BY <2>2 DEF CallRecords
    <2>4. caller' = [caller EXCEPT ![c] = n] \/ caller' = [caller EXCEPT ![c] = NoCall]
      BY <1>3 DEF Enters
    <2> HIDE DEF n
    <2>5. Evidence(caller[c])' /\ \A d \in Callers \ {c} : caller'[d] = caller[d]
      BY <1>1, <2>3, <2>4, NoCallIsCall DEF Evidence
    <2> QED
      BY <1>1, <2>1, <2>5, EvidenceKept
  <1>4. ASSUME NEW c \in Callers, AsksChunk(c) \/ Isolates(c)
        PROVE  EvidenceInv'
    <2>1. NewlyLearnt /\ marked' = marked
      BY <1>4, RequestsTeach DEF AsksChunk, Isolates
    <2>2. caller[c].at = "refill" /\ Evidence(caller[c])
          /\ caller[c].observed \subseteq Events
      BY <1>1, <1>4 DEF AsksChunk, Isolates, EvidenceInv, CallRecords
    <2>3. PICK n \in CallRecords :
              /\ caller' = [caller EXCEPT ![c] = n]
              /\ n # NoCall => /\ n.at = "refill"
                               /\ \A e \in n.observed \ caller[c].observed : entry'[e].says # "none"
      <3>1. CASE AsksChunk(c)
        <4>1. Chunk(caller[c].todo) \in SUBSET Events
          BY <1>1 DEF CallRecords, Chunk
        <4>2. Answers(Chunk(caller[c].todo)) =>
                  \A e \in Chunk(caller[c].todo) : entry'[e].says # "none"
          BY <4>1, AnswersTeach
        <4> QED
          BY <2>2, <3>1, <4>2, ChunkCall DEF SameCall
      <3>2. CASE Isolates(c)
        BY <2>2, <3>2, ProbeCall DEF SameCall
      <3> QED
        BY <1>4, <3>1, <3>2
    <2>4. Evidence(caller[c])'
      <3>1. caller'[c] = n
        BY <1>1, <2>3
      <3>2. CASE n = NoCall
        BY <3>1, <3>2, NoCallIsCall DEF Evidence
      <3>3. CASE n # NoCall
        BY <2>1, <2>2, <2>3, <3>1, <3>3 DEF Evidence, NewlyLearnt
      <3> QED
        BY <3>2, <3>3
    <2>5. \A d \in Callers \ {c} : caller'[d] = caller[d]
      BY <2>3
    <2> QED
      BY <1>1, <2>1, <2>4, <2>5, EvidenceKept DEF NewlyLearnt
  <1>5. ASSUME NEW c \in Callers, Leaves(c)
        PROVE  EvidenceInv'
    <2>1. UNCHANGED <<entry, marked, unoffered>> /\ \A d \in Callers \ {c} : caller'[d] = caller[d]
      BY <1>5 DEF Leaves
    <2>2. \A e \in caller[c].observed \ Priced(caller[c].wanted) : e \in unoffered
      <3> SUFFICES ASSUME NEW e \in caller[c].observed, e \notin Priced(caller[c].wanted)
                   PROVE  e \in unoffered
        OBVIOUS
      <3>1. e \in caller[c].wanted /\ e \in Events
        BY DEF OddsTypeOK, Within, CallRecords
      <3>2. entry[e].says # "price"
        BY <3>1 DEF Priced
      <3>3. entry[e].says # "none"
        BY <1>5 DEF Leaves, EvidenceInv, Evidence
      <3>4. entry[e].says \in {"none", "price", "nothing"}
        BY <3>1 DEF OddsTypeOK, Entries
      <3> QED
        BY <3>1, <3>2, <3>3, <3>4 DEF EvidenceInv
    <2>3. \/ caller'[c] = NoCall
          \/ /\ caller'[c].at = "learned" /\ caller'[c].observed = caller[c].observed
             /\ caller'[c].priced = Priced(caller[c].wanted)
      BY <1>1, <1>5 DEF Leaves, CallRecords
    <2>4. Evidence(caller[c])'
      BY <2>1, <2>2, <2>3, NoCallIsCall DEF Evidence
    <2> QED
      BY <1>1, <2>1, <2>4, EvidenceKept
  <1>6. ASSUME NEW c \in Callers, Records(c)
        PROVE  EvidenceInv'
    <2>1. UNCHANGED <<entry, unoffered>> /\ caller' = [caller EXCEPT ![c] = NoCall]
      BY <1>6 DEF Records
    <2>2. caller[c].observed \ caller[c].priced \subseteq unoffered
      BY <1>6 DEF Records, EvidenceInv, Evidence
    <2>3. marked' \subseteq unoffered
      BY <1>1, <1>6, <2>2 DEF Records
    <2>4. Evidence(caller[c])'
      BY <1>1, <2>1, NoCallIsCall DEF Evidence
    <2> QED
      BY <2>1, <2>3, <2>4, EvidenceKept
  <1>7. ASSUME NEW e \in Events, Ages(e)
        PROVE  EvidenceInv'
    <2>1. \A f \in Events : entry'[f].says = entry[f].says
      <3>1. entry \in [Events -> Entries]
        BY DEF OddsTypeOK
      <3> DEFINE a == IF entry[e].age = "fresh" THEN "aging" ELSE "old"
      <3>2. entry' = [entry EXCEPT ![e] = [entry[e] EXCEPT !.age = a]]
        BY <1>7 DEF Ages
      <3> HIDE DEF a
      <3>3. [entry[e] EXCEPT !.age = a].says = entry[e].says
        BY <3>1 DEF Entries
      <3> QED
        BY <3>1, <3>2, <3>3
    <2> QED
      BY <1>1, <1>7, <2>1, EvidenceKept DEF Ages
  <1>8. CASE Restart
    <2>1. /\ \A c \in Callers : caller'[c] = NoCall
          /\ \A e \in Events : entry'[e].says = "none"
          /\ UNCHANGED <<marked, unoffered>>
      BY <1>8 DEF Restart, NoEntry
    <2> QED
      BY <1>1, <2>1, NoCallIsCall DEF EvidenceInv, Evidence
  <1>9. CASE UNCHANGED <<entry, caller, marked, unoffered>>
    BY <1>1, <1>9, EvidenceKept
  <1> QED
    BY <1>2, <1>3, <1>4, <1>5, <1>6, <1>7, <1>8, <1>9
    DEF OddsNext, oddsVars, Uncached, HourRolls, HoldOffEnds, RecheckFallsDue, MarketMoves

(* "A provider we cannot reach is not evidence that a fixture has no        *)
(* price": an event is off the card only if the provider answered about it  *)
(* without a price or refused it alone (_refill, _isolate,                  *)
(* record_observations).                                                    *)
THEOREM MarkersRestOnEvidence == OddsSpec => []MarkedOnEvidence
  <1>1. EvidenceInv => MarkedOnEvidence
    BY DEF EvidenceInv, MarkedOnEvidence
  <1>2. OddsInit => EvidenceInv
    BY OddsInitInv
  <1> QED
    BY <1>1, <1>2, OddsTypes, EvidenceStep, PTL DEF OddsSpec

----------------------------------------------------------------------------
(* Rationing.                                                               *)

LEMMA CeilingIsInt == Ceiling \in Int
  <1>1. PICK k \in Nat : k + IsolationLimit = LongestRefill
    BY RoundFits
  <1> QED
    BY <1>1, OddsAssumption DEF Ceiling

(* A step that asks for nothing leaves the ration alone.                    *)
LEMMA RationKept ==
    ASSUME OddsTypeOK, OddsTypeOK', RationInv, holdOff' \subseteq holdOff, carded' =< carded,
           \A c \in Callers : caller'[c].at = "refill" => caller'[c] = caller[c]
    PROVE  RationInv'
  <1>1. Refilling' \subseteq Refilling
    BY DEF Refilling
  <1>2. ASSUME NEW c \in Refilling'
        PROVE  caller'[c] = caller[c] /\ c \in Refilling /\ c \in Callers
    BY <1>1 DEF Refilling
  <1>3. carded \in Nat /\ carded' \in Nat
    BY DEF OddsTypeOK
  <1>4. Ceiling \in Int
    BY CeilingIsInt
  <1>5. ASSUME NEW c \in Refilling', HasMore(c)'
        PROVE  /\ holdOff' = {}
               /\ HourLimit > Reserve /\ caller'[c].card => FitsUnder(c)'
    <2>1. HasMore(c)
      BY <1>2, <1>5 DEF HasMore, ToProbe
    <2>2. holdOff = {} /\ (HourLimit > Reserve /\ caller[c].card => FitsUnder(c))
      BY <1>2, <2>1 DEF RationInv
    <2>3. ASSUME FitsUnder(c)
          PROVE  FitsUnder(c)'
      <3>1. PICK k \in Nat : /\ Cardinality(caller[c].todo) =< k * ChunkSize
                             /\ carded + k + caller[c].probes =< Ceiling
        BY <2>3 DEF FitsUnder
      <3>2. caller[c].probes \in Nat
        BY <1>2 DEF OddsTypeOK, CallRecords
      <3>3. carded' + k + caller[c].probes =< Ceiling
        BY ONLY <1>3, <1>4, <3>1, <3>2, carded' =< carded
      <3>4. Ceiling' = Ceiling
        BY DEF Ceiling, LongestRefill
      <3> QED
        BY <1>2, <3>1, <3>3, <3>4 DEF FitsUnder
    <2> QED
      BY <1>2, <2>2, <2>3
  <1>6. HourLimit > Reserve => carded' =< Ceiling
    BY <1>3, <1>4 DEF RationInv
  <1>7. \A c, d \in Refilling' : c = d
    BY <1>1 DEF RationInv
  <1> QED
    BY <1>5, <1>6, <1>7 DEF RationInv, Ceiling, LongestRefill

(* The one call that refills sends a request, and has that much less to ask *)
(* or is done.                                                              *)
LEMMA RationSpent ==
    ASSUME OddsTypeOK, OddsTypeOK', RationInv, NEW c \in Refilling, HasMore(c), Charge(c),
           NEW n, caller' = [caller EXCEPT ![c] = n], n # NoCall => n.card = caller[c].card,
           n # NoCall /\ (n.todo # {} \/ n.rejected # <<>> \/ n.halves # <<>>) =>
               /\ holdOff' = holdOff
               /\ \A k \in Nat : Cardinality(caller[c].todo) =< k * ChunkSize =>
                      \E j \in Nat : /\ Cardinality(n.todo) =< j * ChunkSize
                                     /\ j + n.probes < k + caller[c].probes,
           HourLimit > Reserve /\ caller[c].card => carded < Ceiling
    PROVE  RationInv'
  <1>1. carded \in Nat /\ carded' \in Nat /\ c \in Callers /\ caller \in [Callers -> CallRecords]
    BY DEF OddsTypeOK, Refilling
  <1>2. caller'[c] = n /\ \A d \in Callers \ {c} : caller'[d] = caller[d]
    BY <1>1
  <1>3. Refilling' \subseteq {c}
    <2> SUFFICES ASSUME NEW d \in Refilling', d # c
                 PROVE  FALSE
      OBVIOUS
    <2>1. d \in Refilling
      BY <1>2 DEF Refilling
    <2> QED
      BY <2>1 DEF RationInv
  <1>4. holdOff = {} /\ (HourLimit > Reserve /\ caller[c].card => FitsUnder(c))
    BY DEF RationInv
  <1>5. Ceiling \in Int /\ Ceiling' = Ceiling
    BY CeilingIsInt DEF Ceiling, LongestRefill
  <1>6. carded' = IF caller[c].card THEN carded + 1 ELSE carded
    BY DEF Charge
  <1>7. HourLimit > Reserve => carded' =< Ceiling
    <2>1. HourLimit > Reserve => carded =< Ceiling
      BY DEF RationInv
    <2>2. HourLimit > Reserve /\ caller[c].card => carded < Ceiling
      OBVIOUS
    <2>3. HourLimit \in Int /\ Reserve \in Int
      BY OddsAssumption
    <2> QED
      BY ONLY <1>1, <1>5, <1>6, <2>1, <2>2, <2>3
  <1>8. ASSUME NEW d \in Refilling', HasMore(d)'
        PROVE  /\ holdOff' = {}
               /\ HourLimit > Reserve /\ caller'[d].card => FitsUnder(d)'
    <2>1. d = c /\ n # NoCall /\ n \in CallRecords
      BY <1>2, <1>3, NoCallIsCall DEF Refilling, OddsTypeOK
    <2>2. n.todo # {} \/ n.rejected # <<>> \/ n.halves # <<>>
      BY <1>2, <1>8, <2>1 DEF HasMore, ToProbe
    <2>3. holdOff' = {} /\ n.card = caller[c].card
      BY <1>4, <2>1, <2>2
    <2>4. ASSUME HourLimit > Reserve, caller[c].card
          PROVE  FitsUnder(c)'
      <3>1. PICK k \in Nat : /\ Cardinality(caller[c].todo) =< k * ChunkSize
                             /\ carded + k + caller[c].probes =< Ceiling
        BY <1>4, <2>4 DEF FitsUnder
      <3>2. PICK j \in Nat : /\ Cardinality(n.todo) =< j * ChunkSize
                             /\ j + n.probes < k + caller[c].probes
        BY <2>1, <2>2, <3>1
      <3>3. caller[c].probes \in Nat /\ n.probes \in Nat
        BY <1>1, <2>1 DEF CallRecords
      <3>4. carded' = carded + 1
        BY <1>6, <2>4
      <3>5. carded' + j + n.probes =< Ceiling
        BY ONLY <1>1, <1>5, <3>1, <3>2, <3>3, <3>4
      <3> QED
        BY <1>2, <1>5, <3>2, <3>5 DEF FitsUnder
    <2> QED
      BY <1>2, <2>1, <2>3, <2>4
  <1> QED
    BY <1>3, <1>5, <1>7, <1>8 DEF RationInv

LEMMA RationStep ==
    ASSUME OddsTypeOK, OddsTypeOK', RationInv, [OddsNext]_oddsVars
    PROVE  RationInv'
  <1> USE DEF spending, markers
  <1>1. /\ caller \in [Callers -> CallRecords] /\ carded \in Nat /\ charged \in Nat
        /\ carded' \in Nat /\ charged' \in Nat
    BY DEF OddsTypeOK
  <1>2. Ceiling \in Int
    BY CeilingIsInt
  (* One call moves, and not into a refill.                                 *)
  <1>3. ASSUME NEW c \in Callers, NEW n, caller' = [caller EXCEPT ![c] = n], n.at # "refill",
               UNCHANGED <<holdOff, carded>>
        PROVE  RationInv'
    <2>1. \A d \in Callers : caller'[d].at = "refill" => caller'[d] = caller[d]
      BY <1>1, <1>3
    <2>2. carded' =< carded
      BY <1>1, <1>3
    <2> QED
      BY <1>3, <2>1, <2>2, RationKept
  <1>4. ASSUME NEW c \in Callers, Calls(c)
        PROVE  RationInv'
    <2>1. PICK n : caller' = [caller EXCEPT ![c] = n] /\ n.at = "waits"
      <3>1. ASSUME NEW W
            PROVE  /\ [NoCall EXCEPT !.at = "waits", !.wanted = W].at = "waits"
                   /\ [NoCall EXCEPT !.at = "waits", !.card = TRUE, !.wanted = W,
                                     !.was = marked].at = "waits"
        BY DEF NoCall
      <3> QED
        BY <1>4, <3>1 DEF Calls
    <2> QED
      BY <1>3, <1>4, <2>1 DEF Calls
  <1>5. ASSUME NEW c \in Callers, Leaves(c)
        PROVE  RationInv'
    <2>1. PICK n : caller' = [caller EXCEPT ![c] = n] /\ n.at # "refill"
      <3> DEFINE n == [caller[c] EXCEPT !.at = "learned", !.rejected = <<>>, !.halves = <<>>,
                                        !.probes = 0, !.priced = Priced(caller[c].wanted)]
      <3>1. n.at = "learned"
        BY <1>1 DEF CallRecords
      <3>2. caller' = [caller EXCEPT ![c] = n] \/ caller' = [caller EXCEPT ![c] = NoCall]
        BY <1>5 DEF Leaves
      <3> HIDE DEF n
      <3> QED
        BY <3>1, <3>2, NoCallIsCall
    <2> QED
      BY <1>3, <1>5, <2>1 DEF Leaves
  <1>6. ASSUME NEW c \in Callers, Records(c)
        PROVE  RationInv'
    BY <1>3, <1>6, NoCallIsCall DEF Records
  <1>7. ASSUME NEW c \in Callers, Enters(c)
        PROVE  RationInv'
    <2> DEFINE stale == {e \in caller[c].wanted : Stale(e, caller[c].card)}
               n == [caller[c] EXCEPT !.at = "refill", !.todo = stale, !.probes = IsolationLimit]
    <2>1. CASE caller' = [caller EXCEPT ![c] = NoCall]
      BY <1>3, <1>7, <2>1, NoCallIsCall DEF Enters
    <2>2. CASE MayAsk(caller[c].card) /\ caller' = [caller EXCEPT ![c] = n]
      <3>1. holdOff = {} /\ UNCHANGED <<holdOff, carded, charged>> /\ Refilling = {}
        BY <1>7, <2>2 DEF Enters, MayAsk
      <3>2. caller[c].wanted \in SUBSET Events /\ caller[c] \in CallRecords
        BY <1>1 DEF CallRecords
      <3>3. stale \in SUBSET Events
        BY <3>2
      <3>4. n.at = "refill" /\ n.card = caller[c].card /\ n.todo = stale /\ n.probes = IsolationLimit
        <4> HIDE DEF stale
        <4> QED
          BY <3>2 DEF CallRecords
      <3> HIDE DEF n, stale
      <3>5. caller'[c] = n /\ \A d \in Callers \ {c} : caller'[d] = caller[d]
        BY <1>1, <2>2
      <3>6. Refilling' \subseteq {c}
        BY <3>1, <3>5 DEF Refilling
      <3>7. PICK k \in Nat : Cardinality(stale) =< k * ChunkSize /\ k + IsolationLimit = LongestRefill
        BY <3>3, RoundFits
      <3>8. ASSUME HourLimit > Reserve, caller[c].card
            PROVE  carded + k + IsolationLimit =< Ceiling
        <4>1. Remaining > Reserve
          BY <2>2, <3>8 DEF MayAsk
        <4>2. carded =< HourLimit - Reserve - 1
          <5>1. HourLimit \in Nat /\ Reserve \in Nat
            BY OddsAssumption
          <5> QED
            BY ONLY <1>1, <4>1, <5>1 DEF Remaining
        <4>3. HourLimit \in Nat /\ Reserve \in Nat /\ IsolationLimit \in Nat
          BY OddsAssumption
        <4> QED
          BY ONLY <1>1, <3>7, <4>2, <4>3 DEF Ceiling
      <3>9. caller[c].card /\ HourLimit > Reserve => FitsUnder(c)'
        BY <3>1, <3>4, <3>5, <3>7, <3>8 DEF FitsUnder, Ceiling, LongestRefill
      <3> QED
        BY <3>1, <3>4, <3>5, <3>6, <3>9 DEF RationInv, Ceiling, LongestRefill
    <2> HIDE DEF n
    <2> QED
      BY <1>7, <2>1, <2>2 DEF Enters, n
  <1>8. ASSUME NEW c \in Callers, AsksChunk(c)
        PROVE  RationInv'
    <2>1. c \in Refilling /\ HasMore(c) /\ Charge(c) /\ caller[c].todo \in SUBSET Events
          /\ caller[c].todo # {} /\ caller[c].probes \in Nat
      BY <1>1, <1>8 DEF AsksChunk, Refilling, HasMore, CallRecords
    <2>2. PICK n \in CallRecords :
              /\ caller' = [caller EXCEPT ![c] = n]
              /\ n # NoCall =>
                     /\ n.card = caller[c].card /\ n.probes = caller[c].probes
                     /\ \/ n.todo = caller[c].todo \ Chunk(caller[c].todo) /\ holdOff' = holdOff
                        \/ n.todo = {} /\ n.rejected = <<>> /\ n.halves = <<>>
      BY <1>8, ChunkCall DEF SameCall
    <2>3. ASSUME NEW k \in Nat, Cardinality(caller[c].todo) =< k * ChunkSize
          PROVE  k > 0 /\ Cardinality(caller[c].todo \ Chunk(caller[c].todo)) =< (k - 1) * ChunkSize
      BY <2>1, <2>3, ChunkTakesOne
    <2>4. ASSUME n # NoCall, n.todo # {} \/ n.rejected # <<>> \/ n.halves # <<>>
          PROVE  /\ holdOff' = holdOff
                 /\ \A k \in Nat : Cardinality(caller[c].todo) =< k * ChunkSize =>
                        \E j \in Nat : /\ Cardinality(n.todo) =< j * ChunkSize
                                       /\ j + n.probes < k + caller[c].probes
      <3>1. n.todo = caller[c].todo \ Chunk(caller[c].todo) /\ holdOff' = holdOff
        BY <2>2, <2>4
      <3>2. ASSUME NEW k \in Nat, Cardinality(caller[c].todo) =< k * ChunkSize
            PROVE  \E j \in Nat : /\ Cardinality(n.todo) =< j * ChunkSize
                                  /\ j + n.probes < k + caller[c].probes
        <4>1. k > 0 /\ Cardinality(n.todo) =< (k - 1) * ChunkSize
          BY <2>3, <3>1, <3>2
        <4>2. k - 1 \in Nat /\ (k - 1) + n.probes < k + caller[c].probes
          BY <2>1, <2>2, <2>4, <4>1
        <4> QED
          BY <4>1, <4>2
      <3> QED
        BY <3>1, <3>2
    <2>5. ASSUME HourLimit > Reserve, caller[c].card
          PROVE  carded < Ceiling
      <3>1. PICK k \in Nat : /\ Cardinality(caller[c].todo) =< k * ChunkSize
                             /\ carded + k + caller[c].probes =< Ceiling
        BY <2>1, <2>5 DEF RationInv, FitsUnder
      <3>2. k > 0
        BY <2>3, <3>1
      <3> QED
        BY ONLY <1>1, <1>2, <2>1, <3>1, <3>2
    <2> QED
      BY <2>1, <2>2, <2>4, <2>5, RationSpent
  <1>9. ASSUME NEW c \in Callers, Isolates(c)
        PROVE  RationInv'
    <2>1. c \in Refilling /\ HasMore(c) /\ Charge(c) /\ caller[c].todo = {}
          /\ caller[c].probes \in Nat /\ caller[c].probes > 0
      BY <1>1, <1>9 DEF Isolates, Refilling, HasMore, CallRecords
    <2>2. PICK n \in CallRecords :
              /\ caller' = [caller EXCEPT ![c] = n]
              /\ n # NoCall =>
                     /\ n.card = caller[c].card /\ n.todo = {}
                     /\ \/ n.probes = caller[c].probes - 1 /\ holdOff' = holdOff
                        \/ n.rejected = <<>> /\ n.halves = <<>>
      BY <1>9, ProbeCall DEF SameCall
    <2>3. ASSUME n # NoCall, n.todo # {} \/ n.rejected # <<>> \/ n.halves # <<>>
          PROVE  /\ holdOff' = holdOff
                 /\ \A k \in Nat : Cardinality(caller[c].todo) =< k * ChunkSize =>
                        \E j \in Nat : /\ Cardinality(n.todo) =< j * ChunkSize
                                       /\ j + n.probes < k + caller[c].probes
      <3>1. n.todo = caller[c].todo /\ n.probes = caller[c].probes - 1 /\ holdOff' = holdOff
        BY <2>1, <2>2, <2>3
      <3>2. \A k \in Nat : k + n.probes < k + caller[c].probes
        BY <2>1, <3>1
      <3> QED
        BY <3>1, <3>2
    <2>4. ASSUME HourLimit > Reserve, caller[c].card
          PROVE  carded < Ceiling
      <3>1. PICK k \in Nat : carded + k + caller[c].probes =< Ceiling
        BY <2>1, <2>4 DEF RationInv, FitsUnder
      <3> QED
        BY ONLY <1>1, <1>2, <2>1, <3>1
    <2> QED
      BY <2>1, <2>2, <2>3, <2>4, RationSpent
  <1>10. CASE Restart
    <2>1. holdOff' \subseteq holdOff /\ carded' =< carded
      BY <1>1, <1>10 DEF Restart
    <2>2. \A c \in Callers : caller'[c].at # "refill"
      BY <1>10, NoCallIsCall DEF Restart
    <2> QED
      BY <2>1, <2>2, RationKept
  <1>11. CASE UNCHANGED caller /\ holdOff' \subseteq holdOff /\ carded' =< carded
    BY <1>11, RationKept
  <1>12. ASSUME HourRolls \/ UNCHANGED oddsVars \/ (\E k \in 1 .. 2 : Uncached(k))
                \/ (\E why \in holdOff : HoldOffEnds(why))
                \/ \E e \in Events : \/ Ages(e) \/ RecheckFallsDue(e)
                                     \/ \E to \in {"price", "nothing", "gone"} : MarketMoves(e, to)
         PROVE  UNCHANGED caller /\ holdOff' \subseteq holdOff /\ carded' =< carded
    <2>1. UNCHANGED caller /\ holdOff' \subseteq holdOff
      BY <1>12 DEF HourRolls, oddsVars, Uncached, HoldOffEnds, Ages, RecheckFallsDue, MarketMoves
    <2>2. carded' = carded \/ carded' = carded - 1
      BY <1>1, <1>12 DEF HourRolls, oddsVars, Uncached, HoldOffEnds, Ages, RecheckFallsDue, MarketMoves
    <2>3. carded' =< carded
      BY ONLY <1>1, <2>2
    <2> QED
      BY <2>1, <2>3
  <1> QED
    BY <1>4, <1>5, <1>6, <1>7, <1>8, <1>9, <1>10, <1>11, <1>12 DEF OddsNext

(* Requests are rationed: nobody asks inside a hold-off, and the cards of   *)
(* an hour send at most one refill into what is kept for picks, whatever    *)
(* the budget, the chunk and the number of members (_refuse_upstream).      *)
THEOREM CardsLeaveTheReserve == OddsSpec => []RequestsAreRationed
  <1>1. RationInv => RequestsAreRationed
    BY DEF RationInv, RequestsAreRationed, HasMore, Ceiling
  <1>2. OddsInit => RationInv
    BY OddsInitInv
  <1> QED
    BY <1>1, <1>2, OddsTypes, RationStep, PTL DEF OddsSpec

(***************************************************************************)
(* The football data: a sweep's budget starves nobody.                      *)
(***************************************************************************)

(* The turns are a strict order of all competitions.                        *)
InOrder(R) ==
    /\ R \subseteq Competitions \X Competitions
    /\ \A c \in Competitions : <<c, c>> \notin R
    /\ \A c, d \in Competitions : c # d => <<c, d>> \in R \/ <<d, c>> \in R
    /\ \A c, d, e \in Competitions : <<c, d>> \in R /\ <<d, e>> \in R => <<c, e>> \in R
FootballTypeOK ==
    /\ pooled \subseteq Competitions
    /\ InOrder(older)
    /\ DOMAIN sweep = {"runs", "todo", "tried", "done"}
    /\ sweep.runs \in BOOLEAN
    /\ sweep.done \subseteq sweep.tried
    /\ passed \in [Competitions -> [Competitions -> {0, 1}]]

(* Whom a table has passed comes before it; and whoever a run has in hand   *)
(* or behind it that has passed another, it has the other too.              *)
PassedComeFirst == \A c, d \in Competitions : passed[c][d] = 1 => <<c, d>> \in older
TheirTurnIsTaken ==
    sweep.runs =>
        \A c \in pooled, d \in Competitions :
            passed[c][d] = 1 /\ d \in sweep.tried \cup sweep.todo => c \in sweep.tried \cup sweep.todo
TurnsInv == FootballTypeOK /\ PassedComeFirst /\ TheirTurnIsTaken

(* Competitions are finitely many numbers.                                  *)
LEMMA CompetitionsAreFinite == IsFiniteSet(Competitions) /\ Competitions \subseteq Int
<1>1. LastCompetition \in Nat
  BY FootballDataAssumption
<1> QED BY <1>1, FS_Interval DEF Competitions

(* Nobody has been passed at first.                                         *)
LEMMA NobodyIsPassed == FootballInit => TurnsInv
<1> SUFFICES ASSUME FootballInit PROVE TurnsInv
  OBVIOUS
<1>1. InOrder(older)
  <2> DEFINE R == {x \in Competitions \X Competitions : x[1] < x[2]}
  <2>1. \A c, d \in Competitions : <<c, d>> \in R <=> c < d
    OBVIOUS
  <2>2. R \subseteq Competitions \X Competitions
    OBVIOUS
  <2>3. older = R
    BY DEF FootballInit
  <2> HIDE DEF R
  <2> QED BY <2>1, <2>2, <2>3, CompetitionsAreFinite DEF InOrder
<1>2. FootballTypeOK
  BY <1>1 DEF FootballTypeOK, FootballInit, NoSweep
<1>3. PassedComeFirst /\ TheirTurnIsTaken
  BY DEF FootballInit, NoSweep, PassedComeFirst, TheirTurnIsTaken
<1> QED BY <1>2, <1>3 DEF TurnsInv

(* What is stored goes behind what is not, and is in order.                 *)
LEMMA StampedIsInOrder ==
    ASSUME InOrder(older), NEW done
    PROVE  /\ InOrder(Stamped(done))
           /\ \A c, d \in Competitions :
                 <<c, d>> \in Stamped(done) <=>
                    \/ c \notin done /\ d \in done
                    \/ <<c, d>> \in older /\ (c \in done => d \in done)
<1> DEFINE R == Stamped(done)
<1>1. \A c, d \in Competitions :
         <<c, d>> \in R <=> \/ c \notin done /\ d \in done
                            \/ <<c, d>> \in older /\ (c \in done => d \in done)
  BY DEF Stamped
<1>2. R \subseteq Competitions \X Competitions
  BY DEF Stamped
<1> HIDE DEF R
<1>3. \A c \in Competitions : <<c, c>> \notin R
  BY <1>1 DEF InOrder
<1>4. \A c, d \in Competitions : c # d => <<c, d>> \in R \/ <<d, c>> \in R
  BY <1>1 DEF InOrder
<1>5. ASSUME NEW c \in Competitions, NEW d \in Competitions, NEW e \in Competitions,
             <<c, d>> \in R, <<d, e>> \in R
      PROVE  <<c, e>> \in R
  <2>1. \/ c \notin done /\ d \in done
        \/ <<c, d>> \in older /\ (c \in done => d \in done)
    BY <1>1, <1>5
  <2>2. \/ d \notin done /\ e \in done
        \/ <<d, e>> \in older /\ (d \in done => e \in done)
    BY <1>1, <1>5
  <2>3. <<c, d>> \in older /\ <<d, e>> \in older => <<c, e>> \in older
    BY DEF InOrder
  <2> QED BY <1>1, <2>1, <2>2, <2>3
<1> QED BY <1>1, <1>2, <1>3, <1>4, <1>5 DEF InOrder, R

(* A run takes nobody without those whose turn comes before.                *)
LEMMA TurnsAreTakenInOrder ==
    ASSUME FootballTypeOK, NEW n \in Int, NEW d \in LeastRecentlySynced(pooled, n),
           NEW c \in pooled, <<c, d>> \in older
    PROVE  c \in LeastRecentlySynced(pooled, n)
<1> DEFINE A == {e \in pooled : <<e, c>> \in older}
           B == {e \in pooled : <<e, d>> \in older}
<1>1. Cardinality(B) < n /\ d \in pooled
  BY DEF LeastRecentlySynced
<1>2. A \subseteq B
  BY <1>1 DEF FootballTypeOK, InOrder
<1>3. IsFiniteSet(B)
  <2>1. B \subseteq Competitions
    BY DEF FootballTypeOK
  <2> QED BY <2>1, CompetitionsAreFinite, FS_Subset
<1> HIDE DEF A, B
<1>4. Cardinality(A) <= Cardinality(B) /\ IsFiniteSet(A)
  BY <1>2, <1>3, FS_Subset
<1>5. Cardinality(A) \in Nat /\ Cardinality(B) \in Nat
  BY <1>3, <1>4, FS_CardinalityType
<1>6. Cardinality(A) < n
  BY <1>1, <1>4, <1>5
<1> QED BY <1>6 DEF A, LeastRecentlySynced

(* A run that starts takes, with a table, everyone it has passed.           *)
LEMMA ASweepStarts ==
    ASSUME TurnsInv, SweepStarts PROVE TurnsInv'
<1> DEFINE todo == LeastRecentlySynced(pooled, PerRun)
<1>1. /\ sweep' = [NoSweep EXCEPT !.runs = TRUE, !.todo = todo]
      /\ pooled' = pooled /\ older' = older /\ passed' = passed
  BY DEF SweepStarts
<1>2. PerRun \in Int
  BY FootballDataAssumption
<1>3. ASSUME NEW c \in pooled, NEW d \in Competitions, passed[c][d] = 1, d \in todo
      PROVE  c \in todo
  <2>1. <<c, d>> \in older
    BY <1>3 DEF TurnsInv, PassedComeFirst, FootballTypeOK
  <2> QED BY <1>2, <1>3, <2>1, TurnsAreTakenInOrder DEF TurnsInv
<1> HIDE DEF todo
<1>4. /\ DOMAIN sweep' = {"runs", "todo", "tried", "done"} /\ sweep'.runs = TRUE
      /\ sweep'.todo = todo /\ sweep'.tried = {} /\ sweep'.done = {}
  BY <1>1 DEF NoSweep
<1> QED BY <1>1, <1>3, <1>4 DEF TurnsInv, FootballTypeOK, PassedComeFirst, TheirTurnIsTaken

(* A try moves a competition from those to try to those tried.              *)
LEMMA ASweepTries ==
    ASSUME TurnsInv, NEW c \in Competitions, SweepTries(c) PROVE TurnsInv'
<1> DEFINE rest == [sweep EXCEPT !.todo = @ \ {c}, !.tried = @ \cup {c}]
           more == [rest EXCEPT !.done = @ \cup {c}]
<1>1. /\ sweep.runs /\ c \in sweep.todo
      /\ sweep' = rest \/ sweep' = more
      /\ pooled' = pooled /\ older' = older /\ passed' = passed
  BY DEF SweepTries, LeastRecentlySynced
<1>2. \A s \in {rest, more} :
         /\ DOMAIN s = {"runs", "todo", "tried", "done"} /\ s.runs = sweep.runs
         /\ s.todo = sweep.todo \ {c} /\ s.tried = sweep.tried \cup {c}
         /\ s.done = sweep.done \/ s.done = sweep.done \cup {c}
  BY DEF TurnsInv, FootballTypeOK
<1> HIDE DEF rest, more
<1>3. /\ DOMAIN sweep' = {"runs", "todo", "tried", "done"} /\ sweep'.runs = sweep.runs
      /\ sweep'.todo = sweep.todo \ {c} /\ sweep'.tried = sweep.tried \cup {c}
      /\ sweep'.done = sweep.done \/ sweep'.done = sweep.done \cup {c}
  BY <1>1, <1>2
<1>4. sweep'.tried \cup sweep'.todo = sweep.tried \cup sweep.todo
  BY <1>1, <1>3
<1> QED BY <1>1, <1>3, <1>4 DEF TurnsInv, FootballTypeOK, PassedComeFirst, TheirTurnIsTaken

(* A run that ends has passed nobody that was passed before: whoever was,   *)
(* was taken with it.                                                       *)
LEMMA ASweepCommits ==
    ASSUME TurnsInv, SweepCommits PROVE TurnsInv'
<1> DEFINE tried == sweep.tried
           done == sweep.done
           now(c, d) == IF c \in tried \/ c \notin pooled THEN 0
                        ELSE IF d \in done THEN passed[c][d] + 1 ELSE passed[c][d]
<1>1. /\ sweep.runs /\ sweep.todo = {} /\ sweep' = NoSweep /\ pooled' = pooled
      /\ older' = Stamped(done)
      /\ passed' = [c \in Competitions |-> [d \in Competitions |-> now(c, d)]]
  BY DEF SweepCommits, Passing
<1>2. \A c, d \in Competitions : passed'[c][d] = now(c, d)
  BY <1>1
<1>3. \A c, d \in Competitions : passed[c][d] \in {0, 1}
  BY DEF TurnsInv, FootballTypeOK
<1>4. ASSUME NEW c \in Competitions, NEW d \in Competitions
      PROVE  /\ now(c, d) \in {0, 1}
             /\ now(c, d) = 1 => c \notin done /\ (d \in done \/ <<c, d>> \in older)
  <2>1. CASE c \in tried \/ c \notin pooled
    BY <2>1
  <2>2. CASE c \notin tried /\ c \in pooled /\ d \in done
    <3>1. d \in tried /\ c \notin done
      BY <2>2 DEF TurnsInv, FootballTypeOK
    <3>2. passed[c][d] = 0
      BY <1>1, <1>3, <2>2, <3>1 DEF TurnsInv, TheirTurnIsTaken
    <3> QED BY <2>2, <3>1, <3>2
  <2>3. CASE c \notin tried /\ c \in pooled /\ d \notin done
    <3>1. now(c, d) = passed[c][d] /\ c \notin done
      BY <2>3 DEF TurnsInv, FootballTypeOK
    <3> QED BY <1>3, <3>1 DEF TurnsInv, PassedComeFirst
  <2> QED BY <2>1, <2>2, <2>3
<1> HIDE DEF now
<1>5. passed' \in [Competitions -> [Competitions -> {0, 1}]]
  BY <1>1, <1>4
<1>6. InOrder(older') /\ PassedComeFirst'
  BY <1>1, <1>2, <1>4, StampedIsInOrder DEF TurnsInv, FootballTypeOK, PassedComeFirst
<1>7. FootballTypeOK' /\ TheirTurnIsTaken'
  BY <1>1, <1>5, <1>6 DEF TurnsInv, FootballTypeOK, TheirTurnIsTaken, NoSweep
<1> QED BY <1>6, <1>7 DEF TurnsInv

(* The backfill tries everyone, and so passes nobody.                       *)
LEMMA TheBackfillTakesAll ==
    ASSUME TurnsInv, NEW S, Backfill(S) PROVE TurnsInv'
<1> DEFINE done == (pooled \cap Carried) \ S
<1>1. /\ ~sweep.runs /\ sweep' = sweep /\ pooled' = pooled /\ older' = Stamped(done)
      /\ \A c \in Competitions : passed'[c] = [d \in Competitions |-> 0]
      /\ passed' = [c \in Competitions |-> [d \in Competitions |-> 0]]
  BY DEF Backfill, Passing
<1>2. InOrder(older')
  BY <1>1, StampedIsInOrder DEF TurnsInv, FootballTypeOK
<1>3. passed' \in [Competitions -> [Competitions -> {0, 1}]]
      /\ \A c, d \in Competitions : passed'[c][d] = 0
  BY <1>1
<1> QED BY <1>1, <1>2, <1>3 DEF TurnsInv, FootballTypeOK, PassedComeFirst, TheirTurnIsTaken

(* A competition that joins or leaves the card starts waiting anew.         *)
LEMMA ThePoolMoves ==
    ASSUME TurnsInv, NEW c \in Competitions, PoolMoves(c) PROVE TurnsInv'
<1>1. /\ pooled' = (IF c \in pooled THEN pooled \ {c} ELSE pooled \cup {c})
      /\ passed' = [passed EXCEPT ![c] = [d \in Competitions |-> 0]]
      /\ older' = older /\ sweep' = sweep
  BY DEF PoolMoves
<1>2. passed' \in [Competitions -> [Competitions -> {0, 1}]]
  BY <1>1 DEF TurnsInv, FootballTypeOK
<1>3. \A b, d \in Competitions : passed'[b][d] = 1 => b # c /\ passed[b][d] = 1
  BY <1>1 DEF TurnsInv, FootballTypeOK
<1>4. pooled' \subseteq Competitions /\ \A b \in pooled' : b # c => b \in pooled
  BY <1>1 DEF TurnsInv, FootballTypeOK
<1> QED BY <1>1, <1>2, <1>3, <1>4 DEF TurnsInv, FootballTypeOK, PassedComeFirst, TheirTurnIsTaken

(* Every step keeps the turns.                                              *)
LEMMA TurnsAreKept == TurnsInv /\ [FootballNext]_footballVars => TurnsInv'
<1> SUFFICES ASSUME TurnsInv, [FootballNext]_footballVars PROVE TurnsInv'
  OBVIOUS
<1>1. CASE UNCHANGED <<pooled, older, sweep, passed>>
  BY <1>1 DEF TurnsInv, FootballTypeOK, PassedComeFirst, TheirTurnIsTaken
<1>2. CASE sweep' = NoSweep /\ UNCHANGED <<pooled, older, passed>>
  BY <1>2 DEF TurnsInv, FootballTypeOK, PassedComeFirst, TheirTurnIsTaken, NoSweep
<1>3. ASSUME NEW S \in SUBSET Carried, PollLiveScores(S) PROVE TurnsInv'
  BY <1>1, <1>3 DEF PollLiveScores
<1>4. ASSUME NEW c \in Competitions, VerifySlate(c) \/ HasNoOpinion(c) PROVE TurnsInv'
  BY <1>1, <1>4 DEF VerifySlate, HasNoOpinion
<1>5. ASSUME NEW c \in Competitions, NEW to \in Listings, SourceMoves(c, to) PROVE TurnsInv'
  BY <1>1, <1>5 DEF SourceMoves
<1>6. CASE SweepFails \/ FootballRestart
  BY <1>2, <1>6 DEF SweepFails, FootballRestart
<1>7. CASE UNCHANGED footballVars
  BY <1>1, <1>7 DEF footballVars
<1> QED BY <1>3, <1>4, <1>5, <1>6, <1>7, ASweepStarts, ASweepTries, ASweepCommits, TheBackfillTakesAll,
           ThePoolMoves DEF FootballNext

(* While a competition on the card waits for its turn, no other table is    *)
(* stored twice, for any number of competitions and any budget a run has,   *)
(* whatever fails and whoever joins or leaves the card in between           *)
(* (pooled_competitions, sync_table).                                       *)
THEOREM NobodyIsPassedTwice == FootballSpec => []NonePassedTwice
<1>1. TurnsInv => NonePassedTwice
  BY DEF TurnsInv, FootballTypeOK, NonePassedTwice
<1> QED BY <1>1, NobodyIsPassed, TurnsAreKept, PTL DEF FootballSpec

(***************************************************************************)
(* The matches: names keep their meaning, and the scores shown are the      *)
(* games' own.                                                              *)
(***************************************************************************)

JobFields == {"at", "todo", "for", "got", "loaded", "sets", "seen", "names"}
Columns == {"division", "state", "day", "goals", "finished"}
MatchStates == {"undrawn", "scheduled", "live", "finished", "postponed", "cancelled"}
Home(g) == DivisionOf[SideOf[g][1]]
Moments == [state : MatchStates, day : Days, goals : Int]

(* Every job has its fields, the division it is about is one, and what it   *)
(* holds is about games.                                                    *)
JobOK(j) ==
    /\ DOMAIN job[j] = JobFields
    /\ job[j].todo \subseteq Divisions
    /\ job[j].at \in {"reads", "writes"} => job[j].for \in Divisions
    /\ DOMAIN job[j].got \subseteq Games
    /\ DOMAIN job[j].sets \subseteq Games
    /\ job[j].names \subseteq Divisions \X Spellings \X Clubs
MatchTypes ==
    /\ actual \in [Games -> Moments]
    /\ recalled = NoMemo \/ recalled \in [Games -> Moments]
    /\ DOMAIN rows = Games
    /\ alias \in [Divisions -> [Spellings -> Clubs \cup {NoClub}]]
    /\ DOMAIN job = Jobs
    /\ \A j \in Jobs : JobOK(j)

Places(S) == {<<x[1], x[2]>> : x \in S}
NamesFree ==
    /\ \A j \in Jobs : \A x \in job[j].names : alias[x[1]][x[2]] = NoClub
    /\ \A j, k \in Jobs : j # k =>
          \A x \in job[j].names, y \in job[k].names : <<x[1], x[2]>> # <<y[1], y[2]>>

(* A job that is not under way holds nothing.                               *)
LEMMA NoJobIs ==
    /\ DOMAIN NoJob = JobFields /\ NoJob.at = "idle" /\ NoJob.todo = {} /\ NoJob.for = "none"
    /\ DOMAIN NoJob.got = {} /\ DOMAIN NoJob.loaded = {} /\ DOMAIN NoJob.sets = {} /\ NoJob.names = {}
BY DEF NoJob, JobFields

(* Nothing is recalled, stored or learnt at first.                          *)
LEMMA NothingKnown == MatchesInit => MatchTypes /\ NamesFree
<1> SUFFICES ASSUME MatchesInit PROVE MatchTypes /\ NamesFree
  OBVIOUS
<1>1. \A j \in Jobs : job[j] = NoJob
  BY DEF MatchesInit
<1>2. MatchTypes
  <2>1. actual \in [Games -> Moments]
    BY SMT DEF MatchesInit, Moments, MatchStates, NoGoals
  <2>2. \A j \in Jobs : JobOK(j)
    BY <1>1, NoJobIs DEF JobOK
  <2> QED BY <2>1, <2>2 DEF MatchTypes, MatchesInit
<1>3. NamesFree
  BY <1>1, NoJobIs DEF NamesFree
<1> QED BY <1>2, <1>3

(* A game that moves stays a game.                                          *)
LEMMA GamesGoOn ==
    ASSUME MatchTypes, NEW g \in Games, GameMoves(g) \/ ScoreMoves(g)
    PROVE  actual' \in [Games -> Moments]
<1>1. actual[g] \in Moments /\ actual \in [Games -> Moments]
  BY DEF MatchTypes
<1>2. actual[g].goals \in Int /\ actual[g].goals + 1 \in Int
  BY <1>1 DEF Moments
<1>3. ASSUME NEW s \in MatchStates PROVE [actual[g] EXCEPT !.state = s] \in Moments
  BY <1>1 DEF Moments
<1>4. ASSUME NEW d \in Days, NEW s \in MatchStates PROVE [actual[g] EXCEPT !.state = s, !.day = d] \in Moments
  BY <1>1 DEF Moments
<1>5. [actual[g] EXCEPT !.goals = @ + 1] \in Moments
  BY <1>1, <1>2 DEF Moments
<1>6. CASE \E from, to \in MatchStates : Plays(g, from, to)
  BY <1>1, <1>3, <1>6 DEF Plays
<1>7. CASE \E day \in Days : actual' = [actual EXCEPT ![g].state = "scheduled", ![g].day = day]
  <2>1. PICK day \in Days : actual' = [actual EXCEPT ![g].state = "scheduled", ![g].day = day]
    BY <1>7
  <2>2. actual' = [actual EXCEPT ![g] = [actual[g] EXCEPT !.state = "scheduled", !.day = day]]
    BY <2>1, <1>1 DEF Moments
  <2> QED BY <2>2, <1>1, <1>4 DEF MatchStates
<1>8. CASE actual' = [actual EXCEPT ![g].goals = @ + 1]
  BY <1>1, <1>5, <1>8
<1> QED BY <1>6, <1>7, <1>8 DEF GameMoves, ScoreMoves, MatchStates

(* A job that starts, fails or ends holds nothing, and the other keeps what *)
(* it has.                                                                  *)
LEMMA ItStartsAfresh ==
    ASSUME MatchTypes, NEW j \in Jobs, NEW D \in SUBSET Divisions,
           job' = [job EXCEPT ![j] = [NoJob EXCEPT !.at = "asks", !.todo = D]]
                \/ job' = [job EXCEPT ![j] = NoJob]
    PROVE  /\ DOMAIN job' = Jobs /\ \A k \in Jobs : k # j => job'[k] = job[k]
           /\ JobOK(j)' /\ job'[j].at \in {"idle", "asks"}
           /\ DOMAIN job'[j].got = {} /\ DOMAIN job'[j].sets = {} /\ job'[j].names = {}
<1>1. DOMAIN job = Jobs
  BY DEF MatchTypes
<1>2. DOMAIN job' = Jobs /\ \A k \in Jobs : k # j => job'[k] = job[k]
  BY <1>1
<1>3. job'[j] = [NoJob EXCEPT !.at = "asks", !.todo = D] \/ job'[j] = NoJob
  BY <1>1
<1> DEFINE r == job'[j]
<1>4. /\ DOMAIN r = JobFields /\ r.at \in {"idle", "asks"} /\ r.todo \subseteq Divisions
      /\ r.got = NoJob.got /\ r.sets = NoJob.sets /\ r.names = NoJob.names
  BY <1>3, NoJobIs DEF JobFields
<1> HIDE DEF r
<1>5. DOMAIN r.got = {} /\ DOMAIN r.sets = {} /\ r.names = {}
  BY <1>4, NoJobIs
<1> QED BY <1>2, <1>4, <1>5 DEF JobOK, r

(* What asking, reading and writing do to a job.                            *)
LEMMA ItAsks ==
    ASSUME MatchTypes, NEW j \in Jobs, NEW d \in Divisions, Asks(j, d)
    PROVE  /\ DOMAIN job' = Jobs /\ \A k \in Jobs : k # j => job'[k] = job[k]
           /\ DOMAIN job'[j] = JobFields
           /\ job'[j].todo = job[j].todo \ {d} /\ job'[j].for = d /\ job'[j].at \in {"asks", "reads"}
           /\ job'[j].got = [g \in Seasons(j, d, recalled') |-> RowOf(d, recalled'[g])]
           /\ job'[j].loaded = job[j].loaded /\ job'[j].sets = job[j].sets
           /\ job'[j].names = job[j].names
<1>1. DOMAIN job = Jobs /\ DOMAIN job[j] = JobFields
  BY DEF MatchTypes, JobOK
<1> DEFINE M == Seasons(j, d, recalled')
           got == [g \in M |-> RowOf(d, recalled'[g])]
           at == IF j = "poll" /\ M = {} THEN job[j].at ELSE "reads"
           r == [job[j] EXCEPT !.todo = job[j].todo \ {d}, !.for = d, !.at = at, !.got = got]
<1>2. job[j].at = "asks" /\ job' = [job EXCEPT ![j] = r]
  BY <1>1 DEF Asks, JobFields
<1>3. at \in {"asks", "reads"}
  BY <1>2
<1> HIDE DEF M, got, at
<1>4. /\ DOMAIN r = JobFields /\ r.todo = job[j].todo \ {d} /\ r.for = d /\ r.at = at /\ r.got = got
      /\ r.loaded = job[j].loaded /\ r.sets = job[j].sets /\ r.names = job[j].names
  BY <1>1 DEF JobFields
<1> HIDE DEF r
<1>5. job'[j] = r /\ DOMAIN job' = Jobs /\ \A k \in Jobs : k # j => job'[k] = job[k]
  BY <1>1, <1>2
<1>6. got = [g \in Seasons(j, d, recalled') |-> RowOf(d, recalled'[g])]
  BY DEF got, M
<1> QED BY <1>3, <1>4, <1>5, <1>6

LEMMA ItReads ==
    ASSUME MatchTypes, NEW j \in Jobs, ReadsRows(j)
    PROVE  /\ DOMAIN job' = Jobs /\ \A k \in Jobs : k # j => job'[k] = job[k]
           /\ DOMAIN job'[j] = JobFields
           /\ job'[j].todo = job[j].todo /\ job'[j].for = job[j].for /\ job'[j].at = "writes"
           /\ job'[j].got = job[j].got
           /\ job'[j].loaded = [g \in DOMAIN job[j].got |-> rows[g]] /\ job'[j].sets = job[j].sets
           /\ job'[j].names = job[j].names
<1>1. DOMAIN job = Jobs /\ DOMAIN job[j] = JobFields
  BY DEF MatchTypes, JobOK
<1> DEFINE loaded == [g \in DOMAIN job[j].got |-> rows[g]]
           r == [job[j] EXCEPT !.at = "writes", !.loaded = loaded]
<1>2. job' = [job EXCEPT ![j] = r]
  BY <1>1 DEF ReadsRows, JobFields
<1> HIDE DEF loaded
<1>4. /\ DOMAIN r = JobFields /\ r.todo = job[j].todo /\ r.for = job[j].for /\ r.at = "writes"
      /\ r.got = job[j].got
      /\ r.loaded = loaded /\ r.sets = job[j].sets /\ r.names = job[j].names
  BY <1>1 DEF JobFields
<1> HIDE DEF r
<1>5. job'[j] = r /\ DOMAIN job' = Jobs /\ \A k \in Jobs : k # j => job'[k] = job[k]
  BY <1>1, <1>2
<1> QED BY <1>4, <1>5 DEF loaded

Seen(j) == ClubsStored(j)
Changed(j) == {g \in DOMAIN job[j].got : DOMAIN Differing(job[j].got[g], job[j].loaded[g]) # {}}
Names(j) ==
    Learnt(j, job[j].for, ClubsStored(j), ClubsStored(j) \cup {c \in Clubs : teams[c] = job[j].for})
New(j) == [g \in Changed(j) |-> Differing(job[j].got[g], job[j].loaded[g])]

LEMMA ItWrites ==
    ASSUME MatchTypes, NEW j \in Jobs, Writes(j)
    PROVE  /\ DOMAIN job' = Jobs /\ \A k \in Jobs : k # j => job'[k] = job[k]
           /\ DOMAIN job'[j] = JobFields
           /\ job'[j].todo = job[j].todo /\ job'[j].for = job[j].for /\ job'[j].at = "asks"
           /\ job'[j].got = <<>>
           /\ job'[j].loaded = <<>> /\ job'[j].sets = Together(job[j].sets, New(j))
           /\ job'[j].names = job[j].names \cup Names(j)
           /\ job[j].at = "writes"
           /\ Changed(j) \cap Held(j) = {}
           /\ \A g \in Changed(j) : job[j].loaded[g] = NoRow => rows[g] = NoRow
           /\ \A k \in Jobs \ {j} : \A x \in Names(j), y \in job[k].names : <<x[1], x[2]>> # <<y[1], y[2]>>
<1>1. DOMAIN job = Jobs /\ DOMAIN job[j] = JobFields
  BY DEF MatchTypes, JobOK
<1> DEFINE sets == Together(job[j].sets, New(j))
           seen == job[j].seen \cup {<<c, job[j].for>> : c \in ClubsStored(j)}
           names == job[j].names \cup Names(j)
           r == [job[j] EXCEPT !.at = "asks", !.got = <<>>, !.loaded = <<>>, !.sets = sets,
                               !.seen = seen, !.names = names]
<1>2. job' = [job EXCEPT ![j] = r]
  BY <1>1, Zenon DEF Writes, New, Changed, Names, JobFields
<1>3. /\ job[j].at = "writes"
      /\ Changed(j) \cap Held(j) = {}
      /\ \A g \in Changed(j) : job[j].loaded[g] = NoRow => rows[g] = NoRow
      /\ \A k \in Jobs \ {j} : \A x \in Names(j), y \in job[k].names : <<x[1], x[2]>> # <<y[1], y[2]>>
  BY Zenon DEF Writes, Changed, Names
<1> HIDE DEF sets, seen, names
<1>4. /\ DOMAIN r = JobFields /\ r.todo = job[j].todo /\ r.for = job[j].for /\ r.at = "asks"
      /\ r.got = <<>> /\ r.loaded = <<>> /\ r.sets = sets /\ r.names = names
  BY <1>1 DEF JobFields
<1> HIDE DEF r
<1>5. job'[j] = r /\ DOMAIN job' = Jobs /\ \A k \in Jobs : k # j => job'[k] = job[k]
  BY <1>1, <1>2
<1> QED BY <1>3, <1>4, <1>5 DEF sets, names

(* A game is between clubs.                                                 *)
LEMMA SidesAreClubs == \A g \in Games : Sides(g) \subseteq Clubs
<1> SUFFICES ASSUME NEW g \in Games PROVE Sides(g) \subseteq Clubs
  OBVIOUS
<1>1. SideOf[g] \in Clubs \X Clubs
  BY MatchesAssumption
<1> QED BY <1>1 DEF Sides

(* What a job learns is names of its division that meant nothing there.     *)
LEMMA NamesAreOfTheDivision ==
    ASSUME MatchTypes, NEW j \in Jobs, job[j].for \in Divisions
    PROVE  /\ Names(j) \subseteq Divisions \X Spellings \X Clubs
           /\ \A x \in Names(j) : alias[x[1]][x[2]] = NoClub
<1>1. ClubsStored(j) \subseteq Clubs
  <2> DEFINE U == UNION {Sides(g) : g \in DOMAIN job[j].got}
             T == TableClubs(j, job[j].for)
  <2>1. DOMAIN job[j].got \subseteq Games /\ \A g \in Games : Sides(g) \subseteq Clubs
    BY SidesAreClubs DEF MatchTypes, JobOK
  <2>2. U \subseteq Clubs
    BY <2>1
  <2>3. T \subseteq Clubs
    BY DEF TableClubs
  <2>4. ClubsStored(j) = U \cup T
    BY DEF ClubsStored
  <2> HIDE DEF U, T
  <2> QED BY <2>2, <2>3, <2>4
<1>2. Spelt(job[j].for) \subseteq Spellings
  BY MatchesAssumption DEF Spelt
<1> DEFINE d == job[j].for
           S == ClubsStored(j) \cup {c \in Clubs : teams[c] = d}
<1> SUFFICES ASSUME NEW x \in Names(j)
             PROVE  x \in Divisions \X Spellings \X Clubs /\ alias[x[1]][x[2]] = NoClub
  OBVIOUS
<1>3. /\ alias[d][x[2]] = NoClub
      /\ \/ \E c \in ClubsStored(j) : x = <<d, NameOf[c], c>>
         \/ \E n \in Spelt(d) : \E c \in BestMatch(n, S) : x = <<d, n, c>>
  <2> DEFINE heard == IF j = "sweep" THEN Spelt(d) \ {NameOf[c] : c \in ClubsStored(j)} ELSE {}
  <2>1. heard \subseteq Spelt(d)
    OBVIOUS
  <2>2. /\ alias[d][x[2]] = NoClub
        /\ \/ x \in {<<d, NameOf[c], c>> : c \in ClubsStored(j)}
           \/ x \in UNION {{<<d, n, c>> : c \in BestMatch(n, S)} : n \in heard}
    BY Zenon DEF Names, Learnt
  <2> HIDE DEF heard
  <2> QED BY <2>1, <2>2
<1>4. \A n \in Spellings : BestMatch(n, S) \subseteq Clubs
  BY <1>1 DEF BestMatch
<1>5. x \in Divisions \X Spellings \X Clubs /\ x[1] = d
  <2>1. CASE \E c \in ClubsStored(j) : x = <<d, NameOf[c], c>>
    BY <2>1, <1>1, MatchesAssumption
  <2>2. CASE \E n \in Spelt(d) : \E c \in BestMatch(n, S) : x = <<d, n, c>>
    BY <2>2, <1>2, <1>4
  <2> QED BY <1>3, <2>1, <2>2
<1> QED BY <1>3, <1>5

(* Two sets of changes put together.                                        *)
LEMMA TogetherIs ==
    ASSUME NEW f, NEW h
    PROVE  /\ DOMAIN Together(f, h) = DOMAIN f \cup DOMAIN h
           /\ \A g \in DOMAIN h : Together(f, h)[g] = h[g]
           /\ \A g \in DOMAIN f \ DOMAIN h : Together(f, h)[g] = f[g]
BY DEF Together

(* The types, and the names a job has learnt, through a step of a job.      *)
TheyAre(j) == /\ DOMAIN job' = Jobs
              /\ \A k \in Jobs : k # j => job'[k] = job[k]
              /\ JobOK(j)'

(* The other job keeps its shape.                                           *)
LEMMA TheOthersAreAsTheyWere ==
    ASSUME MatchTypes, NEW j \in Jobs, TheyAre(j)
    PROVE  \A k \in Jobs : JobOK(k)'
<1>1. ASSUME NEW k \in Jobs, k # j PROVE JobOK(k)'
  <2>1. job'[k] = job[k] /\ JobOK(k)
    BY <1>1 DEF TheyAre, MatchTypes
  <2> QED BY <2>1 DEF JobOK
<1> QED BY <1>1 DEF TheyAre

(* Every step of a job keeps its shape.                                     *)
LEMMA AJobsStep ==
    ASSUME MatchTypes, NEW j \in Jobs,
           \/ JobStarts(j) \/ ReadsRows(j) \/ Writes(j) \/ Commits(j) \/ Fails(j)
           \/ \E d \in Divisions : Asks(j, d) \/ AskFails(j, d)
    PROVE  TheyAre(j)
<1>0. JobOK(j) /\ DOMAIN job = Jobs
  BY DEF MatchTypes
<1>1. CASE JobStarts(j) \/ Commits(j) \/ Fails(j)
  <2>1. \E D \in SUBSET Divisions : job' = [job EXCEPT ![j] = [NoJob EXCEPT !.at = "asks", !.todo = D]]
                                       \/ job' = [job EXCEPT ![j] = NoJob]
    BY <1>1 DEF JobStarts, Commits, Fails
  <2> QED BY <2>1, ItStartsAfresh DEF TheyAre
<1>2. CASE \E d \in Divisions : Asks(j, d)
  <2>1. PICK d \in Divisions : Asks(j, d)
    BY <1>2
  <2>2. Seasons(j, d, recalled') \subseteq Games
    BY DEF Seasons
  <2> DEFINE M == Seasons(j, d, recalled')
  <2>3. job'[j].got = [g \in M |-> RowOf(d, recalled'[g])]
    BY <2>1, ItAsks, Zenon
  <2> HIDE DEF M
  <2>4. DOMAIN job'[j].got = M
    BY <2>3
  <2> USE DEF M
  <2>5. DOMAIN job'[j].got \subseteq Games
    BY <2>2, <2>4
  <2>6. /\ DOMAIN job' = Jobs /\ \A k \in Jobs : k # j => job'[k] = job[k]
        /\ DOMAIN job'[j] = JobFields /\ job'[j].todo = job[j].todo \ {d} /\ job'[j].for = d
        /\ job'[j].sets = job[j].sets /\ job'[j].names = job[j].names
    BY <2>1, ItAsks, Zenon
  <2> HIDE DEF M
  <2> QED BY <2>5, <2>6, <1>0 DEF TheyAre, JobOK
<1>3. CASE \E d \in Divisions : AskFails(j, d)
  <2>1. PICK d \in Divisions : AskFails(j, d)
    BY <1>3
  <2> DEFINE r == [job[j] EXCEPT !.todo = job[j].todo \ {d}]
  <2>2. job' = [job EXCEPT ![j] = r] /\ job[j].at = "asks"
    BY <2>1, <1>0 DEF AskFails, JobOK, JobFields
  <2>3. /\ DOMAIN r = JobFields /\ r.todo \subseteq Divisions /\ r.at = job[j].at /\ r.for = job[j].for
        /\ r.got = job[j].got /\ r.sets = job[j].sets /\ r.names = job[j].names
    BY <1>0 DEF JobOK, JobFields
  <2> HIDE DEF r
  <2>4. job'[j] = r /\ DOMAIN job' = Jobs /\ \A k \in Jobs : k # j => job'[k] = job[k]
    BY <1>0, <2>2
  <2> QED BY <2>2, <2>3, <2>4, <1>0 DEF TheyAre, JobOK
<1>4. CASE ReadsRows(j)
  <2>1. job[j].at = "reads"
    BY <1>4 DEF ReadsRows
  <2> QED BY <1>0, <1>4, <2>1, ItReads DEF TheyAre, JobOK
<1>5. CASE Writes(j)
  <2>1. job[j].for \in Divisions
    BY <1>0, <1>5, ItWrites DEF JobOK
  <2>2. Names(j) \subseteq Divisions \X Spellings \X Clubs
    BY <2>1, NamesAreOfTheDivision
  <2>3. DOMAIN job'[j].sets \subseteq Games
    <3>1. DOMAIN job'[j].sets = DOMAIN job[j].sets \cup DOMAIN New(j)
      <4>1. job'[j].sets = Together(job[j].sets, New(j))
        BY <1>5, ItWrites
      <4> QED BY <4>1, TogetherIs
    <3>2. DOMAIN New(j) \subseteq DOMAIN job[j].got
      BY DEF New, Changed
    <3> QED BY <3>1, <3>2, <1>0 DEF JobOK
  <2>4. DOMAIN job'[j].got \subseteq Games
    <3>1. DOMAIN (<<>>) = {}
      OBVIOUS
    <3> QED BY <3>1, <1>5, ItWrites
  <2>5. job'[j].names \subseteq Divisions \X Spellings \X Clubs
    BY <1>0, <2>2, <1>5, ItWrites DEF JobOK
  <2> QED BY <1>0, <1>5, <2>3, <2>4, <2>5, ItWrites DEF TheyAre, JobOK
<1> QED BY <1>1, <1>2, <1>3, <1>4, <1>5

(* Every step keeps the types.                                              *)
LEMMA MatchesKeepTypes ==
    ASSUME MatchTypes, [MatchesNext]_matchesVars
    PROVE  MatchTypes'
<1>1. CASE \E g \in Games : GameMoves(g) \/ ScoreMoves(g)
  <2>1. actual' \in [Games -> Moments]
    BY <1>1, GamesGoOn
  <2>2. UNCHANGED <<recalled, rows, alias, job>>
    BY <1>1 DEF GameMoves, ScoreMoves
  <2> QED BY <2>1, <2>2 DEF MatchTypes, JobOK
<1>2. ASSUME NEW j \in Jobs,
             \/ JobStarts(j) \/ ReadsRows(j) \/ Writes(j) \/ Commits(j) \/ Fails(j)
             \/ \E d \in Divisions : Asks(j, d) \/ AskFails(j, d)
      PROVE  MatchTypes'
  <2>1. DOMAIN job' = Jobs /\ \A k \in Jobs : JobOK(k)'
    BY <1>2, AJobsStep, TheOthersAreAsTheyWere DEF TheyAre
  <2>2. actual' = actual
    BY <1>2 DEF JobStarts, ReadsRows, Writes, Commits, Fails, Asks, AskFails
  <2>3. recalled' = NoMemo \/ recalled' \in [Games -> Moments]
    BY <1>2 DEF MatchTypes, JobStarts, ReadsRows, Writes, Commits, Fails, Asks, AskFails
  <2>4. CASE Commits(j)
    <3>1. DOMAIN rows' = Games
      BY <2>4 DEF Commits
    <3>2. alias' \in [Divisions -> [Spellings -> Clubs \cup {NoClub}]]
      <4>1. job[j].names \subseteq Divisions \X Spellings \X Clubs
        BY DEF MatchTypes, JobOK
      <4>2. ASSUME NEW d \in Divisions, NEW n \in Spellings
            PROVE  (IF \E x \in job[j].names : <<x[1], x[2]>> = <<d, n>>
                    THEN (CHOOSE x \in job[j].names : <<x[1], x[2]>> = <<d, n>>)[3]
                    ELSE alias[d][n]) \in Clubs \cup {NoClub}
        <5>1. CASE \E x \in job[j].names : <<x[1], x[2]>> = <<d, n>>
          <6> DEFINE c == CHOOSE x \in job[j].names : <<x[1], x[2]>> = <<d, n>>
          <6>1. c \in job[j].names
            BY <5>1
          <6> HIDE DEF c
          <6>2. c[3] \in Clubs
            BY <6>1, <4>1
          <6> QED BY <6>2, <5>1 DEF c
        <5>2. CASE ~ \E x \in job[j].names : <<x[1], x[2]>> = <<d, n>>
          BY <5>2 DEF MatchTypes
        <5> QED BY <5>1, <5>2
      <4> QED BY <4>2, <2>4, Zenon DEF Commits
    <3> QED BY <2>1, <2>2, <2>3, <3>1, <3>2 DEF MatchTypes
  <2>5. CASE ~Commits(j)
    <3>1. UNCHANGED <<rows, alias>>
      BY <1>2, <2>5 DEF JobStarts, ReadsRows, Writes, Fails, Asks, AskFails
    <3> QED BY <2>1, <2>2, <2>3, <3>1 DEF MatchTypes
  <2> QED BY <2>4, <2>5
<1>3. CASE Restarts
  <2>1. \A j \in Jobs : JobOK(j)'
    BY <1>3, NoJobIs DEF Restarts, JobOK
  <2> QED BY <1>3, <2>1 DEF Restarts, MatchTypes
<1>4. CASE UNCHANGED matchesVars
  BY <1>4 DEF matchesVars, MatchTypes, JobOK
<1> QED BY <1>1, <1>2, <1>3, <1>4 DEF MatchesNext

(* A commit changes the meaning of the names the job has learnt, and of no  *)
(* other.                                                                   *)
LEMMA OnlyWhatIsLearntMoves ==
    ASSUME NEW j \in Jobs, Commits(j), NEW d \in Divisions, NEW n \in Spellings,
           ~ \E x \in job[j].names : <<x[1], x[2]>> = <<d, n>>
    PROVE  alias'[d][n] = alias[d][n]
BY Zenon DEF Commits

(* What is learnt, through every step.                                      *)
LEMMA NamesStayFree ==
    ASSUME MatchTypes, NamesFree, [MatchesNext]_matchesVars
    PROVE  NamesFree'
<1>0. DOMAIN job = Jobs
  BY DEF MatchTypes
<1>1. CASE UNCHANGED <<alias, job>>
  BY <1>1 DEF NamesFree
<1>2. ASSUME alias' = alias, NEW j \in Jobs, \A k \in Jobs : k # j => job'[k] = job[k],
             job'[j].names = {} \/ job'[j].names = job[j].names
      PROVE  NamesFree'
  BY <1>2 DEF NamesFree
<1>3. ASSUME NEW j \in Jobs, JobStarts(j) \/ Fails(j)
      PROVE  NamesFree'
  <2>1. \E D \in SUBSET Divisions : job' = [job EXCEPT ![j] = [NoJob EXCEPT !.at = "asks", !.todo = D]]
                                       \/ job' = [job EXCEPT ![j] = NoJob]
    BY <1>3 DEF JobStarts, Fails
  <2>2. alias' = alias
    BY <1>3 DEF JobStarts, Fails
  <2> QED BY <2>1, <2>2, <1>2, ItStartsAfresh
<1>4. ASSUME NEW j \in Jobs, NEW d \in Divisions, Asks(j, d)
      PROVE  NamesFree'
  <2>1. alias' = alias
    BY <1>4 DEF Asks
  <2>2. job'[j].names = job[j].names /\ \A k \in Jobs : k # j => job'[k] = job[k]
    BY <1>4, ItAsks, Zenon
  <2> QED BY <2>1, <2>2, <1>2
<1>5. ASSUME NEW j \in Jobs, NEW d \in Divisions, AskFails(j, d)
      PROVE  NamesFree'
  <2>1. alias' = alias
    BY <1>5 DEF AskFails
  <2>2. job'[j].names = job[j].names /\ \A k \in Jobs : k # j => job'[k] = job[k]
    BY <1>5, <1>0 DEF AskFails, MatchTypes, JobOK, JobFields
  <2> QED BY <2>1, <2>2, <1>2
<1>6. ASSUME NEW j \in Jobs, ReadsRows(j)
      PROVE  NamesFree'
  <2>1. alias' = alias
    BY <1>6 DEF ReadsRows
  <2>2. job'[j].names = job[j].names /\ \A k \in Jobs : k # j => job'[k] = job[k]
    BY <1>6, ItReads, Zenon
  <2> QED BY <2>1, <2>2, <1>2
<1>7. ASSUME NEW j \in Jobs, Writes(j)
      PROVE  NamesFree'
  <2>1. alias' = alias
    BY <1>7 DEF Writes
  <2>2. /\ job'[j].names = job[j].names \cup Names(j) /\ \A k \in Jobs : k # j => job'[k] = job[k]
        /\ \A k \in Jobs \ {j} : \A x \in Names(j), y \in job[k].names : <<x[1], x[2]>> # <<y[1], y[2]>>
        /\ job[j].at = "writes"
    BY <1>7, ItWrites, Zenon
  <2>3. job[j].for \in Divisions
    BY <2>2 DEF MatchTypes, JobOK
  <2>4. \A x \in Names(j) : alias[x[1]][x[2]] = NoClub
    BY <2>3, NamesAreOfTheDivision
  <2>5. \A k \in Jobs : \A x \in job'[k].names : alias'[x[1]][x[2]] = NoClub
    BY <2>1, <2>2, <2>4 DEF NamesFree
  <2>6. ASSUME NEW k \in Jobs, NEW l \in Jobs, k # l, NEW x \in job'[k].names, NEW y \in job'[l].names
        PROVE  <<x[1], x[2]>> # <<y[1], y[2]>>
    <3>1. CASE k = j
      <4>1. y \in job[l].names /\ l \in Jobs \ {j}
        BY <2>2, <2>6, <3>1
      <4>2. x \in job[j].names \/ x \in Names(j)
        BY <2>2, <3>1
      <4> QED BY <4>1, <4>2, <2>2, <2>6, <3>1 DEF NamesFree
    <3>2. CASE l = j
      <4>1. x \in job[k].names /\ k \in Jobs \ {j}
        BY <2>2, <2>6, <3>2
      <4>2. y \in job[j].names \/ y \in Names(j)
        BY <2>2, <3>2
      <4>3. CASE y \in job[j].names
        BY <4>1, <4>3, <2>6, <3>2 DEF NamesFree
      <4>4. CASE y \in Names(j)
        BY <4>1, <4>4, <2>2
      <4> QED BY <4>2, <4>3, <4>4
    <3>3. CASE k # j /\ l # j
      BY <2>2, <2>6, <3>3 DEF NamesFree
    <3> QED BY <3>1, <3>2, <3>3
  <2> QED BY <2>5, <2>6 DEF NamesFree
<1>8. ASSUME NEW j \in Jobs, Commits(j)
      PROVE  NamesFree'
  <2>1. job'[j].names = {} /\ \A k \in Jobs : k # j => job'[k] = job[k]
    BY <1>0, <1>8, NoJobIs DEF Commits
  <2>2. ASSUME NEW k \in Jobs, NEW x \in job'[k].names
        PROVE  alias'[x[1]][x[2]] = NoClub
    <3>1. k # j /\ x \in job[k].names
      BY <2>1, <2>2
    <3>2. alias[x[1]][x[2]] = NoClub
      BY <3>1 DEF NamesFree
    <3>3. x[1] \in Divisions /\ x[2] \in Spellings
      BY <3>1 DEF MatchTypes, JobOK
    <3>4. ~ \E y \in job[j].names : <<y[1], y[2]>> = <<x[1], x[2]>>
      BY <3>1 DEF NamesFree
    <3>5. alias'[x[1]][x[2]] = alias[x[1]][x[2]]
      BY <1>8, <3>3, <3>4, OnlyWhatIsLearntMoves
    <3> QED BY <3>2, <3>5
  <2>3. \A k, l \in Jobs : k # l =>
          \A x \in job'[k].names, y \in job'[l].names : <<x[1], x[2]>> # <<y[1], y[2]>>
    BY <2>1 DEF NamesFree
  <2> QED BY <2>2, <2>3 DEF NamesFree
<1>9. CASE Restarts
  BY <1>9, NoJobIs DEF Restarts, NamesFree
<1> QED BY <1>1, <1>3, <1>4, <1>5, <1>6, <1>7, <1>8, <1>9
        DEF MatchesNext, GameMoves, ScoreMoves, matchesVars

(* A spelling keeps its meaning: once learnt in a division it means the     *)
(* same club there for good, whoever stores clubs and names afterwards, for *)
(* any clubs, spellings and interleaving of the sweep with the poll         *)
(* (record_alias, resolve_names).                                           *)
THEOREM NamesKept == MatchesSpec => NamesKeepTheirMeaning
<1>1. MatchesInit => MatchTypes /\ NamesFree
  BY NothingKnown
<1>2. MatchTypes /\ NamesFree /\ [MatchesNext]_matchesVars => (MatchTypes /\ NamesFree)'
  BY MatchesKeepTypes, NamesStayFree
<1> DEFINE Kept == \A d \in Divisions, n \in Spellings : alias[d][n] # NoClub => alias'[d][n] = alias[d][n]
<1>3. MatchTypes /\ NamesFree /\ [MatchesNext]_matchesVars => [Kept]_matchesVars
  <2> SUFFICES ASSUME MatchTypes, NamesFree, [MatchesNext]_matchesVars PROVE Kept \/ UNCHANGED matchesVars
    OBVIOUS
  <2>1. CASE \E j \in Jobs : Commits(j)
    <3>1. PICK j \in Jobs : Commits(j)
      BY <2>1
    <3> SUFFICES ASSUME NEW d \in Divisions, NEW n \in Spellings, alias[d][n] # NoClub
                 PROVE  alias'[d][n] = alias[d][n]
      OBVIOUS
    <3>2. ASSUME NEW x \in job[j].names, <<x[1], x[2]>> = <<d, n>> PROVE FALSE
      <4>1. x[1] = d /\ x[2] = n
        BY <3>2
      <4> QED BY <4>1 DEF NamesFree
    <3> QED BY <3>1, <3>2, OnlyWhatIsLearntMoves
  <2>2. CASE ~ \E j \in Jobs : Commits(j)
    <3>1. alias' = alias
      <4>1. \A g \in Games : GameMoves(g) \/ ScoreMoves(g) => alias' = alias
        BY DEF GameMoves, ScoreMoves
      <4>2. \A j \in Jobs : JobStarts(j) \/ ReadsRows(j) \/ Fails(j) => alias' = alias
        BY DEF JobStarts, ReadsRows, Fails
      <4>3. \A j \in Jobs : Writes(j) => alias' = alias
        BY DEF Writes
      <4>4. \A j \in Jobs, d \in Divisions : Asks(j, d) \/ AskFails(j, d) => alias' = alias
        BY DEF Asks, AskFails
      <4>5. Restarts \/ UNCHANGED matchesVars => alias' = alias
        BY DEF Restarts, matchesVars
      <4> QED
        BY <2>2, <4>1, <4>2, <4>3, <4>4, <4>5 DEF MatchesNext
    <3> QED BY <3>1
  <2> QED BY <2>1, <2>2
<1> QED BY <1>1, <1>2, <1>3, PTL DEF MatchesSpec, NamesKeepTheirMeaning

(***************************************************************************)
(* What is stored of a game fits what the source last said of it           *)
(***************************************************************************)
Precedes(m, n) ==
    /\ m.goals <= n.goals
    /\ m.state = "finished" /\ m.goals # NoGoals => n.state = "finished" /\ n.goals = m.goals
RowOK(g, r) ==
    /\ DOMAIN r = Columns /\ r.division = Home(g)
    /\ r.day \in Days /\ r.goals \in Int /\ r.finished \in BOOLEAN
Fits(r, m) ==
    /\ r.goals <= m.goals
    /\ r.finished => r.goals # NoGoals /\ m.state = "finished" /\ m.goals = r.goals
Latest(g) == IF recalled = NoMemo THEN actual[g] ELSE recalled[g]
Good(g, r) == RowOK(g, r) /\ Fits(r, Latest(g))

(* No goal is missing from now that old had, and no end is new in it; and a *)
(* row of a running game, with the score last heard.                        *)
NoFurther(old, now) == old.goals <= now.goals /\ (now.finished => old.finished)
Running(new, m) == new.goals = m.goals /\ ~new.finished

MemoIsPast == recalled # NoMemo => \A g \in Games : Precedes(recalled[g], actual[g])
RowsFit == \A g \in Games : rows[g] # NoRow => Good(g, rows[g])
GotFits(j) ==
    \A g \in DOMAIN job[j].got :
        /\ recalled # NoMemo /\ Good(g, job[j].got[g])
        /\ j = "poll" => Running(job[j].got[g], recalled[g])
LoadedFits(j) ==
    job[j].at = "writes" =>
        /\ DOMAIN job[j].loaded = DOMAIN job[j].got
        /\ \A g \in DOMAIN job[j].got : job[j].loaded[g] # NoRow =>
               /\ RowOK(g, job[j].loaded[g]) /\ rows[g] # NoRow
               /\ j = "sweep" => NoFurther(job[j].loaded[g], rows[g])
SetsFit(j) ==
    \A g \in DOMAIN job[j].sets :
        /\ Good(g, Over(job[j].sets[g], rows[g]))
        /\ j = "poll" /\ rows[g] # NoRow => NoFurther(rows[g], Over(job[j].sets[g], rows[g]))
SetsApart == \A j, k \in Jobs : j # k => DOMAIN job[j].sets \cap DOMAIN job[k].sets = {}
ScoresInv ==
    /\ MemoIsPast /\ RowsFit /\ SetsApart
    /\ \A j \in Jobs : GotFits(j) /\ LoadedFits(j) /\ SetsFit(j)

(* What fits goes on fitting as the game goes on.                           *)
LEMMA FitsStill ==
    ASSUME NEW r, NEW m \in Moments, NEW n \in Moments, r.goals \in Int, Fits(r, m), Precedes(m, n)
    PROVE  Fits(r, n)
BY DEF Fits, Precedes, Moments

(* What is said of a game, in the order it is said in.                      *)
LEMMA PrecedesIsAnOrder ==
    ASSUME NEW m \in Moments, NEW n \in Moments, NEW o \in Moments, Precedes(m, n), Precedes(n, o)
    PROVE  Precedes(m, m) /\ Precedes(m, o)
BY DEF Precedes, Moments

(* A stored row is no missing one.                                          *)
LEMMA RowsAreNoNoRow == ASSUME NEW g, NEW r, RowOK(g, r) PROVE r # NoRow
BY DEF RowOK, Columns, NoRow

(* Columns that differ from what was read, over what is stored now.         *)
LEMMA TheDifferenceOver ==
    ASSUME NEW g, NEW new, NEW old, NEW now, RowOK(g, new), RowOK(g, old), RowOK(g, now)
    PROVE  LET r == Over(Differing(new, old), now) IN
           /\ DOMAIN r = Columns
           /\ \A c \in Columns : r[c] = IF new[c] # old[c] THEN new[c] ELSE now[c]
<1> DEFINE dif == [x \in {y \in DOMAIN new : new[y] # old[y]} |-> new[x]]
           r == [x \in DOMAIN now |-> IF x \in DOMAIN dif THEN dif[x] ELSE now[x]]
<1>1. Over(Differing(new, old), now) = r
  BY RowsAreNoNoRow DEF Over, Differing
<1>2. DOMAIN new = Columns /\ DOMAIN now = Columns
  BY DEF RowOK
<1>3. DOMAIN r = Columns /\ \A c \in Columns : r[c] = IF new[c] # old[c] THEN new[c] ELSE now[c]
  BY <1>2
<1> HIDE DEF r
<1> QED BY <1>1, <1>3

(* The sweep's row fits whatever was stored since it read, as nothing else  *)
(* takes a goal back or ends a game.                                        *)
LEMMA TheSweepsRowFits ==
    ASSUME NEW g, NEW m \in Moments, NEW new, NEW old, NEW now,
           RowOK(g, new), RowOK(g, old), RowOK(g, now), Fits(new, m), Fits(now, m),
           NoFurther(old, now)
    PROVE  RowOK(g, Over(Differing(new, old), now)) /\ Fits(Over(Differing(new, old), now), m)
<1> DEFINE r == Over(Differing(new, old), now)
<1>1. DOMAIN r = Columns /\ \A c \in Columns : r[c] = IF new[c] # old[c] THEN new[c] ELSE now[c]
  BY TheDifferenceOver
<1> HIDE DEF r
<1>2. /\ r.division = IF new.division # old.division THEN new.division ELSE now.division
      /\ r.day = IF new.day # old.day THEN new.day ELSE now.day
      /\ r.goals = IF new.goals # old.goals THEN new.goals ELSE now.goals
      /\ r.finished = IF new.finished # old.finished THEN new.finished ELSE now.finished
  BY <1>1 DEF Columns
<1>3. RowOK(g, r)
  BY <1>1, <1>2 DEF RowOK
<1>4. Fits(r, m)
  <2>1. r.goals <= m.goals
    BY <1>2 DEF Fits, RowOK, Moments
  <2>2. ASSUME r.finished PROVE r.goals # NoGoals /\ m.state = "finished" /\ m.goals = r.goals
    <3>1. new.finished
      BY <2>2, <1>2 DEF RowOK, NoFurther
    <3>2. new.goals # NoGoals /\ m.state = "finished" /\ m.goals = new.goals
      BY <3>1 DEF Fits
    <3>3. now.goals <= m.goals
      BY DEF Fits
    <3>4. m.goals \in Int /\ new.goals \in Int /\ old.goals \in Int /\ now.goals \in Int
      BY DEF RowOK, Moments
    <3>5. r.goals = m.goals
      <4>1. r.goals = IF new.goals # old.goals THEN new.goals ELSE now.goals
        BY <1>2
      <4>2. old.goals <= now.goals
        BY DEF NoFurther
      <4>3. m.goals = new.goals
        BY <3>2
      <4> QED BY <3>3, <3>4, <4>1, <4>2, <4>3
    <3> QED BY <3>2, <3>5
  <2> QED BY <2>1, <2>2 DEF Fits
<1> QED BY <1>3, <1>4 DEF r

(* The poll's row fits too, and takes no goal back and ends no game, as it  *)
(* brings the score last heard of a running one.                            *)
LEMMA ThePollsRowFits ==
    ASSUME NEW g, NEW m \in Moments, NEW new, NEW old, NEW now,
           RowOK(g, new), RowOK(g, old), RowOK(g, now), Fits(now, m),
           Running(new, m)
    PROVE  LET r == Over(Differing(new, old), now) IN RowOK(g, r) /\ Fits(r, m) /\ NoFurther(now, r)
<1> DEFINE r == Over(Differing(new, old), now)
<1>1. DOMAIN r = Columns /\ \A c \in Columns : r[c] = IF new[c] # old[c] THEN new[c] ELSE now[c]
  BY TheDifferenceOver
<1> HIDE DEF r
<1>2. /\ r.division = IF new.division # old.division THEN new.division ELSE now.division
      /\ r.day = IF new.day # old.day THEN new.day ELSE now.day
      /\ r.goals = IF new.goals # old.goals THEN new.goals ELSE now.goals
      /\ r.finished = IF new.finished # old.finished THEN new.finished ELSE now.finished
  BY <1>1 DEF Columns
<1>3. RowOK(g, r)
  BY <1>1, <1>2 DEF RowOK
<1>4. now.goals <= r.goals /\ r.goals <= m.goals
  BY <1>2 DEF Fits, RowOK, Moments, Running
<1>5. ASSUME r.finished PROVE now.finished
  BY <1>2, <1>5 DEF RowOK, Running
<1>6. ASSUME r.finished PROVE r.goals # NoGoals /\ m.state = "finished" /\ m.goals = r.goals
  <2>1. now.goals # NoGoals /\ m.state = "finished" /\ m.goals = now.goals
    BY <1>5, <1>6 DEF Fits
  <2>2. m.goals \in Int /\ now.goals \in Int /\ r.goals \in Int
    BY <1>3 DEF RowOK, Moments
  <2>3. m.goals = now.goals
    BY <2>1
  <2>4. r.goals = m.goals
    BY <1>4, <2>2, <2>3
  <2> QED BY <2>1, <2>4
<1> QED BY <1>3, <1>4, <1>5, <1>6 DEF r, Fits, NoFurther

(* Nothing is stored at first, and so it fits.                              *)
LEMMA NothingStored == MatchesInit => ScoresInv
<1> SUFFICES ASSUME MatchesInit PROVE ScoresInv
  OBVIOUS
<1>1. \A j \in Jobs : job[j] = NoJob
  BY DEF MatchesInit
<1>2. MemoIsPast /\ RowsFit
  BY DEF MatchesInit, MemoIsPast, RowsFit
<1> QED BY <1>1, <1>2, NoJobIs DEF ScoresInv, SetsApart, GotFits, LoadedFits, SetsFit

(* What was last heard of a game only ever goes on.                         *)
LEMMA GamesOnlyGoOn ==
    ASSUME MatchTypes, NEW g \in Games, GameMoves(g) \/ ScoreMoves(g), NEW h \in Games
    PROVE  Precedes(actual[h], actual'[h])
<1>1. actual \in [Games -> Moments] /\ actual[h] \in Moments /\ actual[g] \in Moments
  BY DEF MatchTypes
<1>2. Precedes(actual[h], actual[h])
  BY <1>1, PrecedesIsAnOrder DEF Precedes, Moments
<1>3. CASE h # g
  <2>1. actual'[h] = actual[h]
    BY <1>1, <1>3 DEF GameMoves, ScoreMoves, Plays
  <2> QED BY <1>2, <2>1
<1>4. CASE h = g
  <2>1. DOMAIN actual[g] = {"state", "day", "goals"} /\ actual[g].goals \in Int
    BY <1>1 DEF Moments
  <2>2. CASE GameMoves(g)
    <3>1. actual[g].state # "finished" /\ actual'[g].goals = actual[g].goals
      BY <1>1, <2>1, <2>2 DEF GameMoves, Plays
    <3> QED BY <1>4, <2>1, <3>1 DEF Precedes
  <2>3. CASE ScoreMoves(g)
    <3>1. actual'[g].goals = actual[g].goals + 1
      BY <1>1, <2>1, <2>3 DEF ScoreMoves
    <3>2. ~(actual[g].state = "finished" /\ actual[g].goals # NoGoals)
      BY <2>3 DEF ScoreMoves
    <3>3. actual[g].goals <= actual[g].goals + 1
      BY <2>1
    <3> QED BY <1>4, <3>1, <3>2, <3>3 DEF Precedes
  <2> QED BY <1>4, <2>2, <2>3
<1> QED BY <1>3, <1>4

(* What was last heard of any game goes on in every step.                   *)
LEMMA TheLatestGoesOn ==
    ASSUME MatchTypes, MatchTypes', MemoIsPast, [MatchesNext]_matchesVars
    PROVE  /\ MemoIsPast'
           /\ \A g \in Games : Latest(g) \in Moments /\ Latest(g)' \in Moments
                                /\ Precedes(Latest(g), Latest(g)')
<1>1. \A g \in Games : /\ actual[g] \in Moments /\ actual'[g] \in Moments
                       /\ recalled # NoMemo => recalled[g] \in Moments
                       /\ recalled' # NoMemo => recalled'[g] \in Moments
  BY DEF MatchTypes
<1>2. \A m \in Moments : Precedes(m, m)
  BY PrecedesIsAnOrder DEF Precedes, Moments
<1> DEFINE Asked == recalled' = actual /\ actual' = actual
           Lost == recalled' = NoMemo /\ actual' = actual
<1>3. (recalled' = recalled \/ Asked \/ Lost)
      /\ (actual' = actual \/ \E h \in Games : GameMoves(h) \/ ScoreMoves(h))
  <2>1. ASSUME NEW g \in Games, GameMoves(g) \/ ScoreMoves(g) PROVE recalled' = recalled
    BY <2>1 DEF GameMoves, ScoreMoves
  <2>2. ASSUME NEW j \in Jobs, JobStarts(j) \/ ReadsRows(j) \/ Fails(j) PROVE UNCHANGED <<actual, recalled>>
    BY <2>2 DEF JobStarts, ReadsRows, Fails
  <2>3. ASSUME NEW j \in Jobs, Writes(j) PROVE UNCHANGED <<actual, recalled>>
    BY <2>3, Zenon DEF Writes
  <2>4. ASSUME NEW j \in Jobs, Commits(j) PROVE UNCHANGED <<actual, recalled>>
    BY <2>4, Zenon DEF Commits
  <2>5. ASSUME NEW j \in Jobs, NEW d \in Divisions, Asks(j, d)
        PROVE  actual' = actual /\ (recalled' = recalled \/ recalled' = actual)
    BY <2>5 DEF Asks
  <2>6. ASSUME NEW j \in Jobs, NEW d \in Divisions, AskFails(j, d) PROVE UNCHANGED <<actual, recalled>>
    BY <2>6 DEF AskFails
  <2>7. CASE Restarts
    BY <2>7 DEF Restarts
  <2>8. CASE UNCHANGED matchesVars
    BY <2>8 DEF matchesVars
  <2> QED BY <2>1, <2>2, <2>3, <2>4, <2>5, <2>6, <2>7, <2>8 DEF MatchesNext
<1>5. \A g \in Games : Precedes(actual[g], actual'[g])
  BY <1>1, <1>2, <1>3, GamesOnlyGoOn
<1>4. \A g \in Games : recalled # NoMemo => Precedes(recalled[g], actual'[g])
  BY <1>1, <1>5, PrecedesIsAnOrder DEF MemoIsPast
<1>6. MemoIsPast'
  BY <1>1, <1>2, <1>3, <1>4 DEF MemoIsPast
<1>7. ASSUME NEW g \in Games
      PROVE  Latest(g) \in Moments /\ Latest(g)' \in Moments /\ Precedes(Latest(g), Latest(g)')
  <2>1. Latest(g) \in Moments /\ Latest(g)' \in Moments
    BY <1>1 DEF Latest
  <2>2. CASE recalled' = recalled
    BY <2>2, <1>1, <1>2, <1>5 DEF Latest
  <2>3. CASE Asked
    <3>1. Latest(g)' = actual[g]
      BY <2>3 DEF Latest
    <3> QED BY <3>1, <1>1, <1>2 DEF Latest, MemoIsPast
  <2>4. CASE Lost
    <3>1. Latest(g)' = actual[g]
      BY <2>4 DEF Latest
    <3> QED BY <3>1, <1>1, <1>2 DEF Latest, MemoIsPast
  <2> QED BY <1>3, <2>1, <2>2, <2>3, <2>4
<1> QED BY <1>6, <1>7

(* So a row that fits goes on fitting, and a job that is left alone while   *)
(* no row moves is as good as it was.                                       *)
Onwards == /\ MatchTypes /\ MatchTypes' /\ ScoresInv
           /\ \A g \in Games : Latest(g) \in Moments /\ Latest(g)' \in Moments
                                /\ Precedes(Latest(g), Latest(g)')

LEMMA GoodStays ==
    ASSUME Onwards, NEW g \in Games, NEW r, Good(g, r)
    PROVE  RowOK(g, r) /\ Fits(r, Latest(g)')
<1>1. RowOK(g, r) /\ Fits(r, Latest(g)) /\ r.goals \in Int
  BY DEF Good, RowOK
<1> QED BY <1>1, FitsStill DEF Onwards

(* While no row is written, rows and what is set of them go on fitting.     *)
LEMMA RowsStay ==
    ASSUME Onwards, rows' = rows
    PROVE  /\ RowsFit'
           /\ \A j \in Jobs : job'[j].sets = job[j].sets => SetsFit(j)'
<1>1. RowsFit'
  <2> SUFFICES ASSUME NEW g \in Games, rows[g] # NoRow PROVE RowOK(g, rows[g]) /\ Fits(rows[g], Latest(g)')
    BY DEF RowsFit, Good, RowOK
  <2> QED BY GoodStays DEF Onwards, ScoresInv, RowsFit
<1>2. ASSUME NEW j \in Jobs, job'[j].sets = job[j].sets PROVE SetsFit(j)'
  <2>1. DOMAIN job[j].sets \subseteq Games
    BY DEF Onwards, MatchTypes, JobOK
  <2> SUFFICES ASSUME NEW g \in DOMAIN job[j].sets
               PROVE  LET r == Over(job[j].sets[g], rows[g]) IN
                      /\ RowOK(g, r) /\ Fits(r, Latest(g)')
                      /\ j = "poll" /\ rows[g] # NoRow => NoFurther(rows[g], r)
    BY <1>2 DEF SetsFit, Good, RowOK
  <2>2. /\ Good(g, Over(job[j].sets[g], rows[g]))
        /\ j = "poll" /\ rows[g] # NoRow => NoFurther(rows[g], Over(job[j].sets[g], rows[g]))
    BY DEF Onwards, ScoresInv, SetsFit
  <2> QED BY <2>1, <2>2, GoodStays
<1> QED BY <1>1, <1>2

(* A job that keeps what it has is as good as it was.                       *)
LEMMA TheOtherIsLeft ==
    ASSUME Onwards, rows' = rows, recalled' = recalled, NEW j \in Jobs,
           job'[j].got = job[j].got
    PROVE  /\ GotFits(j)'
           /\ job'[j].at = job[j].at /\ job'[j].loaded = job[j].loaded => LoadedFits(j)'
<1>1. GotFits(j)'
  <2>1. DOMAIN job[j].got \subseteq Games
    BY DEF Onwards, MatchTypes, JobOK
  <2> SUFFICES ASSUME NEW g \in DOMAIN job[j].got
               PROVE  /\ recalled # NoMemo /\ RowOK(g, job[j].got[g]) /\ Fits(job[j].got[g], Latest(g)')
                      /\ j = "poll" => Running(job[j].got[g], recalled[g])
    BY DEF GotFits, Good, RowOK, Running
  <2>2. /\ recalled # NoMemo /\ Good(g, job[j].got[g])
        /\ j = "poll" => Running(job[j].got[g], recalled[g])
    BY DEF Onwards, ScoresInv, GotFits
  <2> QED BY <2>1, <2>2, GoodStays
<1>2. ASSUME job'[j].at = job[j].at, job'[j].loaded = job[j].loaded PROVE LoadedFits(j)'
  <2>1. LoadedFits(j)
    BY DEF Onwards, ScoresInv
  <2> QED BY <1>2, <2>1 DEF LoadedFits, RowOK, NoFurther
<1> QED BY <1>1, <1>2

(* Two jobs set different games, and go on doing so while neither adds one. *)
LEMMA SetsStayApart ==
    ASSUME SetsApart, \A j \in Jobs : DOMAIN job'[j].sets \subseteq DOMAIN job[j].sets
    PROVE  SetsApart'
BY DEF SetsApart

(* A game, a job that starts and a job that fails change nothing stored.    *)
LEMMA NothingIsStored ==
    ASSUME Onwards, MemoIsPast', rows' = rows, recalled' = recalled,
           \A j \in Jobs : \/ job'[j] = job[j]
                           \/ /\ DOMAIN job'[j].got = {} /\ DOMAIN job'[j].sets = {}
                              /\ job'[j].at \in {"idle", "asks"}
    PROVE  ScoresInv'
<1>1. RowsFit'
  BY RowsStay
<1>2. SetsApart'
  BY SetsStayApart DEF Onwards, ScoresInv
<1>3. ASSUME NEW j \in Jobs PROVE GotFits(j)' /\ LoadedFits(j)' /\ SetsFit(j)'
  <2>1. CASE job'[j] = job[j]
    BY <2>1, RowsStay, TheOtherIsLeft
  <2>2. CASE /\ DOMAIN job'[j].got = {} /\ DOMAIN job'[j].sets = {}
             /\ job'[j].at \in {"idle", "asks"}
    BY <2>2 DEF GotFits, LoadedFits, SetsFit
  <2> QED BY <2>1, <2>2
<1> QED BY <1>1, <1>2, <1>3 DEF ScoresInv

(* A payload that is asked for, or recalled, fits what is recalled.         *)
LEMMA AnAnswerFits ==
    ASSUME Onwards, MemoIsPast', NEW j \in Jobs, NEW d \in Divisions, Asks(j, d)
    PROVE  ScoresInv'
<1>1. rows' = rows /\ actual' = actual
  BY DEF Asks
<1>2. /\ \A k \in Jobs : k # j => job'[k] = job[k]
      /\ job'[j].at \in {"asks", "reads"} /\ job'[j].sets = job[j].sets
      /\ job'[j].got = [g \in Seasons(j, d, recalled') |-> RowOf(d, recalled'[g])]
  BY ItAsks, Zenon DEF Onwards
<1>3. RowsFit' /\ \A k \in Jobs : SetsFit(k)'
  BY <1>2, RowsStay, <1>1
<1>4. SetsApart'
  BY <1>2, SetsStayApart DEF Onwards, ScoresInv
<1>5. recalled' = IF j = "poll" \/ recalled = NoMemo THEN actual ELSE recalled
  BY DEF Asks
<1>6. GotFits(j)' /\ LoadedFits(j)'
  <2>1. LoadedFits(j)'
    BY <1>2 DEF LoadedFits
  <2> DEFINE M == Seasons(j, d, recalled')
             got == [g \in M |-> RowOf(d, recalled'[g])]
  <2>2. job'[j].got = got
    BY <1>2
  <2>3. ASSUME NEW g \in M
        PROVE  /\ g \in Games /\ Home(g) = d
               /\ j = "poll" => recalled'[g].state = "live"
    BY DEF Seasons, InDivision, Home
  <2> HIDE DEF M
  <2>4. DOMAIN got = M /\ \A g \in M : got[g] = RowOf(d, recalled'[g])
    OBVIOUS
  <2> HIDE DEF got
  <2>5. ASSUME NEW g \in M
        PROVE  /\ recalled' # NoMemo /\ RowOK(g, got[g]) /\ Fits(got[g], Latest(g)')
               /\ j = "poll" => Running(got[g], recalled'[g])
    <3>1. recalled' # NoMemo
      <4>1. CASE recalled' = actual
        <5>1. DOMAIN actual = Games
          BY DEF Onwards, MatchTypes
        <5>2. DOMAIN NoMemo = {}
          BY DEF NoMemo
        <5> QED BY <2>3, <2>5, <4>1, <5>1, <5>2
      <4>2. CASE recalled' # actual
        BY <1>5, <4>2
      <4> QED BY <4>1, <4>2
    <3> DEFINE m == recalled'[g]
    <3>2. m \in Moments /\ Latest(g)' = m
      BY <2>3, <2>5, <3>1 DEF Onwards, Latest
    <3>3. /\ Home(g) = d
          /\ j = "poll" => m.state = "live"
      BY <2>3, <2>5
    <3>4. got[g] = RowOf(d, m)
      BY <2>4, <2>5
    <3> HIDE DEF m
    <3>5. m.day \in Days /\ m.goals \in Int
      BY <3>2 DEF Moments
    <3>6. RowOK(g, RowOf(d, m))
      BY <3>3, <3>5 DEF RowOK, RowOf, Columns
    <3>7. Fits(RowOf(d, m), m)
      <4> DEFINE r == RowOf(d, m)
      <4>1. r.goals = m.goals
        BY DEF RowOf
      <4>2. r.finished => m.state = "finished" /\ m.goals # NoGoals
        BY DEF RowOf
      <4> HIDE DEF r
      <4>3. r.goals <= m.goals
        BY <3>5, <4>1
      <4>4. Fits(r, m)
        BY <4>1, <4>2, <4>3 DEF Fits
      <4> QED BY <4>4 DEF r
    <3>8. j = "poll" => Running(RowOf(d, m), m)
      BY <3>3 DEF Running, RowOf
    <3> QED BY <3>1, <3>2, <3>4, <3>6, <3>7, <3>8 DEF m
  <2> QED BY <2>1, <2>2, <2>4, <2>5 DEF GotFits, Good, RowOK, Running
<1>7. ASSUME NEW k \in Jobs, k # j PROVE GotFits(k)' /\ LoadedFits(k)'
  <2>1. job'[k] = job[k] /\ GotFits(k) /\ LoadedFits(k)
    BY <1>2, <1>7 DEF Onwards, ScoresInv
  <2>2. LoadedFits(k)'
    BY <1>1, <2>1 DEF LoadedFits, RowOK, NoFurther
  <2>3. CASE recalled' = recalled
    BY <1>1, <2>1, <2>2, <2>3, TheOtherIsLeft
  <2>4. CASE recalled = NoMemo
    <3>1. DOMAIN job'[k].got = {}
      BY <2>1, <2>4 DEF GotFits
    <3> QED BY <2>2, <3>1 DEF GotFits
  <2>5. CASE recalled # NoMemo /\ recalled' # recalled
    <3>1. k # "poll" /\ recalled' = actual
      BY <1>5, <1>7, <2>5 DEF Jobs
    <3>2. DOMAIN job[k].got \subseteq Games
      BY DEF Onwards, MatchTypes, JobOK
    <3>3. ASSUME NEW g \in DOMAIN job[k].got
          PROVE  recalled' # NoMemo /\ RowOK(g, job[k].got[g]) /\ Fits(job[k].got[g], Latest(g)')
      <4>1. DOMAIN actual = Games /\ DOMAIN NoMemo = {}
        BY DEF Onwards, MatchTypes, NoMemo
      <4>2. Good(g, job[k].got[g])
        BY <2>1, <3>3 DEF GotFits
      <4> QED BY <3>1, <3>2, <3>3, <4>1, <4>2, GoodStays
    <3> QED BY <2>1, <2>2, <3>1, <3>3 DEF GotFits, Good, RowOK
  <2> QED BY <2>3, <2>4, <2>5
<1> QED BY <1>3, <1>4, <1>6, <1>7 DEF ScoresInv

(* Rows that are read are no further on than the stored ones.               *)
LEMMA RowsAreRead ==
    ASSUME Onwards, MemoIsPast', NEW j \in Jobs, ReadsRows(j)
    PROVE  ScoresInv'
<1>1. rows' = rows /\ recalled' = recalled
  BY DEF ReadsRows
<1>2. /\ \A k \in Jobs : k # j => job'[k] = job[k]
      /\ job'[j].at = "writes" /\ job'[j].got = job[j].got /\ job'[j].sets = job[j].sets
      /\ job'[j].loaded = [g \in DOMAIN job[j].got |-> rows[g]]
  BY ItReads, Zenon DEF Onwards
<1>3. RowsFit' /\ \A k \in Jobs : SetsFit(k)'
  BY <1>1, <1>2, RowsStay
<1>4. SetsApart'
  BY <1>2, SetsStayApart DEF Onwards, ScoresInv
<1>5. \A k \in Jobs : GotFits(k)'
  BY <1>1, <1>2, TheOtherIsLeft
<1>6. LoadedFits(j)'
  <2> DEFINE loaded == [g \in DOMAIN job[j].got |-> rows[g]]
             G == DOMAIN job[j].got
  <2>1. G \subseteq Games
    BY DEF Onwards, MatchTypes, JobOK
  <2>2. DOMAIN loaded = G /\ \A g \in G : loaded[g] = rows[g]
    OBVIOUS
  <2>3. job'[j].loaded = loaded
    BY <1>2
  <2> HIDE DEF loaded
  <2>4. ASSUME NEW g \in G, rows[g] # NoRow
        PROVE  RowOK(g, rows[g]) /\ NoFurther(rows[g], rows[g])
    <3>1. RowOK(g, rows[g])
      BY <2>1, <2>4 DEF Onwards, ScoresInv, RowsFit, Good
    <3>2. rows[g].goals <= rows[g].goals
      BY <3>1 DEF RowOK
    <3> QED BY <3>1, <3>2 DEF NoFurther
  <2> QED BY <1>1, <1>2, <2>2, <2>3, <2>4 DEF LoadedFits, RowOK, NoFurther
<1>7. ASSUME NEW k \in Jobs, k # j PROVE LoadedFits(k)'
  BY <1>1, <1>2, <1>7, TheOtherIsLeft
<1> QED BY <1>3, <1>4, <1>5, <1>6, <1>7 DEF ScoresInv

(* What a job is about to set of a game fits, and is nobody else's.         *)
LEMMA WhatItSetsFits ==
    ASSUME Onwards, NEW j \in Jobs, job[j].at = "writes",
           \A g \in Changed(j) : job[j].loaded[g] = NoRow => rows[g] = NoRow,
           NEW g \in Changed(j)
    PROVE  LET r == Over(New(j)[g], rows[g]) IN
           Good(g, r) /\ (j = "poll" /\ rows[g] # NoRow => NoFurther(rows[g], r))
<1> DEFINE new == job[j].got[g]
           old == job[j].loaded[g]
           now == rows[g]
           m == Latest(g)
           r == Over(Differing(new, old), now)
<1>1. g \in DOMAIN job[j].got /\ g \in Games
  BY DEF Changed, Onwards, MatchTypes, JobOK
<1>2. /\ recalled # NoMemo /\ RowOK(g, new) /\ Fits(new, m)
      /\ j = "poll" => Running(new, m)
  BY <1>1 DEF Onwards, ScoresInv, GotFits, Good, Latest
<1>3. old # NoRow => /\ RowOK(g, old) /\ now # NoRow
                     /\ j = "sweep" => NoFurther(old, now)
  BY <1>1 DEF Onwards, ScoresInv, LoadedFits
<1>4. now # NoRow => RowOK(g, now) /\ Fits(now, m)
  BY <1>1 DEF Onwards, ScoresInv, RowsFit, Good
<1>5. old = NoRow => now = NoRow
  OBVIOUS
<1>6. m \in Moments
  BY <1>1 DEF Onwards
<1>7. New(j)[g] = Differing(new, old)
  BY DEF New
<1> HIDE DEF new, old, now, m
<1>8. CASE old = NoRow
  <2>1. r = new
    BY <1>5, <1>8 DEF Over, Differing
  <2>2. RowOK(g, r) /\ Fits(r, m)
    BY <2>1, <1>2
  <2> QED BY <2>2, <1>5, <1>7, <1>8 DEF Good, m, now
<1>9. CASE old # NoRow /\ j = "sweep"
  <2>1. RowOK(g, r) /\ Fits(r, m)
    BY <1>2, <1>3, <1>4, <1>6, <1>9, TheSweepsRowFits
  <2> QED BY <2>1, <1>7, <1>9 DEF Good, m, now
<1>10. CASE old # NoRow /\ j = "poll"
  <2>1. RowOK(g, r) /\ Fits(r, m) /\ NoFurther(now, r)
    BY <1>2, <1>3, <1>4, <1>6, <1>10, ThePollsRowFits
  <2> QED BY <2>1, <1>7 DEF Good, m, now
<1> QED BY <1>8, <1>9, <1>10 DEF Jobs

(* What a job writes fits, and belongs to games the other does not write.   *)
LEMMA TheyAreWritten ==
    ASSUME Onwards, MemoIsPast', NEW j \in Jobs, Writes(j)
    PROVE  ScoresInv'
<1>1. rows' = rows /\ recalled' = recalled
  BY Zenon DEF Writes
<1>2. /\ \A k \in Jobs : k # j => job'[k] = job[k]
      /\ job'[j].at = "asks" /\ job'[j].got = <<>>
      /\ job'[j].sets = Together(job[j].sets, New(j))
      /\ job[j].at = "writes" /\ Changed(j) \cap Held(j) = {}
      /\ \A g \in Changed(j) : job[j].loaded[g] = NoRow => rows[g] = NoRow
  BY ItWrites, Zenon DEF Onwards
<1>3. RowsFit' /\ \A k \in Jobs : k # j => SetsFit(k)'
  BY <1>1, <1>2, RowsStay
<1>4. \A k \in Jobs : k # j => GotFits(k)' /\ LoadedFits(k)'
  BY <1>1, <1>2, TheOtherIsLeft
<1>5. GotFits(j)' /\ LoadedFits(j)'
  <2>1. DOMAIN job'[j].got = {}
    <3>1. DOMAIN (<<>>) = {}
      OBVIOUS
    <3> QED BY <1>2, <3>1
  <2> QED BY <1>2, <2>1 DEF GotFits, LoadedFits
<1> DEFINE sets == job'[j].sets
<1>6. /\ DOMAIN New(j) = Changed(j)
      /\ DOMAIN sets = DOMAIN job[j].sets \cup Changed(j)
      /\ \A g \in Changed(j) : sets[g] = New(j)[g]
      /\ \A g \in DOMAIN job[j].sets \ Changed(j) : sets[g] = job[j].sets[g]
  <2>1. DOMAIN New(j) = Changed(j)
    BY DEF New
  <2>2. sets = Together(job[j].sets, New(j))
    BY <1>2
  <2> DEFINE old == job[j].sets
             new == New(j)
  <2>3. sets = Together(old, new)
    BY <2>2
  <2> HIDE DEF sets, old, new
  <2>4. /\ DOMAIN sets = DOMAIN old \cup DOMAIN new
        /\ \A g \in DOMAIN new : sets[g] = new[g]
        /\ \A g \in DOMAIN old \ DOMAIN new : sets[g] = old[g]
    BY <2>3 DEF Together
  <2> QED BY <2>1, <2>4, Zenon DEF old, new
<1>7. SetsApart'
  <2> SUFFICES ASSUME NEW k \in Jobs, k # j PROVE DOMAIN sets \cap DOMAIN job[k].sets = {}
    BY <1>2 DEF SetsApart, Onwards, ScoresInv
  <2>1. DOMAIN job[j].sets \cap DOMAIN job[k].sets = {}
    BY DEF Onwards, ScoresInv, SetsApart
  <2>2. DOMAIN job[k].sets \subseteq Held(j)
    BY DEF Held
  <2> QED BY <1>2, <1>6, <2>1, <2>2
<1>8. SetsFit(j)'
  <2> SUFFICES ASSUME NEW g \in DOMAIN sets
               PROVE  LET r == Over(sets[g], rows[g]) IN
                      /\ RowOK(g, r) /\ Fits(r, Latest(g)')
                      /\ j = "poll" /\ rows[g] # NoRow => NoFurther(rows[g], r)
    BY <1>1 DEF SetsFit, Good, RowOK
  <2>1. g \in Games
    BY DEF Onwards, MatchTypes, JobOK
  <2> DEFINE r == Over(sets[g], rows[g])
  <2>2. Good(g, r) /\ (j = "poll" /\ rows[g] # NoRow => NoFurther(rows[g], r))
    <3>1. CASE g \in Changed(j)
      BY <1>2, <1>6, <3>1, WhatItSetsFits
    <3>2. CASE g \notin Changed(j)
      <4>1. sets[g] = job[j].sets[g] /\ g \in DOMAIN job[j].sets
        BY <1>6, <3>2
      <4> QED BY <4>1 DEF Onwards, ScoresInv, SetsFit
    <3> QED BY <3>1, <3>2
  <2> HIDE DEF r
  <2>3. RowOK(g, r) /\ Fits(r, Latest(g)')
    BY <2>1, <2>2, GoodStays
  <2> QED BY <2>2, <2>3 DEF r
<1> QED BY <1>3, <1>4, <1>5, <1>7, <1>8 DEF ScoresInv

(* Goals that are not taken back twice are not taken back.                  *)
LEMMA NoFurtherIsAnOrder ==
    ASSUME NEW g, NEW r, NEW s, NEW t, RowOK(g, r), RowOK(g, s), RowOK(g, t),
           NoFurther(r, s), NoFurther(s, t)
    PROVE  NoFurther(r, t)
<1>1. r.goals <= t.goals
  BY DEF NoFurther, RowOK
<1>2. t.finished => r.finished
  BY DEF NoFurther
<1> QED BY <1>1, <1>2 DEF NoFurther

(* A commit stores rows that fit, under the other job as well.              *)
LEMMA TheyAreCommitted ==
    ASSUME Onwards, MemoIsPast', NEW j \in Jobs, Commits(j)
    PROVE  ScoresInv'
<1>1. /\ recalled' = recalled /\ \A k \in Jobs : k # j => job'[k] = job[k]
      /\ job'[j] = NoJob /\ DOMAIN job = Jobs
  BY DEF Commits, Onwards, MatchTypes
<1> DEFINE sets == job[j].sets
<1>2. rows' = [g \in Games |-> IF g \in DOMAIN sets THEN Over(sets[g], rows[g]) ELSE rows[g]]
  BY Zenon DEF Commits
<1>3. ASSUME NEW g \in Games, g \in DOMAIN sets
      PROVE  /\ Good(g, rows'[g]) /\ rows'[g] = Over(sets[g], rows[g])
             /\ j = "poll" /\ rows[g] # NoRow => NoFurther(rows[g], rows'[g])
  <2>1. rows'[g] = Over(sets[g], rows[g])
    BY <1>2, <1>3
  <2>2. /\ Good(g, Over(sets[g], rows[g]))
        /\ j = "poll" /\ rows[g] # NoRow => NoFurther(rows[g], Over(sets[g], rows[g]))
    BY <1>3 DEF Onwards, ScoresInv, SetsFit
  <2> QED BY <2>1, <2>2
<1>4. \A g \in Games : g \notin DOMAIN sets => rows'[g] = rows[g]
  BY <1>2
<1> HIDE DEF sets
<1>5. RowsFit'
  <2> SUFFICES ASSUME NEW g \in Games, rows'[g] # NoRow
               PROVE  RowOK(g, rows'[g]) /\ Fits(rows'[g], Latest(g)')
    BY DEF RowsFit, Good, RowOK
  <2>1. Good(g, rows'[g])
    BY <1>3, <1>4 DEF Onwards, ScoresInv, RowsFit
  <2> QED BY <2>1, GoodStays
<1>6. SetsApart'
  BY <1>1, NoJobIs, SetsStayApart DEF Onwards, ScoresInv
<1>7. GotFits(j)' /\ LoadedFits(j)' /\ SetsFit(j)'
  BY <1>1, NoJobIs DEF GotFits, LoadedFits, SetsFit
<1>8. ASSUME NEW k \in Jobs, k # j PROVE GotFits(k)' /\ LoadedFits(k)' /\ SetsFit(k)'
  <2>1. job'[k] = job[k] /\ GotFits(k) /\ LoadedFits(k) /\ SetsFit(k)
    BY <1>1, <1>8 DEF Onwards, ScoresInv
  <2>2. DOMAIN job[k].got \subseteq Games /\ DOMAIN job[k].sets \subseteq Games
    BY DEF Onwards, MatchTypes, JobOK
  <2>3. GotFits(k)'
    <3> SUFFICES ASSUME NEW g \in DOMAIN job[k].got
                 PROVE  /\ recalled # NoMemo /\ RowOK(g, job[k].got[g]) /\ Fits(job[k].got[g], Latest(g)')
                        /\ k = "poll" => Running(job[k].got[g], recalled[g])
      BY <1>1, <2>1 DEF GotFits, Good, RowOK, Running
    <3>1. Good(g, job[k].got[g])
      BY <2>1 DEF GotFits
    <3> QED BY <2>1, <2>2, <3>1, GoodStays DEF GotFits
  <2>4. SetsFit(k)'
    <3> SUFFICES ASSUME NEW g \in DOMAIN job[k].sets
                 PROVE  LET r == Over(job[k].sets[g], rows'[g]) IN
                        /\ RowOK(g, r) /\ Fits(r, Latest(g)')
                        /\ k = "poll" /\ rows'[g] # NoRow => NoFurther(rows'[g], r)
      BY <2>1 DEF SetsFit, Good, RowOK
    <3>1. g \notin DOMAIN sets
      BY <1>8 DEF Onwards, ScoresInv, SetsApart, sets
    <3>2. rows'[g] = rows[g]
      BY <1>4, <2>2, <3>1
    <3> DEFINE r == Over(job[k].sets[g], rows[g])
    <3>3. Good(g, r) /\ (k = "poll" /\ rows[g] # NoRow => NoFurther(rows[g], r))
      BY <2>1 DEF SetsFit
    <3> HIDE DEF r
    <3>4. RowOK(g, r) /\ Fits(r, Latest(g)')
      BY <2>2, <3>3, GoodStays
    <3> QED BY <3>2, <3>3, <3>4 DEF r
  <2>5. LoadedFits(k)'
    <3> SUFFICES ASSUME job[k].at = "writes", NEW g \in DOMAIN job[k].got, job[k].loaded[g] # NoRow
                 PROVE  /\ RowOK(g, job[k].loaded[g]) /\ rows'[g] # NoRow
                        /\ k = "sweep" => NoFurther(job[k].loaded[g], rows'[g])
      BY <2>1 DEF LoadedFits, RowOK, NoFurther
    <3> DEFINE old == job[k].loaded[g]
    <3>1. /\ RowOK(g, old) /\ rows[g] # NoRow /\ g \in Games
          /\ k = "sweep" => NoFurther(old, rows[g])
      BY <2>1, <2>2 DEF LoadedFits
    <3> HIDE DEF old
    <3>2. CASE g \notin DOMAIN sets
      BY <1>4, <3>1, <3>2 DEF old
    <3>3. CASE g \in DOMAIN sets
      <4>1. /\ Good(g, rows'[g])
            /\ j = "poll" => NoFurther(rows[g], rows'[g])
        BY <1>3, <3>1, <3>3
      <4>2. RowOK(g, rows[g]) /\ RowOK(g, rows'[g])
        BY <3>1, <4>1 DEF Onwards, ScoresInv, RowsFit, Good
      <4>3. k = "sweep" => NoFurther(old, rows'[g])
        BY <1>8, <3>1, <4>1, <4>2, NoFurtherIsAnOrder DEF Jobs
      <4> QED BY <3>1, <4>2, <4>3, RowsAreNoNoRow DEF old
    <3> QED BY <3>2, <3>3
  <2> QED BY <2>3, <2>4, <2>5
<1> QED BY <1>5, <1>6, <1>7, <1>8 DEF ScoresInv

(* A restart loses the payload and the jobs, and every row still fits.      *)
LEMMA TheMemoIsLost ==
    ASSUME Onwards, MemoIsPast', Restarts
    PROVE  ScoresInv'
<1>1. rows' = rows /\ \A j \in Jobs : job'[j] = NoJob
  BY DEF Restarts
<1>2. RowsFit'
  BY <1>1, RowsStay
<1>3. SetsApart' /\ \A j \in Jobs : GotFits(j)' /\ LoadedFits(j)' /\ SetsFit(j)'
  BY <1>1, NoJobIs DEF SetsApart, GotFits, LoadedFits, SetsFit
<1> QED BY <1>2, <1>3 DEF ScoresInv

(* Every step keeps what is stored true to the games.                       *)
LEMMA ScoresStayTrue ==
    ASSUME MatchTypes, ScoresInv, [MatchesNext]_matchesVars
    PROVE  ScoresInv'
<1>1. MatchTypes'
  BY MatchesKeepTypes
<1>2. Onwards /\ MemoIsPast'
  BY <1>1, TheLatestGoesOn DEF Onwards, ScoresInv
<1>3. CASE \E g \in Games : GameMoves(g) \/ ScoreMoves(g)
  BY <1>2, <1>3, NothingIsStored DEF GameMoves, ScoreMoves
<1>4. ASSUME NEW j \in Jobs, JobStarts(j) \/ Fails(j)
      PROVE  ScoresInv'
  <2>1. \E D \in SUBSET Divisions : job' = [job EXCEPT ![j] = [NoJob EXCEPT !.at = "asks", !.todo = D]]
                                       \/ job' = [job EXCEPT ![j] = NoJob]
    BY <1>4 DEF JobStarts, Fails
  <2>2. rows' = rows /\ recalled' = recalled
    BY <1>4 DEF JobStarts, Fails
  <2> QED BY <2>1, <2>2, <1>2, ItStartsAfresh, NothingIsStored
<1>5. ASSUME NEW j \in Jobs, NEW d \in Divisions, AskFails(j, d)
      PROVE  ScoresInv'
  <2>1. rows' = rows /\ recalled' = recalled /\ job[j].at = "asks"
    BY <1>5 DEF AskFails
  <2>2. /\ \A k \in Jobs : k # j => job'[k] = job[k]
        /\ job'[j].got = job[j].got /\ job'[j].sets = job[j].sets
        /\ job'[j].at = job[j].at /\ job'[j].loaded = job[j].loaded
    BY <1>5 DEF AskFails, MatchTypes, JobOK, JobFields
  <2>3. \A k \in Jobs : GotFits(k)' /\ LoadedFits(k)' /\ SetsFit(k)'
    BY <1>2, <2>1, <2>2, TheOtherIsLeft, RowsStay
  <2>4. SetsApart'
    BY <2>2, SetsStayApart DEF ScoresInv
  <2> QED BY <1>2, <2>1, <2>3, <2>4, RowsStay DEF ScoresInv
<1>6. CASE UNCHANGED matchesVars
  BY <1>2, <1>6, NothingIsStored DEF matchesVars
<1> QED BY <1>2, <1>3, <1>4, <1>5, <1>6, AnAnswerFits, RowsAreRead, TheyAreWritten, TheyAreCommitted,
           TheMemoIsLost DEF MatchesNext

(* What is stored of a game fits what the source last said of it.           *)
LEMMA ScoresInvHolds == MatchesSpec => [](MatchTypes /\ ScoresInv)
<1>1. MatchesInit => MatchTypes /\ ScoresInv
  BY NothingKnown, NothingStored
<1>2. MatchTypes /\ ScoresInv /\ [MatchesNext]_matchesVars => (MatchTypes /\ ScoresInv)'
  BY MatchesKeepTypes, ScoresStayTrue
<1> QED BY <1>1, <1>2, PTL DEF MatchesSpec

(***************************************************************************)
(* What is read                                                             *)
(***************************************************************************)
LEMMA DaysAreNumbers == Days \subseteq Int /\ IsFiniteSet(Games) /\ IsFiniteSet(Clubs)
BY MatchesAssumption

(* A row that is finished shows how its game ended, in its division.        *)
LEMMA FinishedRowsAreFinal ==
    ASSUME MatchTypes, ScoresInv, NEW g \in Games, HasScore(g)
    PROVE  /\ rows[g].day \in Int /\ rows[g].division = Home(g)
           /\ rows[g].finished => IsFinal(g)
<1>1. RowOK(g, rows[g]) /\ Fits(rows[g], Latest(g))
  BY DEF ScoresInv, RowsFit, Good, HasScore
<1>2. rows[g].day \in Int
  BY <1>1, DaysAreNumbers DEF RowOK
<1>3. ASSUME rows[g].finished PROVE IsFinal(g)
  <2>1. Latest(g).state = "finished" /\ Latest(g).goals = rows[g].goals /\ rows[g].goals # NoGoals
    BY <1>1, <1>3 DEF Fits
  <2>2. actual[g].state = "finished" /\ actual[g].goals = rows[g].goals
    <3>1. CASE recalled = NoMemo
      BY <2>1, <3>1 DEF Latest
    <3>2. CASE recalled # NoMemo
      <4>1. Precedes(recalled[g], actual[g]) /\ Latest(g) = recalled[g]
        BY <3>2 DEF ScoresInv, MemoIsPast, Latest
      <4> QED BY <2>1, <4>1 DEF Precedes
    <3> QED BY <3>1, <3>2
  <2> QED BY <1>1, <2>2 DEF IsFinal, RowOK, Home
<1> QED BY <1>1, <1>2, <1>3 DEF RowOK

(* A scoreline is resolved among the candidates of its division.            *)
LEMMA ScorelinesAreOfTheDivision ==
    ASSUME NEW L \in SUBSET Legs, NEW live \in BOOLEAN, NEW l \in L
    PROVE  LET days == {LegOf[k].day : k \in {k \in L : LegOf[k].division = LegOf[l].division}} IN
           ScorelinesFor(L, live)[l] = Resolve(l, Candidates(LegOf[l].division, days, live))
BY DEF ScorelinesFor

(* What is resolved is one of those looked among.                           *)
LEMMA ResolvedIsAmong ==
    ASSUME NEW l, NEW S
    PROVE  Resolve(l, S) \subseteq S
BY DEF Resolve, OnTheDay, Named

(* With its own game there, a leg resolves to it or to none.                *)
LEMMA ResolvedIsTheOnlyOne ==
    ASSUME NEW l, NEW S \in SUBSET Games, NEW own \in S, rows[own].day = LegOf[l].day, LikenessOf(l, own) >= PairThreshold
    PROVE  Resolve(l, S) \subseteq {own}
<1> DEFINE there == OnTheDay(l, Named(l, S))
<1>1. own \in there
  BY DEF OnTheDay, Named
<1>2. Resolve(l, S) = IF Cardinality(there) = 1 THEN there ELSE {}
  BY <1>1 DEF Resolve
<1> HIDE DEF there
<1>3. IsFiniteSet(there)
  <2>1. there \subseteq Games
    BY DEF there, OnTheDay, Named
  <2> QED BY <2>1, DaysAreNumbers, FS_Subset
<1>4. ASSUME Cardinality(there) = 1 PROVE there = {own}
  BY <1>1, <1>3, <1>4, FS_Singleton
<1> QED BY <1>2, <1>4

(* Candidates have a score, in the division, and have ended unless live     *)
(* ones are asked for.                                                      *)
LEMMA CandidatesAre ==
    ASSUME NEW d, NEW days, NEW live
    PROVE  /\ Candidates(d, days, live) \subseteq Games
           /\ \A g \in Candidates(d, days, live) :
                  HasScore(g) /\ rows[g].division = d /\ (live \/ rows[g].finished)
BY DEF Candidates

(* A leg is shown the score of a game that has ended, or is running and     *)
(* said to be, in the leg's division.                                       *)
LEMMA ScorelinesAreTrue ==
    ASSUME MatchTypes, ScoresInv,
           NEW L \in SUBSET Legs, NEW live \in BOOLEAN, NEW l \in L, NEW g \in ScorelinesFor(L, live)[l]
    PROVE  /\ DivisionOf[SideOf[g][1]] = LegOf[l].division
           /\ rows[g].finished \/ ~live => IsFinal(g)
<1> DEFINE d == LegOf[l].division
           days == {LegOf[k].day : k \in {k \in L : LegOf[k].division = d}}
           S == Candidates(d, days, live)
<1>1. ScorelinesFor(L, live)[l] = Resolve(l, S)
  BY ScorelinesAreOfTheDivision
<1>2. g \in S
  BY <1>1, ResolvedIsAmong
<1>3. g \in Games /\ HasScore(g) /\ rows[g].division = d /\ (live \/ rows[g].finished)
  BY <1>2, CandidatesAre
<1> QED BY <1>3, FinishedRowsAreFinal DEF Home

(* A leg whose own game is stored on the leg's day, under names that fit,   *)
(* is shown no other's.                                                     *)
LEMMA ItsOwnOrNone ==
    ASSUME MatchTypes, ScoresInv,
           NEW L \in SUBSET Legs, NEW live \in BOOLEAN, NEW l \in L,
           HasScore(GameOf[l]), live \/ rows[GameOf[l]].finished, rows[GameOf[l]].day = LegOf[l].day,
           LikenessOf(l, GameOf[l]) >= PairThreshold
    PROVE  ScorelinesFor(L, live)[l] \subseteq {GameOf[l]}
<1> DEFINE d == LegOf[l].division
           days == {LegOf[k].day : k \in {k \in L : LegOf[k].division = d}}
           S == Candidates(d, days, live)
           own == GameOf[l]
<1>1. ScorelinesFor(L, live)[l] = Resolve(l, S)
  BY ScorelinesAreOfTheDivision
<1>2. own \in Games /\ LegOf[l].day \in Nat /\ Home(own) = d
  BY MatchesAssumption DEF Home
<1>3. LegOf[l].day \in days
  OBVIOUS
<1>4. Around(days, rows[own].day)
  <2> DEFINE t == LegOf[l].day
  <2>1. rows[own].day = t /\ t \in days /\ t \in Nat
    BY <1>2, <1>3
  <2> HIDE DEF t, days
  <2>2. t >= t - CandidateWindow /\ t <= t + CandidateWindow
    BY <2>1 DEF CandidateWindow
  <2> QED BY <2>1, <2>2 DEF Around
<1>5. rows[own].division = d
  BY <1>2, FinishedRowsAreFinal
<1>6. own \in S
  BY <1>2, <1>4, <1>5 DEF Candidates
<1>7. S \in SUBSET Games
  BY CandidatesAre
<1> HIDE DEF S
<1> QED BY <1>1, <1>6, <1>7, ResolvedIsTheOnlyOne

(* The source numbers its games.                                            *)
LEMMA GamesAreNumbers == \A g, h \in Games : g \in Int /\ h \in Int
BY MatchesAssumption

(* Games come one after another.                                            *)
LEMMA LaterIsTransitive ==
    ASSUME NEW f \in Games, NEW g \in Games, NEW h \in Games,
           rows[f].day \in Int, rows[g].day \in Int, rows[h].day \in Int,
           Later(f, g), Later(g, h)
    PROVE  Later(f, h)
<1>1. f \in Int /\ g \in Int /\ h \in Int
  BY GamesAreNumbers
<1> DEFINE F == rows[f].day
           G == rows[g].day
           H == rows[h].day
<1>2. F > G \/ (F = G /\ f < g)
  BY DEF Later
<1>3. G > H \/ (G = H /\ g < h)
  BY DEF Later
<1>4. F \in Int /\ G \in Int /\ H \in Int
  OBVIOUS
<1> HIDE DEF F, G, H
<1>5. F > H \/ (F = H /\ f < h)
  BY <1>1, <1>2, <1>3, <1>4
<1> QED BY <1>5 DEF Later, F, H

(* The newest of a set leave out none that is later than one of them.       *)
LEMMA TheNewestComeFirst ==
    ASSUME NEW S \in SUBSET Games, \A g \in S : rows[g].day \in Int, NEW n \in Int,
           NEW g \in Newest(S, n), NEW h \in S, Later(h, g)
    PROVE  h \in Newest(S, n)
<1> DEFINE A == {x \in S : Later(x, h)}
           B == {x \in S : Later(x, g)}
<1>1. g \in S /\ Cardinality(B) < n
  BY DEF Newest
<1>2. A \subseteq B
  <2> SUFFICES ASSUME NEW x \in S, Later(x, h) PROVE Later(x, g)
    OBVIOUS
  <2> QED BY <1>1, LaterIsTransitive
<1>3. IsFiniteSet(B)
  BY DaysAreNumbers, FS_Subset
<1> HIDE DEF A, B
<1>4. Cardinality(A) <= Cardinality(B) /\ IsFiniteSet(A)
  BY <1>2, <1>3, FS_Subset
<1>5. Cardinality(A) \in Nat /\ Cardinality(B) \in Nat
  BY <1>3, <1>4, FS_CardinalityType
<1>6. Cardinality(A) < n
  BY <1>1, <1>4, <1>5
<1> QED BY <1>6 DEF A, Newest

(* Nothing is later than the newest.                                        *)
LEMMA NothingIsLaterThanTheNewest ==
    ASSUME NEW S \in SUBSET Games, NEW g \in Newest(S, 1), NEW h \in S
    PROVE  ~Later(h, g)
<1> DEFINE B == {x \in S : Later(x, g)}
<1>1. Cardinality(B) < 1
  BY DEF Newest
<1>2. IsFiniteSet(B)
  BY DaysAreNumbers, FS_Subset
<1> HIDE DEF B
<1>3. Cardinality(B) = 0
  BY <1>1, <1>2, FS_CardinalityType
<1>4. B = {}
  BY <1>2, <1>3, FS_EmptySet
<1> QED BY <1>4 DEF B

(* A club's form is its last game, with the score that game ended with.     *)
LEMMA FormIsTrue ==
    ASSUME MatchTypes, ScoresInv, NEW C \in SUBSET Clubs, NEW c \in C
    PROVE  LET form == TeamForm(C, 1)[c] IN
           \A g \in form : IsFinal(g) /\ \A h \in Played({c}) : Later(h, g) => h \in form
<1> DEFINE P == Played(C)
           N == 2 * 1 * Cardinality(C)
           T == {g \in Newest(P, N) : c \in Sides(g)}
<1>1. TeamForm(C, 1)[c] = Newest(T, 1)
  BY DEF TeamForm
<1>2. P \in SUBSET Games /\ \A g \in P : HasScore(g) /\ rows[g].finished
  BY DEF Played
<1>3. \A g \in P : rows[g].day \in Int /\ IsFinal(g)
  BY <1>2, FinishedRowsAreFinal
<1>4. N \in Int
  <2>1. IsFiniteSet(C)
    BY DaysAreNumbers, FS_Subset
  <2>2. Cardinality(C) \in Nat
    BY <2>1, FS_CardinalityType
  <2> QED BY <2>2
<1>5. \A g \in Played({c}) : g \in P /\ c \in Sides(g)
  BY DEF Played
<1> HIDE DEF N, P
<1>6. T \in SUBSET Games /\ \A g \in T : g \in P /\ g \in Newest(P, N)
  BY <1>2 DEF Newest
<1> SUFFICES ASSUME NEW g \in Newest(T, 1)
             PROVE  IsFinal(g) /\ \A h \in Played({c}) : Later(h, g) => h \in Newest(T, 1)
  BY <1>1, Zenon
<1>7. g \in T
  BY DEF Newest
<1>8. ASSUME NEW h \in Played({c}), Later(h, g) PROVE FALSE
  <2>1. h \in P /\ c \in Sides(h)
    BY <1>5, <1>8
  <2>2. h \in Newest(P, N)
    BY <1>2, <1>3, <1>4, <1>6, <1>7, <1>8, <2>1, TheNewestComeFirst
  <2>3. h \in T
    BY <2>1, <2>2
  <2> HIDE DEF T
  <2> QED BY <1>6, <1>8, <2>3, NothingIsLaterThanTheNewest
<1> QED BY <1>3, <1>6, <1>7, <1>8

(* A leg's name stands for one club at most.                                *)
LEMMA ANameIsOneClub ==
    ASSUME NEW d, NEW n \in Spellings, NEW S \in SUBSET Clubs
    PROVE  Cardinality(Means(d, n, S)) < 2
<1>1. ASSUME NEW b \in BestMatch(n, S), NEW c \in BestMatch(n, S) PROVE b = c
  <2> SUFFICES ASSUME b # c PROVE FALSE
    OBVIOUS
  <2> DEFINE B == Likeness[n][NameOf[b]]
             C == Likeness[n][NameOf[c]]
  <2>1. B \in Int /\ C \in Int
    <3>1. NameOf[b] \in Spellings /\ NameOf[c] \in Spellings
      BY MatchesAssumption DEF BestMatch
    <3>2. B \in 0..100 /\ C \in 0..100
      BY <3>1, MatchesAssumption
    <3> QED BY <3>2
  <2>2. B - C >= 5 /\ C - B >= 5
    BY DEF BestMatch, MatchMargin
  <2> HIDE DEF B, C
  <2> QED BY <2>1, <2>2
<1>2. BestMatch(n, S) = {} \/ \E c : BestMatch(n, S) = {c}
  <2>1. CASE BestMatch(n, S) = {}
    BY <2>1
  <2>2. CASE \E c : c \in BestMatch(n, S)
    <3>1. PICK c : c \in BestMatch(n, S)
      BY <2>2
    <3>2. BestMatch(n, S) = {c}
      BY <1>1, <3>1
    <3> QED BY <3>2
  <2> QED BY <2>1, <2>2
<1>3. Means(d, n, S) = {} \/ \E c : Means(d, n, S) = {c}
  BY <1>2 DEF Means
<1>4. CASE Means(d, n, S) = {}
  BY <1>4, FS_EmptySet
<1>5. CASE \E c : Means(d, n, S) = {c}
  <2>1. PICK c : Means(d, n, S) = {c}
    BY <1>5
  <2>2. Cardinality({c}) = 1
    BY FS_Singleton
  <2> QED BY <2>1, <2>2
<1> QED BY <1>3, <1>4, <1>5

(* The scores shown are the games' own, for any divisions, clubs, names,    *)
(* games and interleaving of the sweep with the poll: what is shown as      *)
(* final is final and in its own division, a form leaves out no later game, *)
(* a name stands for one club, and a leg's own game is never passed over    *)
(* for another (scorelines_for, team_form, recent_results,                  *)
(* fixture_context).                                                        *)
THEOREM ScoresAreTrue == MatchesSpec => []ScoresShownAreTrue
<1>1. ASSUME MatchTypes, ScoresInv PROVE ScoresShownAreTrue
  <2>1. ASSUME NEW L \in (SUBSET Legs) \ {{}}, NEW live \in BOOLEAN, NEW l \in L,
               NEW g \in ScorelinesFor(L, live)[l]
        PROVE  /\ DivisionOf[SideOf[g][1]] = LegOf[l].division
               /\ rows[g].finished \/ ~live => IsFinal(g)
    BY <1>1, ScorelinesAreTrue
  <2>2. ASSUME NEW C \in SUBSET UNION {Sides(g) : g \in Played(Clubs)}, NEW c \in C
        PROVE  LET form == TeamForm(C, 1)[c] IN
               \A g \in form : IsFinal(g) /\ \A h \in Played({c}) : Later(h, g) => h \in form
    <3>1. \A g \in Played(Clubs) : Sides(g) \subseteq Clubs
      BY SidesAreClubs DEF Played
    <3>2. C \in SUBSET Clubs
      BY <2>2, <3>1
    <3> QED BY <1>1, <2>2, <3>2, FormIsTrue
  <2>3. \A g \in RecentResults(1) : IsFinal(g)
    <3>1. \A g \in RecentResults(1) : g \in Games /\ HasScore(g) /\ rows[g].finished
      BY DEF RecentResults, Played
    <3> QED BY <1>1, <3>1, FinishedRowsAreFinal
  <2>4. ASSUME NEW l \in Legs, NEW n \in DOMAIN FixtureContext(l)
        PROVE  Cardinality(FixtureContext(l)[n]) < 2
    <3> DEFINE S == {c \in Clubs : teams[c] = LegOf[l].division}
               N == {LegOf[l].home, LegOf[l].away}
    <3>1. FixtureContext(l) = [m \in N |-> Means(LegOf[l].division, m, S)]
      BY DEF FixtureContext
    <3>2. N \subseteq Spellings
      BY MatchesAssumption
    <3>3. S \in SUBSET Clubs
      OBVIOUS
    <3> HIDE DEF S, N
    <3>4. n \in N /\ FixtureContext(l)[n] = Means(LegOf[l].division, n, S)
      BY <2>4, <3>1
    <3> QED BY <3>2, <3>3, <3>4, ANameIsOneClub
  <2>5. ShownFinalIsFinal
    <3>1. \A L \in (SUBSET Legs) \ {{}}, live \in BOOLEAN : \A l \in L :
             \A g \in ScorelinesFor(L, live)[l] :
                 /\ DivisionOf[SideOf[g][1]] = LegOf[l].division
                 /\ rows[g].finished \/ ~live => IsFinal(g)
      BY <2>1, Zenon
    <3>2. \A C \in SUBSET UNION {Sides(g) : g \in Played(Clubs)} : \A c \in C :
             LET form == TeamForm(C, 1)[c] IN
             \A g \in form : IsFinal(g) /\ \A h \in Played({c}) : Later(h, g) => h \in form
      BY <2>2, Zenon
    <3>3. \A l \in Legs : \A n \in DOMAIN FixtureContext(l) : Cardinality(FixtureContext(l)[n]) < 2
      BY <2>4, Zenon
    <3> QED BY <2>3, <3>1, <3>2, <3>3, Zenon DEF ShownFinalIsFinal
  <2>6. NoOtherGamesScore
    <3> SUFFICES ASSUME NEW L \in (SUBSET Legs) \ {{}}, NEW live \in BOOLEAN, NEW l \in L,
                        /\ HasScore(GameOf[l]) /\ (live \/ rows[GameOf[l]].finished)
                        /\ rows[GameOf[l]].day = LegOf[l].day
                        /\ LikenessOf(l, GameOf[l]) >= PairThreshold
                 PROVE  ScorelinesFor(L, live)[l] \subseteq {GameOf[l]}
      BY Zenon DEF NoOtherGamesScore
    <3> QED BY <1>1, ItsOwnOrNone
  <2> QED BY <2>5, <2>6 DEF ScoresShownAreTrue
<1> QED BY <1>1, ScoresInvHolds, PTL

(***************************************************************************)
(* The pick screen: the newest intent wins.                                 *)
(***************************************************************************)

Picked == Selections \cup {"none"}
Intents == [sel : Selections, odds : Nat, agreed : Nat, intent : Nat]
Sent == [at : {"waiting", "late"}, of : Intents, answer : {"none", "grabbed", "moved", "refused"}, quoted : Nat]
Asked == [at : {"asking", "answered"}, of : Intents, saw : Picked]
EditorTypeOK ==
    /\ slot \in {Empty} \cup [state : {"queued", "unconfirmed"}, of : Intents]
    /\ post \in [Posts -> {Unsent} \cup Sent] /\ check \in [Checks -> {NoCheck} \cup Asked]
    /\ offer \in {NoBody} \cup Intents /\ pick \in [sel : Picked, intent : Nat]
    /\ price \in [Selections -> Nat] /\ card \in [price : [Selections -> Nat], mine : Picked]
    /\ taps \in Nat /\ applied \in Nat /\ crossed \in BOOLEAN

(* While no requests have crossed, those under way are of one intent, the   *)
(* held one if one is held, and nothing newer than it was applied; the last *)
(* decision is theirs, was answered, or is held; and what the member was    *)
(* told is so, unless an answer that grabbed is on its way to them.         *)
UnderWay(n) ==
    /\ applied =< post[n].of.intent /\ post[n].of.intent =< taps
    /\ post[n].of.intent = taps \/ taps \in told
    /\ post[n].answer = "grabbed" => pick.sel = post[n].of.sel
    /\ slot # Empty => slot.of.intent = post[n].of.intent /\ slot.of.sel = post[n].of.sel
GrabbedOnItsWay == \E n \in Waiting : post[n].answer = "grabbed"
OneIntent == \A m, n \in Waiting : post[m].of.intent = post[n].of.intent /\ post[m].of.sel = post[n].of.sel
InStep ==
    /\ pick.intent = applied /\ applied =< taps /\ 0 \in told
    /\ OneIntent /\ \A n \in Waiting : UnderWay(n)
    /\ GrabbedOnItsWay \/ believed \in {"unknown", pick.sel}
    /\ slot # Empty => slot.of.intent =< taps
    /\ Waiting = {} => /\ slot # Empty => applied =< slot.of.intent
                       /\ taps \in told \cup {slot.of.intent}
EditorInv == EditorTypeOK /\ (crossed \/ InStep)

(* Nothing has been decided at first.                                       *)
LEMMA EditorStarts == EditorInit => EditorInv
<1> SUFFICES ASSUME EditorInit PROVE EditorInv
  OBVIOUS
<1>1. EditorTypeOK
  BY DEF EditorInit, EditorTypeOK, Picked, Sent, Asked
<1>2. Waiting = {}
  BY DEF EditorInit, Waiting, Unsent
<1>3. InStep
  BY <1>2 DEF EditorInit, InStep, OneIntent, Empty, NoBody
<1> QED
  BY <1>1, <1>3 DEF EditorInv

(* What is held, what is under way and what was asked about are intents.    *)
LEMMA IntentsInHand ==
    ASSUME EditorTypeOK
    PROVE  /\ slot # Empty => slot.of \in Intents /\ slot.state \in {"queued", "unconfirmed"}
           /\ \A n \in Posts : post[n].at # "free" => post[n] \in Sent /\ post[n].of \in Intents
           /\ \A k \in Checks : check[k] # NoCheck => check[k] \in Asked /\ check[k].of \in Intents
           /\ slot.state # "none" => slot # Empty
           /\ \A n \in Waiting : n \in Posts /\ post[n].at = "waiting" /\ post[n] \in Sent /\ post[n].of \in Intents
           /\ slot.of.intent \in Nat
  BY DEF EditorTypeOK, Empty, Unsent, NoCheck, Sent, Asked, Waiting, NoBody, Intents

(* A submission takes a free request and goes out with its intent.          *)
LEMMA ItGoes ==
    ASSUME EditorTypeOK, NEW r \in Intents, Goes(r)
    PROVE  \E n \in Posts : /\ post' \in [Posts -> {Unsent} \cup Sent] /\ Waiting' = Waiting \cup {n}
                            /\ post'[n].of = r /\ post'[n].answer = "none"
                            /\ n \notin Waiting /\ \A m \in Waiting : post'[m] = post[m]
<1> DEFINE Any == [at : {"free", "waiting", "late"}, of : {NoBody} \cup Intents,
                   answer : {"none", "grabbed", "moved", "refused"}, quoted : Nat]
           e == [Unsent EXCEPT !.at = "waiting", !.of = r]
<1>1. PICK n \in Posts : post[n] = Unsent /\ post' = [post EXCEPT ![n] = e]
  BY DEF Goes
<1>2. Unsent \in Any /\ Unsent.answer = "none"
  BY DEF Unsent
<1>3. e \in Any /\ e.at = "waiting" /\ e.of = r /\ e.answer = "none"
  <2> HIDE DEF Unsent
  <2> QED
    BY <1>2
<1> HIDE DEF e
<1>4. e \in Sent
  BY <1>3 DEF Sent
<1>5. post' \in [Posts -> {Unsent} \cup Sent] /\ post'[n] = e /\ \A m \in Posts \ {n} : post'[m] = post[m]
  BY <1>1, <1>4 DEF EditorTypeOK
<1>6. Waiting' = Waiting \cup {n} /\ n \notin Waiting
  BY <1>1, <1>3, <1>5 DEF Waiting, Unsent
<1> QED
  BY <1>3, <1>5, <1>6 DEF Waiting

(* An intent that is sent is the newest; it is the one held, if any, and    *)
(* the only one under way.                                                  *)
LEMMA ItIsSent ==
    ASSUME EditorInv, NEW r \in Intents, NEW kept, Send(r, kept), Decides, r.intent = taps + 1,
           kept \in {Empty} \cup [state : {"queued", "unconfirmed"}, of : Intents],
           UNCHANGED <<check, card, price, pick, applied, told, believed>>,
           offer' \in {NoBody} \cup Intents,
           crossed' \in BOOLEAN,
           ~crossed' => ~crossed /\ Waiting = {},
           ~crossed' /\ slot' # Empty => slot'.of = r
    PROVE  EditorInv'
<1>1. taps \in Nat /\ taps' = taps + 1 /\ applied \in Nat /\ r.intent \in Nat
  BY DEF EditorInv, EditorTypeOK, Decides
<1>2. ASSUME ~crossed'
      PROVE  /\ InStep /\ Waiting = {} /\ pick.intent = applied /\ applied =< taps /\ 0 \in told
             /\ believed \in {"unknown", pick.sel} /\ applied' =< taps' /\ applied =< r.intent
             /\ slot' # Empty => slot'.of = r
  <2>1. InStep /\ Waiting = {}
    BY <1>2 DEF EditorInv
  <2>2. pick.intent = applied /\ applied =< taps /\ 0 \in told /\ believed \in {"unknown", pick.sel}
    BY <2>1 DEF InStep, GrabbedOnItsWay
  <2> QED
    BY <1>1, <1>2, <2>1, <2>2
<1>3. CASE online /\ Goes(r) /\ slot' = kept
  <2>1. PICK n \in Posts : /\ post' \in [Posts -> {Unsent} \cup Sent] /\ Waiting' = Waiting \cup {n}
                           /\ post'[n].of = r /\ post'[n].answer = "none"
    BY <1>3, ItGoes DEF EditorInv
  <2>2. EditorTypeOK'
    BY <1>1, <1>3, <2>1 DEF EditorInv, EditorTypeOK
  <2>3. ASSUME ~crossed' PROVE InStep'
    <3>1. Waiting' = {n}
      BY <1>2, <2>1, <2>3
    <3>2. UnderWay(n)'
      BY <1>1, <1>2, <2>1, <2>3 DEF UnderWay
    <3>3. OneIntent'
      BY <3>1 DEF OneIntent
    <3>4. slot' # Empty => slot'.of.intent =< taps'
      BY <1>1, <1>2, <2>3
    <3> QED
      BY <1>2, <2>3, <3>1, <3>2, <3>3, <3>4 DEF InStep
  <2> QED
    BY <2>2, <2>3 DEF EditorInv
<1>4. CASE ~online /\ slot' = [state |-> "queued", of |-> r] /\ latest' = 0 /\ UNCHANGED post
  <2>1. slot' \in [state : {"queued", "unconfirmed"}, of : Intents] /\ slot'.of = r /\ slot'.state = "queued"
    BY <1>4
  <2>2. EditorTypeOK'
    BY <1>1, <1>4, <2>1 DEF EditorInv, EditorTypeOK
  <2>3. ASSUME ~crossed' PROVE InStep'
    <3>1. Waiting' = {} /\ OneIntent'
      BY <1>2, <1>4, <2>3 DEF Waiting, OneIntent
    <3>2. applied' =< slot'.of.intent /\ slot'.of.intent =< taps' /\ taps' = slot'.of.intent
      BY <1>1, <1>2, <2>1, <2>3
    <3> QED
      BY <1>2, <2>3, <3>1, <3>2 DEF InStep
  <2> QED
    BY <2>2, <2>3 DEF EditorInv
<1> QED
  BY <1>3, <1>4 DEF Send

(* A request under way comes to an end: nothing of another intent is under  *)
(* way, and the slot holds nothing any more.                                *)
LEMMA TheSlotIsSettled ==
    ASSUME EditorInv, NEW n \in Waiting, post' = [post EXCEPT ![n] = Unsent], slot' = Empty,
           told' = told \cup {post[n].of.intent}, UNCHANGED <<check, price, card, pick, taps, applied, crossed>>,
           offer' \in {NoBody} \cup Intents,
           ~crossed => GrabbedOnItsWay' \/ believed' \in {"unknown", pick.sel}
    PROVE  EditorInv'
<1>1. /\ post' \in [Posts -> {Unsent} \cup Sent] /\ Waiting' = Waiting \ {n}
      /\ \A m \in Waiting \ {n} : post'[m] = post[m]
  BY DEF EditorInv, EditorTypeOK, Waiting, Unsent
<1>2. EditorTypeOK'
  BY <1>1 DEF EditorInv, EditorTypeOK
<1>3. ASSUME ~crossed PROVE InStep'
  <2>1. InStep
    BY <1>3 DEF EditorInv
  <2>2. taps \in told'
    BY <2>1 DEF InStep, UnderWay
  <2>3. OneIntent'
    BY <1>1, <2>1 DEF InStep, OneIntent
  <2>4. \A m \in Waiting' : UnderWay(m)'
    BY <1>1, <2>1, <2>2 DEF InStep, UnderWay
  <2> QED
    BY <1>3, <2>1, <2>2, <2>3, <2>4 DEF InStep
<1> QED
  BY <1>2, <1>3 DEF EditorInv

(* A decision, a retry and a moved price taken send the newest intent.      *)
LEMMA EditorSends ==
    ASSUME EditorInv, (\E s \in Selections : Submit(s)) \/ TakeMovedPrice \/ SendNow
    PROVE  EditorInv'
<1>0. taps \in Nat /\ offer \in {NoBody} \cup Intents /\ taps + 1 \in Nat
      /\ slot \in {Empty} \cup [state : {"queued", "unconfirmed"}, of : Intents] /\ crossed \in BOOLEAN
  BY DEF EditorInv, EditorTypeOK
<1>1. ASSUME NEW s \in Selections, Submit(s) PROVE EditorInv'
  <2> DEFINE r == [sel |-> s, odds |-> card.price[s], agreed |-> card.price[s], intent |-> taps + 1]
  <2>1. r \in Intents /\ r.intent = taps + 1
    BY <1>0 DEF EditorInv, EditorTypeOK, Intents
  <2>2. Decides /\ Send(r, Empty) /\ UNCHANGED <<check, card, offer, price, pick, applied, told, believed>>
    BY <1>1 DEF Submit, Superseded, screen, server
  <2>3. crossed' = (crossed \/ Waiting # {})
    BY <1>1 DEF Submit, MayCross
  <2> HIDE DEF r
  <2>4. slot' # Empty => slot'.of = r
    BY <2>2 DEF Send
  <2> QED
    BY <1>0, <2>1, <2>2, <2>3, <2>4, ItIsSent
<1>2. CASE TakeMovedPrice
  <2> DEFINE r == Decide(offer)
  <2>1. offer \in Intents /\ r \in Intents /\ r.intent = taps + 1
    BY <1>0, <1>2 DEF TakeMovedPrice, Decide, Intents
  <2>2. Decides /\ Send(r, slot) /\ UNCHANGED <<check, card, price, pick, applied, told, believed>> /\ offer' = NoBody
    BY <1>2 DEF TakeMovedPrice, server
  <2>3. crossed' = (crossed \/ Waiting # {} \/ (slot' # Empty /\ slot'.of.intent # taps + 1))
    BY <1>2 DEF TakeMovedPrice, Decides
  <2> HIDE DEF r
  <2>4. ~crossed' /\ slot' # Empty => slot'.of = r
    <3> SUFFICES ASSUME ~crossed', slot' # Empty PROVE slot'.of = r
      OBVIOUS
    <3>1. ~crossed /\ slot'.of.intent = taps + 1
      BY <1>0, <2>3
    <3>2. CASE slot' = slot
      <4>1. slot.of.intent =< taps
        BY <3>1, <3>2 DEF EditorInv, InStep
      <4> QED
        BY <1>0, <3>1, <3>2, <4>1
    <3>3. CASE slot' = [state |-> "queued", of |-> r]
      BY <3>3
    <3> QED
      BY <2>2, <3>2, <3>3 DEF Send
  <2> QED
    BY <1>0, <2>1, <2>2, <2>3, <2>4, ItIsSent
<1>3. CASE SendNow
  <2> DEFINE r == Decide(slot.of)
             kept == [slot EXCEPT !.of = Decide(@)]
  <2>1. slot # Empty /\ slot.of \in Intents /\ slot.state \in {"queued", "unconfirmed"}
    BY <1>3, IntentsInHand DEF SendNow, EditorInv
  <2>2. r \in Intents /\ r.intent = taps + 1
    BY <1>0, <2>1 DEF Decide, Intents
  <2>3. kept \in [state : {"queued", "unconfirmed"}, of : Intents] /\ kept.of = r
    <3>1. slot \in [state : {"queued", "unconfirmed"}, of : Intents]
      BY <1>0, <2>1
    <3> HIDE DEF r
    <3>2. kept = [slot EXCEPT !.of = r]
      BY DEF r
    <3> QED
      BY <2>2, <3>1, <3>2
  <2>4. Decides /\ Send(r, kept) /\ UNCHANGED <<check, card, offer, price, pick, applied, told, believed>>
    BY <1>3 DEF SendNow, screen, server
  <2>5. crossed' = (crossed \/ Waiting # {})
    BY <1>3 DEF SendNow, MayCross
  <2> HIDE DEF r, kept
  <2>6. slot' # Empty => slot'.of = r
    BY <2>3, <2>4 DEF Send
  <2> QED
    BY <1>0, <2>2, <2>3, <2>4, <2>5, <2>6, ItIsSent
<1> QED
  BY <1>1, <1>2, <1>3

(* What touches nothing but reads, prices and the network keeps everything. *)
LEMMA EditorKeeps ==
    ASSUME EditorInv, UNCHANGED <<slot, post, pick, taps, applied, told, believed, crossed, offer>>,
           check' \in [Checks -> {NoCheck} \cup Asked], price' \in [Selections -> Nat],
           card' \in [price : [Selections -> Nat], mine : Picked]
    PROVE  EditorInv'
<1>1. EditorTypeOK'
  BY DEF EditorInv, EditorTypeOK
<1>2. InStep => InStep'
  BY DEF InStep, OneIntent, GrabbedOnItsWay, UnderWay, Waiting
<1> QED
  BY <1>1, <1>2 DEF EditorInv

(* A read-back that starts asks about the intent held.                      *)
LEMMA ItIsReadBack ==
    ASSUME EditorInv, NEW r \in Intents, Reconcile(r)
    PROVE  check' \in [Checks -> {NoCheck} \cup Asked]
<1>1. PICK k \in Checks : check' = [check EXCEPT ![k] = [NoCheck EXCEPT !.at = "asking", !.of = r]]
  BY DEF Reconcile
<1> DEFINE e == [NoCheck EXCEPT !.at = "asking", !.of = r]
           Any == [at : {"idle", "asking", "answered"}, of : {NoBody} \cup Intents, saw : Picked]
<1>2. NoCheck \in Any
  BY DEF NoCheck, Picked
<1>3. e \in Asked
  <2>1. e \in Any /\ e.at = "asking" /\ e.of = r
    BY <1>2
  <2> HIDE DEF e
  <2> QED
    BY <2>1 DEF Asked
<1> QED
  BY <1>1, <1>2, <1>3 DEF EditorInv, EditorTypeOK

(* A read-back and its answer move no intent.                               *)
LEMMA EditorReads ==
    ASSUME EditorInv,
           \/ CheckNow \/ GoesOffline \/ CardRefreshes \/ \E s \in Selections : PriceMoves(s)
           \/ \E k \in Checks : ReadsBack(k) \/ CheckFails(k)
    PROVE  EditorInv'
<1>0. /\ check \in [Checks -> {NoCheck} \cup Asked] /\ price \in [Selections -> Nat]
      /\ card \in [price : [Selections -> Nat], mine : Picked] /\ pick.sel \in Picked
  BY DEF EditorInv, EditorTypeOK
<1>1. CASE CheckNow
  <2>1. slot.of \in Intents
    BY <1>1, IntentsInHand DEF CheckNow, EditorInv
  <2>2. Reconcile(slot.of) /\ UNCHANGED <<slot, post, pick, taps, applied, told, believed, crossed, offer, price, card>>
    BY <1>1 DEF CheckNow, screen, server, history, counts
  <2> QED
    BY <1>0, <2>1, <2>2, ItIsReadBack, EditorKeeps
<1>2. CASE GoesOffline
  BY <1>0, <1>2, EditorKeeps DEF GoesOffline, screen, server, history
<1>3. CASE CardRefreshes
  <2>1. card' = [price |-> price, mine |-> pick.sel]
        /\ UNCHANGED <<slot, post, pick, taps, applied, told, believed, crossed, offer, price, check>>
    BY <1>3 DEF CardRefreshes, server, history, counts
  <2> QED
    BY <1>0, <2>1, EditorKeeps
<1>4. ASSUME NEW s \in Selections, PriceMoves(s) PROVE EditorInv'
  <2>1. price' = [price EXCEPT ![s] = @ + 1]
        /\ UNCHANGED <<slot, post, pick, taps, applied, told, believed, crossed, offer, card, check>>
    BY <1>4 DEF PriceMoves, screen, history, counts
  <2>2. price' \in [Selections -> Nat]
    BY <1>0, <2>1
  <2> QED
    BY <1>0, <2>1, <2>2, EditorKeeps
<1>5. ASSUME NEW k \in Checks, ReadsBack(k) PROVE EditorInv'
  <2>1. check[k].at = "asking" /\ check' = [check EXCEPT ![k].at = "answered", ![k].saw = pick.sel]
        /\ UNCHANGED <<slot, post, pick, taps, applied, told, believed, crossed, offer, price, card>>
    BY <1>5 DEF ReadsBack, screen, server, history, counts
  <2>2. check[k] \in Asked
    BY <1>0, <2>1 DEF NoCheck
  <2>3. [check[k] EXCEPT !.at = "answered", !.saw = pick.sel] \in Asked
    BY <1>0, <2>2 DEF Asked
  <2>4. check' = [check EXCEPT ![k] = [check[k] EXCEPT !.at = "answered", !.saw = pick.sel]]
    BY <1>0, <2>1
  <2>5. check' \in [Checks -> {NoCheck} \cup Asked]
    BY <1>0, <2>3, <2>4
  <2> QED
    BY <1>0, <2>1, <2>5, EditorKeeps
<1>6. ASSUME NEW k \in Checks, CheckFails(k) PROVE EditorInv'
  <2>1. check' = [check EXCEPT ![k] = NoCheck]
        /\ UNCHANGED <<slot, post, pick, taps, applied, told, believed, crossed, offer, price, card>>
    BY <1>6 DEF CheckFails, screen, server, history, counts
  <2>2. check' \in [Checks -> {NoCheck} \cup Asked]
    BY <1>0, <2>1
  <2> QED
    BY <1>0, <2>1, <2>2, EditorKeeps
<1> QED
  BY <1>1, <1>2, <1>3, <1>4, <1>5, <1>6

(* An answer the editor waits for ends its request.                         *)
LEMMA EditorIsAnswered ==
    ASSUME EditorInv, NEW n \in Posts, Succeeds(n) \/ IsRefused(n)
    PROVE  EditorInv'
<1>0. n \in Waiting /\ post[n] \in Sent /\ post[n].of \in Intents
  BY IntentsInHand DEF Succeeds, IsRefused, Waiting, EditorInv
<1>1. CASE Succeeds(n)
  <2>1. ~crossed => post[n].of.sel = pick.sel
    BY <1>0, <1>1 DEF Succeeds, EditorInv, InStep, UnderWay
  <2> QED
    BY <1>0, <1>1, <2>1, TheSlotIsSettled DEF Succeeds, screen, server, counts, EditorInv, EditorTypeOK
<1>2. CASE IsRefused(n)
  <2>1. ~crossed => GrabbedOnItsWay' \/ believed \in {"unknown", pick.sel}
    <3>1. \A m \in Waiting : post[m].answer = "grabbed" => m \in Waiting' /\ post'[m].answer = "grabbed"
      BY <1>2 DEF IsRefused, Waiting, EditorInv, EditorTypeOK
    <3> QED
      BY <3>1 DEF EditorInv, InStep, GrabbedOnItsWay
  <2>2. offer' \in {NoBody} \cup Intents
    <3>1. [post[n].of EXCEPT !.agreed = post[n].quoted] \in Intents
      BY <1>0 DEF Intents, Sent
    <3> QED
      BY <1>2, <3>1 DEF IsRefused, EditorInv, EditorTypeOK
  <2> QED
    BY <1>0, <1>2, <2>1, <2>2, TheSlotIsSettled DEF IsRefused, server, counts
<1> QED
  BY <1>1, <1>2

(* A refusal and a dismissal hold nothing newer than what was sent.         *)
LEMMA EditorLetsGo ==
    ASSUME EditorInv, Discard
    PROVE  EditorInv'
<1>1. /\ slot' = Empty /\ told' = told \cup {slot.of.intent}
      /\ UNCHANGED <<post, check, believed, crossed, offer, card, price, pick, applied, taps>>
  BY DEF Discard, screen, server, counts
<1>2. EditorTypeOK'
  BY <1>1 DEF EditorInv, EditorTypeOK
<1>3. Waiting' = Waiting
  BY <1>1 DEF Waiting
<1>4. InStep => InStep'
  BY <1>1, <1>3 DEF InStep, OneIntent, GrabbedOnItsWay, UnderWay
<1> QED
  BY <1>1, <1>2, <1>4 DEF EditorInv

(* A request that is lost holds its intent as unsent.                       *)
LEMMA EditorLoses ==
    ASSUME EditorInv, NEW n \in Posts, IsLost(n)
    PROVE  EditorInv'
<1>1. /\ post[n].at = "late" /\ post' = [post EXCEPT ![n] = Unsent]
      /\ UNCHANGED <<slot, told, check, believed, crossed, offer, card, price, pick, applied, taps>>
  BY DEF IsLost, screen, server, counts, history
<1>2. EditorTypeOK'
  BY <1>1 DEF EditorInv, EditorTypeOK
<1>3. Waiting' = Waiting /\ \A m \in Waiting : post'[m] = post[m]
  BY <1>1 DEF Waiting, Unsent, EditorInv, EditorTypeOK
<1>4. InStep => InStep'
  BY <1>1, <1>3 DEF InStep, OneIntent, GrabbedOnItsWay, UnderWay
<1> QED
  BY <1>1, <1>2, <1>4 DEF EditorInv

(* The server answers.  A request that nobody waits for any more and that   *)
(* is granted has crossed.                                                  *)
LEMMA ItLands ==
    ASSUME EditorInv, NEW n \in Posts, Lands(n)
    PROVE  EditorInv'
<1> DEFINE r == post[n].of
           said(answer) == [post[n] EXCEPT !.answer = answer, !.quoted = price[r.sel]]
           Says(answer) == post' = [post EXCEPT ![n] =
                                       IF @.at = "late" THEN Unsent
                                       ELSE [@ EXCEPT !.answer = answer, !.quoted = price[r.sel]]]
<1>0. /\ post[n] \in Sent /\ r \in Intents /\ post[n].at \in {"waiting", "late"}
      /\ UNCHANGED <<slot, told, check, believed, offer, card, price, taps>>
  BY IntentsInHand DEF Lands, screen, counts, EditorInv
<1>1. \/ /\ Says("grabbed") /\ pick' = [sel |-> r.sel, intent |-> r.intent]
         /\ applied' = IF r.intent > applied THEN r.intent ELSE applied
         /\ crossed' = (crossed \/ post[n].at = "late")
      \/ (Says("moved") \/ Says("refused")) /\ UNCHANGED <<pick, applied, crossed>>
  BY DEF Lands
<1>2. r.sel \in Selections /\ r.intent \in Nat /\ price[r.sel] \in Nat /\ applied \in Nat
      /\ post \in [Posts -> {Unsent} \cup Sent] /\ crossed \in BOOLEAN
  BY <1>0 DEF EditorInv, EditorTypeOK, Intents
<1>3. ASSUME NEW answer \in {"grabbed", "moved", "refused"}, Says(answer)
      PROVE  /\ post' \in [Posts -> {Unsent} \cup Sent]
             /\ post[n].at = "late" => Waiting' = Waiting /\ \A m \in Waiting : post'[m] = post[m]
             /\ post[n].at = "waiting" => /\ Waiting' = Waiting
                                          /\ post'[n].of = r /\ post'[n].answer = answer
                                          /\ \A m \in Waiting \ {n} : post'[m] = post[m]
  <2>1. said(answer) \in Sent /\ said(answer).at = post[n].at /\ said(answer).of = r
        /\ said(answer).answer = answer
    BY <1>0, <1>2 DEF Sent
  <2>2. post' = [post EXCEPT ![n] = IF post[n].at = "late" THEN Unsent ELSE said(answer)]
    BY <1>2, <1>3
  <2> HIDE DEF said, Says, r
  <2>3. /\ post' \in [Posts -> {Unsent} \cup Sent] /\ \A m \in Posts \ {n} : post'[m] = post[m]
        /\ post'[n] = IF post[n].at = "late" THEN Unsent ELSE said(answer)
    BY <1>2, <2>1, <2>2
  <2> QED
    BY <1>0, <2>1, <2>3 DEF Waiting, Unsent
<1> HIDE DEF Says
<1>4. CASE /\ Says("grabbed") /\ pick' = [sel |-> r.sel, intent |-> r.intent]
           /\ applied' = IF r.intent > applied THEN r.intent ELSE applied
           /\ crossed' = (crossed \/ post[n].at = "late")
  <2>1. EditorTypeOK'
    <3>1. pick' \in [sel : Picked, intent : Nat] /\ applied' \in Nat /\ crossed' \in BOOLEAN
      BY <1>2, <1>4 DEF Picked
    <3> QED
      BY <1>0, <1>3, <1>4, <3>1 DEF EditorInv, EditorTypeOK
  <2>2. ASSUME ~crossed' PROVE InStep'
    <3>1. InStep /\ post[n].at = "waiting" /\ n \in Waiting
      BY <1>0, <1>2, <1>4, <2>2 DEF EditorInv, Waiting
    <3>2. Waiting' = Waiting /\ post'[n].answer = "grabbed" /\ \A m \in Waiting : post'[m].of = post[m].of
      BY <1>3, <1>4, <3>1
    <3>3. applied =< r.intent /\ r.intent =< taps /\ (r.intent = taps \/ taps \in told)
      BY <3>1 DEF InStep, UnderWay
    <3>4. applied' = r.intent /\ pick'.intent = r.intent /\ pick'.sel = r.sel
      BY <1>2, <1>4, <3>3
    <3>5. \A m \in Waiting : post[m].of.intent = r.intent /\ post[m].of.sel = r.sel /\ UnderWay(m)
      BY <3>1 DEF InStep, OneIntent
    <3>6. \A m \in Waiting' : UnderWay(m)'
      <4> SUFFICES ASSUME NEW m \in Waiting PROVE UnderWay(m)'
        BY <3>2
      <4>1. post'[m].of.intent = r.intent /\ post'[m].of.sel = r.sel
        BY <3>2, <3>5
      <4>2. slot # Empty => slot.of.intent = r.intent /\ slot.of.sel = r.sel
        BY <3>5 DEF UnderWay
      <4> HIDE DEF r
      <4> QED
        BY <1>0, <1>2, <3>3, <3>4, <4>1, <4>2 DEF UnderWay
    <3>7. OneIntent' /\ GrabbedOnItsWay'
      BY <3>1, <3>2, <3>5 DEF OneIntent, GrabbedOnItsWay
    <3> QED
      BY <1>0, <3>1, <3>2, <3>3, <3>4, <3>6, <3>7 DEF InStep
  <2> QED
    BY <2>1, <2>2 DEF EditorInv
<1>5. CASE (Says("moved") \/ Says("refused")) /\ UNCHANGED <<pick, applied, crossed>>
  <2> PICK answer \in {"moved", "refused"} : Says(answer)
    BY <1>5
  <2>1. EditorTypeOK'
    BY <1>0, <1>3, <1>5 DEF EditorInv, EditorTypeOK
  <2>2. Waiting' = Waiting /\ \A m \in Waiting : post'[m].of = post[m].of
                                  /\ (post'[m].answer = "grabbed" => post[m].answer = "grabbed")
    BY <1>0, <1>3
  <2>3. ASSUME NEW m \in Waiting, UnderWay(m), post[m].answer = "none" \/ post'[m].answer = post[m].answer
        PROVE  UnderWay(m)'
    BY <1>0, <1>5, <2>2, <2>3 DEF UnderWay
  <2>4. \A m \in Waiting : post[m].answer = "none" \/ post'[m].answer = post[m].answer
    <3>1. post[n].answer = "none"
      BY DEF Lands
    <3> QED
      BY <1>0, <1>3, <3>1
  <2>5. InStep => OneIntent'
    BY <2>2 DEF InStep, OneIntent
  <2>6. InStep => GrabbedOnItsWay' \/ believed \in {"unknown", pick.sel}
    <3>1. \A m \in Waiting : post[m].answer = "grabbed" => post'[m].answer = "grabbed"
      BY <2>4
    <3> QED
      BY <2>2, <3>1 DEF InStep, GrabbedOnItsWay
  <2>7. InStep => InStep'
    BY <1>0, <1>5, <2>2, <2>3, <2>4, <2>5, <2>6 DEF InStep
  <2> QED
    BY <1>5, <2>1, <2>7 DEF EditorInv
<1> QED
  BY <1>1, <1>4, <1>5

(* A request given up is held as unconfirmed, to be read back.              *)
LEMMA EditorGivesUp ==
    ASSUME EditorInv, NEW n \in Posts, GivesUp(n)
    PROVE  EditorInv'
<1>0. n \in Waiting /\ post[n] \in Sent /\ post[n].of \in Intents /\ post[n].at = "waiting"
      /\ post \in [Posts -> {Unsent} \cup Sent]
  BY IntentsInHand DEF GivesUp, Waiting, EditorInv, EditorTypeOK
<1> DEFINE late == [post[n] EXCEPT !.at = "late"]
<1>1. /\ post' = [post EXCEPT ![n] = IF post[n].answer = "none" THEN late ELSE Unsent]
      /\ slot' = [state |-> "unconfirmed", of |-> post[n].of] /\ Reconcile(post[n].of)
      /\ believed' = "unknown" /\ UNCHANGED <<taps, told, crossed, offer, card, price, pick, applied>>
  BY <1>0 DEF GivesUp, screen, server, counts
<1>2. late \in Sent /\ late.at = "late"
  BY <1>0 DEF Sent
<1> HIDE DEF late
<1>3. /\ post' \in [Posts -> {Unsent} \cup Sent] /\ Waiting' = Waiting \ {n}
      /\ \A m \in Waiting \ {n} : post'[m] = post[m]
  BY <1>0, <1>1, <1>2 DEF Waiting, Unsent
<1>4. slot' \in [state : {"queued", "unconfirmed"}, of : Intents] /\ slot'.of = post[n].of
  BY <1>0, <1>1
<1>5. check' \in [Checks -> {NoCheck} \cup Asked]
  BY <1>0, <1>1, ItIsReadBack
<1>6. EditorTypeOK'
  BY <1>1, <1>3, <1>4, <1>5 DEF EditorInv, EditorTypeOK
<1>7. ASSUME InStep PROVE InStep'
  <2>1. UnderWay(n) /\ OneIntent'
    BY <1>0, <1>3, <1>7 DEF InStep, OneIntent
  <2>2. \A m \in Waiting' : UnderWay(m)'
    <3> SUFFICES ASSUME NEW m \in Waiting \ {n} PROVE UnderWay(m)'
      BY <1>3
    <3>1. UnderWay(m) /\ post[m].of.intent = post[n].of.intent /\ post[m].of.sel = post[n].of.sel
      BY <1>0, <1>7 DEF InStep, OneIntent
    <3> QED
      BY <1>1, <1>3, <1>4, <3>1 DEF UnderWay
  <2> QED
    BY <1>1, <1>4, <1>7, <2>1, <2>2 DEF InStep, UnderWay
<1> QED
  BY <1>1, <1>6, <1>7 DEF EditorInv

(* A read-back settles what it asked about or leaves it held.               *)
LEMMA EditorConcludes ==
    ASSUME EditorInv, NEW k \in Checks, Concludes(k)
    PROVE  EditorInv'
<1>0. /\ check[k] \in Asked /\ check[k].of \in Intents /\ check[k].saw \in Picked
      /\ UNCHANGED <<post, taps, offer, card, price, pick, applied>> /\ crossed \in BOOLEAN
  <2>1. check[k].at = "answered"
    BY DEF Concludes
  <2>2. check[k] \in Asked
    BY <2>1 DEF EditorInv, EditorTypeOK, NoCheck
  <2> QED
    BY <2>2 DEF Concludes, screen, server, counts, Asked, EditorInv, EditorTypeOK
<1>1. check' \in [Checks -> {NoCheck} \cup Asked] /\ Waiting' = Waiting
  BY <1>0 DEF Concludes, EditorInv, EditorTypeOK, Waiting
<1>2. CASE ~IsAboutHeld(k)
  <2>1. UNCHANGED <<slot, told, believed, crossed>>
    BY <1>2 DEF Concludes, history
  <2> QED
    BY <1>0, <1>1, <2>1, EditorKeeps DEF EditorInv, EditorTypeOK
<1>3. CASE IsAboutHeld(k)
  <2>1. /\ slot # Empty /\ slot.of \in Intents /\ slot.of.intent \in Nat /\ slot.of.sel = check[k].of.sel
        /\ believed' = check[k].saw /\ crossed' = (crossed \/ check[k].saw # pick.sel)
        /\ \/ slot' = Empty /\ told' = told \cup {slot.of.intent}
           \/ /\ slot' = [state |-> "queued", of |-> [check[k].of EXCEPT !.intent = slot.of.intent]]
              /\ told' = told
    BY <1>3, IntentsInHand DEF Concludes, IsAboutHeld, EditorInv
  <2>2. ~crossed' => ~crossed /\ believed' = pick.sel
    BY <1>0, <2>1
  <2>3. CASE slot' = Empty /\ told' = told \cup {slot.of.intent}
    <3>1. EditorTypeOK'
      BY <1>0, <1>1, <2>1, <2>3 DEF EditorInv, EditorTypeOK
    <3>2. ASSUME ~crossed' PROVE InStep'
      BY <1>0, <1>1, <2>2, <2>3, <3>2 DEF EditorInv, InStep, OneIntent, UnderWay
    <3> QED
      BY <3>1, <3>2 DEF EditorInv
  <2>4. CASE /\ slot' = [state |-> "queued", of |-> [check[k].of EXCEPT !.intent = slot.of.intent]]
             /\ told' = told
    <3> DEFINE q == [check[k].of EXCEPT !.intent = slot.of.intent]
    <3>1. q \in Intents /\ q.intent = slot.of.intent /\ q.sel = slot.of.sel
      BY <1>0, <2>1 DEF Intents
    <3> HIDE DEF q
    <3>2. slot' = [state |-> "queued", of |-> q]
      BY <2>4 DEF q
    <3>3. /\ slot' \in [state : {"queued", "unconfirmed"}, of : Intents]
          /\ slot'.of.intent = slot.of.intent /\ slot'.of.sel = slot.of.sel
      BY <3>1, <3>2
    <3>4. EditorTypeOK'
      BY <1>0, <1>1, <2>1, <2>4, <3>3 DEF EditorInv, EditorTypeOK
    <3>5. ASSUME ~crossed' PROVE InStep'
      BY <1>0, <1>1, <2>1, <2>2, <2>4, <3>3, <3>5 DEF EditorInv, InStep, OneIntent, UnderWay
    <3> QED
      BY <3>4, <3>5 DEF EditorInv
  <2> QED
    BY <2>1, <2>3, <2>4
<1> QED
  BY <1>2, <1>3

(* What is held goes out, or is asked about, when the network is back.      *)
LEMMA EditorReconnects ==
    ASSUME EditorInv, BackOnline
    PROVE  EditorInv'
<1>0. UNCHANGED <<slot, told, believed, crossed, offer, card, price, pick, applied, taps>>
  BY DEF BackOnline, screen, server, counts, history
<1>1. CASE slot.state = "queued"
  <2>1. slot # Empty /\ slot.of \in Intents /\ slot.of.intent \in Nat
    BY <1>1, IntentsInHand DEF EditorInv
  <2>2. Goes(slot.of) /\ UNCHANGED check
    BY <1>1 DEF BackOnline
  <2>3. PICK n \in Posts : /\ post' \in [Posts -> {Unsent} \cup Sent] /\ Waiting' = Waiting \cup {n}
                           /\ post'[n].of = slot.of /\ post'[n].answer = "none"
                           /\ n \notin Waiting /\ \A m \in Waiting : post'[m] = post[m]
    BY <2>1, <2>2, ItGoes DEF EditorInv
  <2>4. EditorTypeOK'
    BY <1>0, <2>2, <2>3 DEF EditorInv, EditorTypeOK
  <2>5. ASSUME ~crossed PROVE InStep'
    <3>1. InStep /\ slot.of.intent =< taps
      BY <2>1, <2>5 DEF EditorInv, InStep
    <3>2. applied =< slot.of.intent /\ (slot.of.intent = taps \/ taps \in told)
      <4>1. CASE Waiting = {}
        BY <2>1, <3>1, <4>1 DEF InStep
      <4>2. CASE Waiting # {}
        BY <2>1, <3>1, <4>2 DEF InStep, UnderWay
      <4> QED
        BY <4>1, <4>2
    <3>3. UnderWay(n)'
      BY <1>0, <2>1, <2>3, <3>1, <3>2 DEF UnderWay
    <3>4. \A m \in Waiting : UnderWay(m)' /\ post'[m].of.intent = slot.of.intent /\ post'[m].of.sel = slot.of.sel
      BY <1>0, <2>1, <2>3, <3>1 DEF InStep, UnderWay
    <3>5. OneIntent'
      BY <2>3, <3>4 DEF OneIntent
    <3>6. GrabbedOnItsWay => GrabbedOnItsWay'
      BY <2>3 DEF GrabbedOnItsWay
    <3> QED
      BY <1>0, <2>3, <3>1, <3>3, <3>4, <3>5, <3>6 DEF InStep
  <2> QED
    BY <1>0, <2>4, <2>5 DEF EditorInv
<1>2. CASE slot.state # "queued"
  <2>1. /\ UNCHANGED <<post, crossed>> /\ check' \in [Checks -> {NoCheck} \cup Asked]
    <3>1. CASE slot.state = "unconfirmed"
      <4>1. slot.of \in Intents /\ Reconcile(slot.of) /\ UNCHANGED <<post, crossed>>
        BY <1>0, <3>1, IntentsInHand DEF BackOnline, EditorInv
      <4> QED
        BY <4>1, ItIsReadBack
    <3>2. CASE slot.state # "unconfirmed"
      BY <1>0, <1>2, <3>2 DEF BackOnline, EditorInv, EditorTypeOK
    <3> QED
      BY <3>1, <3>2
  <2> QED
    BY <1>0, <2>1, EditorKeeps DEF EditorInv, EditorTypeOK
<1> QED
  BY <1>1, <1>2

(* The card is read again, and what is held stays held.                     *)
LEMMA EditorReloads ==
    ASSUME EditorInv, Reload
    PROVE  EditorInv'
<1>1. /\ slot' = Empty /\ offer' = NoBody /\ check' = [k \in Checks |-> NoCheck]
      /\ told' = 0..taps /\ believed' = "unknown" /\ card' = [price |-> price, mine |-> pick.sel]
      /\ UNCHANGED <<taps, crossed, price, pick, applied>>
  BY DEF Reload, server
<1> DEFINE late(n) == [post[n] EXCEPT !.at = "late"]
<1>2. \A n \in Posts : post[n].at = "waiting" => late(n) \in Sent /\ late(n).at = "late"
  <2>1. \A n \in Posts : post[n].at = "waiting" => post[n] \in Sent
    BY IntentsInHand DEF EditorInv
  <2> QED
    BY <2>1 DEF Sent
<1>3. post' = [n \in Posts |-> IF post[n].answer # "none" THEN Unsent
                               ELSE IF post[n].at = "waiting" THEN late(n) ELSE post[n]]
  BY DEF Reload
<1> HIDE DEF late
<1>4. post' \in [Posts -> {Unsent} \cup Sent] /\ Waiting' = {}
  BY <1>2, <1>3 DEF Waiting, Unsent, EditorInv, EditorTypeOK
<1>5. EditorTypeOK'
  BY <1>1, <1>4 DEF EditorInv, EditorTypeOK
<1>6. InStep => InStep'
  BY <1>1, <1>4 DEF InStep, OneIntent, EditorInv, EditorTypeOK
<1> QED
  BY <1>1, <1>5, <1>6 DEF EditorInv

(* Every step of the pick screen keeps its invariant.                       *)
LEMMA EditorStays == EditorInv /\ [EditorNext]_editorVars => EditorInv'
<1> SUFFICES ASSUME EditorInv, [EditorNext]_editorVars PROVE EditorInv'
  OBVIOUS
<1>1. CASE UNCHANGED editorVars
  BY <1>1, EditorKeeps DEF editorVars, EditorInv, EditorTypeOK
<1>2. CASE EditorNext
  BY <1>2, EditorSends, EditorReads, EditorIsAnswered, EditorLetsGo, EditorLoses, ItLands, EditorGivesUp,
     EditorConcludes, EditorReconnects, EditorReloads DEF EditorNext
<1> QED
  BY <1>1, <1>2

(* The newest intent wins and nobody is left in the dark, for any number of *)
(* decisions, requests, read-backs and dropped connections, unless requests *)
(* crossed (submit, onReconnect, reconcile).                                *)
THEOREM NewestIntentStands == EditorSpec => []NewestIntentWins
<1>1. EditorInv => NewestIntentWins
  <2> SUFFICES ASSUME EditorInv, ~crossed PROVE NewestIntentWins
    BY DEF NewestIntentWins
  <2>1. InStep
    BY DEF EditorInv
  <2>2. taps \in told \cup {slot.of.intent} \cup {post[n].of.intent : n \in Waiting}
    BY <2>1 DEF InStep, UnderWay
  <2>3. Waiting = {} => believed \in {"unknown", pick.sel}
    BY <2>1 DEF InStep, GrabbedOnItsWay
  <2> QED
    BY <2>1, <2>2, <2>3 DEF NewestIntentWins, InStep
<1> QED
  BY <1>1, EditorStarts, EditorStays, PTL DEF EditorSpec
=============================================================================
