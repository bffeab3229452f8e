----------------------------- MODULE PickEditor -----------------------------
(* One member's pick screen against the server: a tap becomes a submission  *)
(* that is answered, refused, never sent or never answered.  The device     *)
(* holds at most one intent the server has not confirmed; coming back       *)
(* online sends it if it never left and reads the pick back if it may have  *)
(* landed.                                                                  *)
EXTENDS Integers, FiniteSets

CONSTANTS
    Selections,  \* what the member may grab
    MaxPosts,    \* bound: submissions under way at once
    MaxChecks,   \* bound: read-backs under way at once
    MaxTaps,     \* bound: decisions the member takes
    MaxPrice,    \* bound: prices of a selection
    MaxDrops     \* bound: losses of the network, and reloads of the page

ASSUME EditorAssumption ==
    {MaxPosts, MaxChecks, MaxTaps, MaxPrice, MaxDrops} \subseteq Nat

VARIABLES
    online,    \* navigator.onLine
    slot,      \* the intent held: its state and its request
    post,      \* post[n]: a submission until nothing more will come of it
    latest,    \* the submission the mutation is of
    check,     \* check[k]: a read-back, what it is about and what it saw
    offer,     \* the request of the toast that offers the moved price
    card,      \* what the card shows: prices, and the member's own selection
    price,     \* the provider's prices
    pick,      \* the member's pick at the server
    taps,      \* decisions so far; an intent is its decision's number
    drops,     \* losses and reloads so far
    applied,   \* (history) the newest intent that was ever the pick
    told,      \* (history) intents the member was answered about, or let go
    believed,  \* (history) the selection the member was last told is theirs
    crossed    \* (history) requests crossed: see MayCross, TakeMovedPrice, Lands and Concludes

editorVars == <<online, slot, post, latest, check, offer, card, price, pick, taps, drops,
                applied, told, believed, crossed>>
screen == <<offer, card>>
server == <<price, pick, applied>>
counts == <<taps, drops>>
history == <<told, believed, crossed>>

Posts == 1..MaxPosts
Checks == 1..MaxChecks

(* agreed: the price the member said yes to; odds: the one in the body.     *)
NoBody == [sel |-> "none", odds |-> 0, agreed |-> 0, intent |-> 0]
Empty == [state |-> "none", of |-> NoBody]
Unsent == [at |-> "free", of |-> NoBody, answer |-> "none", quoted |-> 0]
NoCheck == [at |-> "idle", of |-> NoBody, saw |-> "none"]

Waiting == {n \in Posts : post[n].at = "waiting"}
Submitting == latest \in Waiting

EditorInit ==
    /\ online = TRUE /\ slot = Empty /\ latest = 0
    /\ post = [n \in Posts |-> Unsent]
    /\ check = [k \in Checks |-> NoCheck]
    /\ offer = NoBody
    /\ price = [s \in Selections |-> 1] /\ card = [price |-> price, mine |-> "none"]
    /\ pick = [sel |-> "none", intent |-> 0]
    /\ taps = 0 /\ drops = 0
    /\ applied = 0 /\ told = {0} /\ believed = "none" /\ crossed = FALSE

----------------------------------------------------------------------------
(* Sending.  Offline, nothing is sent and the request is queued; otherwise  *)
(* it leaves, and the slot keeps what it is given to keep.                  *)

Goes(r) ==
    \E n \in Posts :
        /\ post[n] = Unsent /\ \A m \in Posts : post[m] = Unsent => n =< m
        /\ post' = [post EXCEPT ![n] = [Unsent EXCEPT !.at = "waiting", !.of = r]]
        /\ latest' = n

Send(r, kept) ==
    /\ \/ online /\ Goes(r) /\ slot' = kept
       \/ ~online /\ slot' = [state |-> "queued", of |-> r] /\ latest' = 0 /\ UNCHANGED post

(* A request that is sent may cross those on their way.                     *)
MayCross == crossed' = (crossed \/ Waiting # {})

Decide(r) == [r EXCEPT !.intent = taps + 1]
Decides == taps < MaxTaps /\ taps' = taps + 1

(* Mutant: the older intent survives the newer one's submission.            *)
Survives == slot
(* A newer selection supersedes whatever was held.                          *)
Superseded == Empty

Submit(s) ==
    /\ ~Submitting /\ card.mine # s
    /\ Decides
    /\ Send([sel |-> s, odds |-> card.price[s], agreed |-> card.price[s], intent |-> taps + 1],
            Superseded)
    /\ MayCross
    /\ UNCHANGED <<online, check, drops, told, believed, screen, server>>

(* The toast's button sends the refused request again, as it was, and       *)
(* leaves what is held where it is.                                         *)
TakeMovedPrice ==
    /\ offer # NoBody
    /\ Decides
    /\ Send(Decide(offer), slot)
    /\ crossed' = (crossed \/ Waiting # {} \/ (slot' # Empty /\ slot'.of.intent # taps'))
    /\ offer' = NoBody
    /\ UNCHANGED <<online, check, card, drops, told, believed, server>>

SendNow ==
    /\ slot.state = "queued"
    /\ Decides
    /\ Send(Decide(slot.of), [slot EXCEPT !.of = Decide(@)])
    /\ MayCross
    /\ UNCHANGED <<online, check, drops, told, believed, screen, server>>

(* reconcile: the round's pick is read back.                                *)
Reconcile(r) ==
    \E k \in Checks :
        /\ check[k] = NoCheck /\ \A j \in Checks : check[j] = NoCheck => k =< j
        /\ check' = [check EXCEPT ![k] = [NoCheck EXCEPT !.at = "asking", !.of = r]]

CheckNow ==
    /\ slot.state = "unconfirmed"
    /\ Reconcile(slot.of)
    /\ UNCHANGED <<online, slot, post, latest, screen, server, history, counts>>

Discard ==
    /\ slot # Empty
    /\ slot' = Empty /\ told' = told \cup {slot.of.intent}
    /\ UNCHANGED <<online, post, latest, check, believed, crossed, screen, server, counts>>

----------------------------------------------------------------------------
(* The server.  A request nobody waits for any more may still arrive.       *)

Lands(n) ==
    /\ post[n].at \in {"waiting", "late"} /\ post[n].answer = "none"
    /\ LET r == post[n].of
           Says(answer) ==
               post' = [post EXCEPT ![n] =
                   IF @.at = "late" THEN Unsent
                   ELSE [@ EXCEPT !.answer = answer, !.quoted = price[r.sel]]]
       IN
       \/ /\ r.odds = price[r.sel]
          /\ Says("grabbed")
          /\ pick' = [sel |-> r.sel, intent |-> r.intent]
          /\ applied' = IF r.intent > applied THEN r.intent ELSE applied
          /\ crossed' = (crossed \/ post[n].at = "late")
       \/ r.odds # price[r.sel] /\ Says("moved") /\ UNCHANGED <<pick, applied, crossed>>
       \/ Says("refused") /\ UNCHANGED <<pick, applied, crossed>>
    /\ UNCHANGED <<online, slot, latest, check, price, told, believed, screen, counts>>

IsLost(n) ==
    /\ post[n].at = "late"
    /\ post' = [post EXCEPT ![n] = Unsent]
    /\ UNCHANGED <<online, slot, latest, check, screen, server, history, counts>>

PriceMoves(s) ==
    /\ price[s] < MaxPrice /\ price' = [price EXCEPT ![s] = @ + 1]
    /\ UNCHANGED <<online, slot, post, latest, check, pick, applied, screen, history, counts>>

CardRefreshes ==
    /\ online /\ card' = [price |-> price, mine |-> pick.sel]
    /\ UNCHANGED <<online, slot, post, latest, check, offer, server, history, counts>>

----------------------------------------------------------------------------
(* What comes back, or does not                                             *)

Succeeds(n) ==
    /\ post[n].at = "waiting" /\ post[n].answer = "grabbed"
    /\ slot' = Empty /\ post' = [post EXCEPT ![n] = Unsent]
    /\ told' = told \cup {post[n].of.intent} /\ believed' = post[n].of.sel
    /\ UNCHANGED <<online, latest, check, crossed, screen, server, counts>>

IsRefused(n) ==
    /\ post[n].at = "waiting" /\ post[n].answer \in {"refused", "moved"}
    /\ slot' = Empty /\ post' = [post EXCEPT ![n] = Unsent]
    /\ offer' = IF post[n].answer = "moved"
                THEN [post[n].of EXCEPT !.agreed = post[n].quoted] ELSE offer
    /\ told' = told \cup {post[n].of.intent}
    /\ UNCHANGED <<online, latest, check, card, believed, crossed, server, counts>>

(* Twelve seconds, or a dropped connection.                                 *)
GivesUp(n) ==
    /\ post[n].at = "waiting"
    /\ post' = [post EXCEPT ![n] = IF @.answer = "none" THEN [@ EXCEPT !.at = "late"] ELSE Unsent]
    /\ slot' = [state |-> "unconfirmed", of |-> post[n].of]
    /\ Reconcile(post[n].of)
    /\ believed' = "unknown"
    /\ UNCHANGED <<online, latest, told, crossed, screen, server, counts>>

ReadsBack(k) ==
    /\ check[k].at = "asking" /\ online
    /\ check' = [check EXCEPT ![k].at = "answered", ![k].saw = pick.sel]
    /\ UNCHANGED <<online, slot, post, latest, screen, server, history, counts>>

CheckFails(k) ==
    /\ check[k] # NoCheck
    /\ check' = [check EXCEPT ![k] = NoCheck]
    /\ UNCHANGED <<online, slot, post, latest, screen, server, history, counts>>

(* The member moved on unless what is held is what was asked about.         *)
IsAboutHeld(k) == slot # Empty /\ slot.of.sel = check[k].of.sel

Concludes(k) ==
    /\ check[k].at = "answered"
    /\ check' = [check EXCEPT ![k] = NoCheck]
    /\ IF ~IsAboutHeld(k) THEN UNCHANGED <<slot, history>>
       ELSE /\ believed' = check[k].saw
            /\ crossed' = (crossed \/ check[k].saw # pick.sel)
            /\ IF check[k].saw = check[k].of.sel
               THEN slot' = Empty /\ told' = told \cup {slot.of.intent}
               ELSE /\ slot' = [state |-> "queued",
                                of |-> [check[k].of EXCEPT !.intent = slot.of.intent]]
                    /\ UNCHANGED told
    /\ UNCHANGED <<online, post, latest, screen, server, counts>>

----------------------------------------------------------------------------
(* The network and the page                                                 *)

GoesOffline ==
    /\ online /\ drops < MaxDrops
    /\ online' = FALSE /\ drops' = drops + 1
    /\ UNCHANGED <<slot, post, latest, check, taps, screen, server, history>>

(* The online event.  The slot keeps the intent that is sent.               *)
BackOnline ==
    /\ ~online /\ online' = TRUE
    /\ CASE slot.state = "queued" ->
              /\ Goes(slot.of)
              /\ UNCHANGED check
         [] slot.state = "unconfirmed" -> Reconcile(slot.of) /\ UNCHANGED <<post, latest>>
         [] OTHER -> UNCHANGED <<post, latest, check>>
    /\ UNCHANGED <<slot, screen, server, history, counts>>

(* What the page holds is held in memory only.                              *)
Reload ==
    /\ drops < MaxDrops /\ drops' = drops + 1
    /\ slot' = Empty /\ latest' = 0 /\ offer' = NoBody
    /\ check' = [k \in Checks |-> NoCheck]
    /\ post' = [n \in Posts |->
                   IF post[n].answer # "none" THEN Unsent
                   ELSE IF post[n].at = "waiting" THEN [post[n] EXCEPT !.at = "late"] ELSE post[n]]
    /\ told' = 0..taps /\ believed' = "unknown"
    /\ card' = [price |-> price, mine |-> pick.sel]
    /\ UNCHANGED <<online, taps, crossed, server>>

EditorNext ==
    \/ \E s \in Selections : Submit(s) \/ PriceMoves(s)
    \/ TakeMovedPrice \/ SendNow \/ CheckNow \/ Discard
    \/ CardRefreshes \/ GoesOffline \/ BackOnline \/ Reload
    \/ \E n \in Posts : Lands(n) \/ IsLost(n) \/ Succeeds(n) \/ IsRefused(n) \/ GivesUp(n)
    \/ \E k \in Checks : ReadsBack(k) \/ CheckFails(k) \/ Concludes(k)

EditorSpec == EditorInit /\ [][EditorNext]_editorVars
----------------------------------------------------------------------------
(* The newest intent wins and nobody is left in the dark: unless requests   *)
(* crossed, an older decision never replaces a newer one at the server, the *)
(* member's last decision is under way, held for them or answered, and what *)
(* they were last told is theirs is theirs, whatever the network does and   *)
(* whenever it comes back (submit, onReconnect, reconcile).                 *)
NewestIntentWins == ~crossed =>
    /\ pick.intent = applied
    /\ taps \in told \cup {slot.of.intent} \cup {post[n].of.intent : n \in Waiting}
    /\ Waiting = {} => believed \in {"unknown", pick.sel}

(* "Taking it is one tap": a member who took the price the refusal named is *)
(* not refused for that very price (usePickEditor.ts:79, actionFor).        *)
MovedPriceIsTaken ==
    \A n \in Posts : post[n].answer = "moved" => post[n].quoted # post[n].of.agreed
=============================================================================
