----------------------------- MODULE MCServices -----------------------------
(* Who is in the league, the accounts, the odds cache, the football data,   *)
(* its matches and a member's pick screen side by side: each behaviour      *)
(* narrows to one of them and to the cases it is about, so the state spaces *)
(* add up instead of multiplying.                                           *)
EXTENDS Membership, Accounts, OddsCache, FootballData, Matches, PickEditor

VARIABLE about  \* what this behaviour is about

(* The rows of refresh_tokens are made in order.                            *)
MadeInOrder ==
    \A s, t \in Sessions : s < t /\ session'[t] # NotMinted => session'[s] # NotMinted

(* Two divisions of two and three clubs: the clubs of the first have names  *)
(* that are alike, and the odds source spells one of them "at".             *)
TheDivisionOf == [c \in Clubs |-> IF c \in {"cov", "der"} THEN "two" ELSE "one"]
TheSideOf == <<<<"ath", "bor">>, <<"atr", "bor">>, <<"cov", "der">>>>
TheNameOf == [c \in Clubs |-> c]
TheLikeness ==
    [n \in Spellings |-> [m \in Spellings |->
        CASE n = m -> 100
          [] {n, m} = {"ath", "atr"} -> 84
          [] {n, m} = {"at", "ath"} -> 92
          [] {n, m} = {"at", "atr"} -> 98
          [] OTHER -> 10]]
Leg(d, h, a) == [division |-> d, home |-> h, away |-> a, day |-> 1]
TheLegOf == [l \in Legs |-> IF l = "l1" THEN Leg("one", "at", "bor") ELSE Leg("two", "cov", "der")]
TheGameOf == [l \in Legs |-> IF l = "l1" THEN 1 ELSE 3]

NotDrawn == [state |-> "undrawn", day |-> 1, goals |-> NoGoals]

LeagueCases == {"one request", "two requests"}
AccountCases == {"pins", "locks"}
OddsCases == {"marker", "budget"}
FootballCases == {"sweep", "cross-check"}
MatchCases == {"race", "legs", "names"}
EditorCases == {"network", "price"}

ServicesInit ==
    /\ MembershipInit /\ AccountsInit /\ OddsInit /\ FootballInit /\ MatchesInit /\ EditorInit
    /\ about \in LeagueCases \cup AccountCases \cup OddsCases \cup FootballCases \cup MatchCases
                 \cup EditorCases
    /\ about \in LeagueCases \/ (privacy = "private" /\ cap = 2 /\ Admins = SiteAdmins)
    /\ about = "two requests" => privacy # "public_request"
    /\ CASE about = "marker" -> market[LastEvent] = "price"
         [] about = "budget" -> \A e \in Events : market[e] = IF e = 1 THEN "gone" ELSE "price"
         [] OTHER -> \A e \in Events : market[e] = "price"
    /\ about # "legs" => \A g \in Games : actual[g].day = 1
    /\ about # "names" => actual[1].state = "scheduled" /\ actual[3] = NotDrawn
    /\ about = "legs" => actual[2].state = "scheduled"
    /\ about \notin {"legs", "names"} => actual[2] = NotDrawn

Busy == {p \in People : call[p].op # "none"}

LeagueStep ==
    /\ about \in LeagueCases
    /\ Serves \/ ((about = "one request" => Busy = {}) /\ Requests)
    /\ about = "one request" =>
           /\ invite' = invite
           /\ Cardinality(crowded') < 2 /\ Cardinality(gone') < 2
    /\ about = "two requests" =>
           /\ Cardinality(Busy') =< 2 /\ gone' = {}
           /\ \A p \in People : call'[p].op \in {"none", "enter", "claim", "revoke", "leave",
                                                  "remove", "promote"}
    /\ UNCHANGED <<accountVars, oddsVars, footballVars, matchesVars, editorVars>>

AccountStep ==
    /\ about \in AccountCases
    /\ AccountsNext /\ MadeInOrder
    /\ about = "pins" => /\ pins' + resets' < 3 /\ newest' # "lapsed"
                         /\ \A c \in Clients : client'[c].at # "charge"
    /\ about = "locks" => /\ session' = session
                          /\ wrong' =< MaxAttempts + 1 /\ failed' =< MaxAttempts + 1
    /\ UNCHANGED <<leagueVars, oddsVars, footballVars, matchesVars, editorVars>>

OddsStep ==
    /\ about \in OddsCases
    /\ OddsNext
    /\ about = "marker" =>
           /\ charged' = 0 /\ (carded > 0 => carded' = 0) /\ holdOff' \subseteq {"rate limited"}
           /\ \A e \in Events : entry'[e].age = "fresh" /\ market'[e] \in {market[e], "gone"}
           /\ market'[LastEvent] = "price"
           /\ Cardinality({c \in Callers : caller'[c].at \in {"waits", "refill"}}) < 2
    /\ about = "budget" =>
           /\ market' = market /\ due' = {} /\ charged' =< 1 /\ holdOff' \subseteq {"refused"}
           /\ \A c \in Callers : caller'[c].card \/ caller'[c].wanted \subseteq {LastEvent}
           /\ \/ \A c \in Callers : caller[c] = NoCall
              \/ \A e \in Events : entry'[e].age \in {entry[e].age, "fresh"}
    /\ UNCHANGED <<leagueVars, accountVars, footballVars, matchesVars, editorVars>>

FootballStep ==
    /\ about \in FootballCases
    /\ FootballNext
    /\ about = "sweep" =>
           /\ listing' = listing /\ voided' = voided /\ (sweep.runs => pooled' = pooled)
           /\ \A c \in Competitions : memo[c] # "none" => memo'[c] # "none"
    /\ about = "cross-check" =>
           /\ pooled' = pooled /\ older' = older /\ sweep' = sweep
           /\ \A c \in Competitions \ {1} : listing'[c] = "today" /\ memo'[c] = "none"
    /\ UNCHANGED <<leagueVars, accountVars, oddsVars, matchesVars, editorVars>>

MatchStep ==
    /\ about \in MatchCases
    /\ MatchesNext
    /\ about = "race" =>
           /\ \A g \in Games \ {1} : actual'[g] = actual[g]
           /\ actual'[1].day = 1
           /\ \A j \in Jobs : job'[j].todo \subseteq {"one"}
    /\ about = "legs" =>
           /\ \A g \in Games : actual'[g].state \notin {"postponed", "cancelled"} /\ actual'[g].goals < 1
           /\ actual'[3] = NotDrawn
           /\ actual' # actual => \A j \in Jobs : job[j] = NoJob
           /\ job'["poll"] = NoJob
           /\ recalled' = NoMemo => recalled = NoMemo \/ job["sweep"] = NoJob
           /\ Cardinality(job'["sweep"].todo) < 2
           /\ job["sweep"].at \in {"reads", "writes"} => job'["sweep"] # NoJob
    /\ about = "names" =>
           /\ \A g \in Games : actual'[g].state \in {"undrawn", "scheduled"}
           /\ job'["poll"] = NoJob
    /\ UNCHANGED <<leagueVars, accountVars, oddsVars, footballVars, editorVars>>

(* Nothing is claimed of requests that crossed, and nothing follows them.   *)
EditorStep ==
    /\ about \in EditorCases
    /\ ~crossed /\ EditorNext
    /\ about = "network" => price' = price /\ (card' = card \/ drops' # drops)
    /\ about = "price" => /\ drops' = 0 /\ price'["b"] = 1
                          /\ \A n \in Posts : post'[n].at # "late"
    /\ UNCHANGED <<leagueVars, accountVars, oddsVars, footballVars, matchesVars>>

ServicesNext ==
    /\ LeagueStep \/ AccountStep \/ OddsStep \/ FootballStep \/ MatchStep \/ EditorStep
    /\ UNCHANGED about
ServicesSpec ==
    ServicesInit /\ [][ServicesNext]_<<leagueVars, accountVars, oddsVars, footballVars, matchesVars,
                                      editorVars, about>>
=============================================================================
