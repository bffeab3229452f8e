---------------------------- MODULE People_proofs ----------------------------
(* What the memberships and the accounts keep, for any number of people,    *)
(* requests, invites, tokens and PINs.  The two share no state: first the   *)
(* leagues, then the accounts.                                              *)
EXTENDS Membership, Accounts, FiniteSetTheorems, TLAPS

(* An invite lets one person in, whatever runs beside its redemption; and a *)
(* league that is served one request at a time keeps an admin and its cap,  *)
(* for any number of people, invites and limits.                            *)
(*                                                                          *)
(* InviteAdmitsOne needs to know that one person redeems at a time and that *)
(* the invite is still active while they do, which the rows they hold see   *)
(* to.  ServedSinglyKeepsTheRules needs to know that what a request checked *)
(* is still true when it commits, unless another one was in between.        *)

Requested == [op: Ops \cup {"none"}, on: Subjects, size: Caps \cup {0}, had: BOOLEAN]
MemberRows == [role: {"admin", "player"}, in: BOOLEAN, made: BOOLEAN]

Self == {"enter", "ask", "leave", "erase"}
OfAMember == {"approve", "reject", "promote", "demote", "remove", "delete"}

(* A request is about what its operation is for.                            *)
Aimed ==
    \A p \in People :
        /\ call[p].op \in Self => call[p].on = p
        /\ call[p].op \in OfAMember => call[p].on \in People
        /\ call[p].op \in {"claim", "revoke"} => call[p].on \in Invites
        /\ call[p].op = "set privacy" => call[p].on \in Privacies
        /\ call[p].op = "set cap" => call[p].size \in Caps

(* One person redeems at a time, an invite that is active, and an invite is *)
(* spent by the one it let in.                                              *)
Redeemed ==
    /\ \A p, q \in People : call[p].op = "claim" /\ call[q].op = "claim" => p = q
    /\ \A p \in People : call[p].op = "claim" => invite[call[p].on] = "active"
    /\ \A i \in Invites :
          /\ invite[i] # "spent" => claimant[i] = None /\ admitted[i] = 0
          /\ invite[i] = "spent" =>
                claimant[i] \in People /\ admitted[i] = 1 /\ row[claimant[i]].made

(* What a request checked.                                                  *)
Checked(p) ==
    /\ call[p].op \in {"leave", "demote"} => KeepsAnAdmin(call[p].on)
    /\ call[p].op = "remove" => call[p].on \notin Admins
    /\ call[p].op \in {"enter", "claim", "approve"} => HasRoom
    /\ call[p].op = "set cap" => call[p].size >= Cardinality(In)

Alone ==
    "overlap" \notin crowded =>
        /\ \A p, q \in People : call[p] # NoRequest /\ call[q] # NoRequest => p = q
        /\ \A p \in People : Checked(p)

LeagueInv ==
    /\ MembershipTypeOK /\ Aimed /\ Redeemed
    /\ Alone /\ ServedSinglyKeepsTheRules

----------------------------------------------------------------------------
(* How the rows move                                                        *)

LEMMA Counts ==
    ASSUME MembershipTypeOK
    PROVE  /\ IsFiniteSet(In) /\ Cardinality(In) \in Nat
           /\ IsFiniteSet(Admins) /\ Cardinality(Admins) \in Nat
           /\ cap \in Nat
    <1>1. In \in SUBSET People /\ Admins \in SUBSET People
        BY DEF In, Admins
    <1> QED BY <1>1, MembershipAssumption, FS_Subset, FS_CardinalityType DEF MembershipTypeOK

(* Those let in come on top, as players: no admin's row is among theirs     *)
(* unless they were in.                                                     *)
LEMMA LetIn ==
    ASSUME MembershipTypeOK, NEW S \in SUBSET People, row' = Restored(S)
    PROVE  /\ row' \in [People -> MemberRows]
           /\ \A p \in People : row[p].made => row'[p].made
           /\ \A p \in S : row'[p].made
           /\ In' = In \cup S
           /\ S \cap In = {} => Admins' = Admins
           /\ \A p \in People : S = {p} /\ HasRoom => Cardinality(In') =< cap
    <1>1. \A p \in S : row'[p] = [role |-> "player", in |-> TRUE, made |-> TRUE]
        BY DEF Restored
    <1>2. \A p \in People \ S : row'[p] = row[p]
        BY DEF Restored
    <1>3. row' \in [People -> MemberRows]
        BY DEF MembershipTypeOK, Restored, MemberRows
    <1>4. In' = In \cup S
        BY <1>1, <1>2 DEF In
    <1>5. ASSUME S \cap In = {} PROVE Admins' = Admins
        <2>1. \A p \in In : row'[p] = row[p]
            BY <1>2, <1>5 DEF In
        <2>2. \A p \in S : row'[p].role # "admin"
            BY <1>1
        <2> QED BY <1>4, <2>1, <2>2 DEF Admins
    <1>6. ASSUME NEW p \in People, S = {p}, HasRoom PROVE Cardinality(In') =< cap
        <2>1. In' = In \cup {p}
            BY <1>4, <1>6
        <2>2. /\ IsFiniteSet(In \cup {p})
              /\ Cardinality(In \cup {p}) \in {Cardinality(In), Cardinality(In) + 1}
            BY Counts, FS_AddElement
        <2> QED BY <1>6, <2>1, <2>2, Counts DEF HasRoom
    <1> QED BY <1>1, <1>2, <1>3, <1>4, <1>5, <1>6

LEMMA TakenOut ==
    ASSUME MembershipTypeOK, NEW p \in People, row' = [row EXCEPT ![p].in = FALSE]
    PROVE  /\ row' \in [People -> MemberRows]
           /\ \A q \in People : row[q].made => row'[q].made
           /\ In' = In \ {p} /\ Admins' = Admins \ {p}
           /\ Cardinality(In') =< Cardinality(In)
    <1>1. row'[p] = [row[p] EXCEPT !.in = FALSE] /\ row[p] \in MemberRows
        BY DEF MembershipTypeOK, MemberRows
    <1>2. \A q \in People \ {p} : row'[q] = row[q]
        BY DEF MembershipTypeOK
    <1>3. row' \in [People -> MemberRows]
        <2>1. row'[p] \in MemberRows
            BY <1>1 DEF MemberRows
        <2>2. \A q \in People : row[q] \in MemberRows
            BY DEF MembershipTypeOK, MemberRows
        <2>3. \A q \in People : row'[q] \in MemberRows
            BY <1>2, <2>1, <2>2
        <2>4. row' = [q \in People |-> row'[q]]
            BY DEF MembershipTypeOK
        <2> QED BY <2>3, <2>4
    <1>4. ~row'[p].in /\ row'[p].made = row[p].made
        BY <1>1 DEF MemberRows
    <1>5. In' = In \ {p}
        BY <1>2, <1>4 DEF In
    <1>6. Admins' = Admins \ {p}
        BY <1>2, <1>5 DEF Admins, In
    <1>7. Cardinality(In') =< Cardinality(In)
        BY <1>5, Counts, FS_Subset
    <1> QED BY <1>2, <1>3, <1>4, <1>5, <1>6, <1>7

LEMMA RoleSet ==
    ASSUME MembershipTypeOK, NEW p \in People, NEW r \in {"admin", "player"},
           row' = [row EXCEPT ![p].role = r]
    PROVE  /\ row' \in [People -> MemberRows]
           /\ \A q \in People : row[q].made => row'[q].made
           /\ In' = In
           /\ r = "player" => Admins' = Admins \ {p}
           /\ r = "admin" => Admins \subseteq Admins'
    BY DEF MembershipTypeOK, MemberRows, In, Admins

(* Last-admin protection does what it is for.                               *)
LEMMA AnotherAdmin ==
    ASSUME MembershipTypeOK, NEW p \in People, KeepsAnAdmin(p), Admins # {}
    PROVE  Admins \ {p} # {}
    <1>1. CASE p \notin Admins
        BY <1>1
    <1>2. CASE p \in Admins
        <2>1. Cardinality(Admins) > 1
            BY <1>2 DEF KeepsAnAdmin, Admins
        <2>2. Cardinality(Admins \ {p}) = Cardinality(Admins) - 1
            BY <1>2, Counts, FS_RemoveElement
        <2>3. Cardinality({}) = 0
            BY FS_EmptySet
        <2> QED BY <2>1, <2>2, <2>3, Counts
    <1> QED BY <1>1, <1>2

----------------------------------------------------------------------------
(* The invariant                                                            *)

LEMMA LeagueStep ==
    LeagueInv /\ [MembershipNext]_leagueVars => LeagueInv'
    <1> SUFFICES ASSUME LeagueInv, [MembershipNext]_leagueVars PROVE LeagueInv'
        OBVIOUS
    <1>1. ASSUME NEW p \in People, call[p] = NoRequest, NEW op \in Ops, NEW on \in Subjects,
                 NEW size \in IF op = "set cap" THEN Caps ELSE {0}, Check(p, op, on, size)
          PROVE  LeagueInv'
        <2> DEFINE req == [op |-> op, on |-> on, size |-> size, had |-> Had(op, p, on)]
        <2>1. /\ Allowed(p, op, on, size)
              /\ call' = [call EXCEPT ![p] = req]
              /\ UNCHANGED <<privacy, cap, row, gone, pending, invite, claimant, admitted>>
            BY <1>1 DEF Check, settings, tokens
        <2>2. /\ call'[p] = req
              /\ \A q \in People : q # p => call'[q] = call[q]
            BY <2>1 DEF LeagueInv, MembershipTypeOK
        <2> HIDE DEF req
        <2>r. req.op = op /\ req.on = on /\ req.size = size
            BY DEF req
        <2>3. crowded \subseteq crowded' /\ crowded' \subseteq {"overlap", "unheeded", "opened"}
            BY <1>1 DEF Check, LeagueInv, MembershipTypeOK
        <2>4. In' = In /\ Admins' = Admins
            BY <2>1 DEF In, Admins
        <2>5. on \in People => row[on].made \in BOOLEAN
            BY DEF LeagueInv, MembershipTypeOK
        <2>6. op = "approve" => on \in People
            BY <2>1 DEF Allowed, ForOneself, OnAMember, OnAnInvite
        <2>7. MembershipTypeOK'
            <3>1. Had(op, p, on) \in BOOLEAN
                BY <2>5, <2>6 DEF Had
            <3>2. req \in Requested
                BY <3>1 DEF Requested, req
            <3>3. call' \in [People -> Requested]
                BY <2>1, <3>2 DEF LeagueInv, MembershipTypeOK, Requested
            <3> QED BY <2>1, <2>3, <3>3 DEF LeagueInv, MembershipTypeOK, Requested
        <2>8. Aimed'
            <3>1. /\ op \in Self => on = p
                  /\ op \in OfAMember => on \in People
                  /\ op \in {"claim", "revoke"} => on \in Invites
                  /\ op = "set privacy" => on \in Privacies
                  /\ op = "set cap" => size \in Caps
                BY <2>1 DEF Allowed, ForOneself, OnAMember, OnAnInvite, Self, OfAMember, Profiles
            <3> SUFFICES ASSUME NEW q \in People
                         PROVE  /\ call'[q].op \in Self => call'[q].on = q
                                /\ call'[q].op \in OfAMember => call'[q].on \in People
                                /\ call'[q].op \in {"claim", "revoke"} => call'[q].on \in Invites
                                /\ call'[q].op = "set privacy" => call'[q].on \in Privacies
                                /\ call'[q].op = "set cap" => call'[q].size \in Caps
                BY DEF Aimed
            <3>2. CASE q = p
                BY <2>2, <2>r, <3>1, <3>2
            <3>3. CASE q # p
                BY <2>2, <3>3 DEF LeagueInv, Aimed
            <3> QED BY <3>2, <3>3
        <2>9. Redeemed'
            <3>1. op = "claim" =>
                      /\ \A q \in People : call[q].op # "claim"
                      /\ invite[on] = "active"
                BY <2>1 DEF Allowed, ForOneself, OnAMember, OnAnInvite, MayRedeem, Redeemable,
                            Redeeming
            <3>2. ASSUME NEW q \in People, NEW r \in People, call'[q].op = "claim",
                         call'[r].op = "claim"
                  PROVE  q = r
                BY <2>2, <2>r, <3>1, <3>2 DEF LeagueInv, Redeemed
            <3>3. ASSUME NEW q \in People, call'[q].op = "claim"
                  PROVE  invite[call'[q].on] = "active"
                BY <2>2, <2>r, <3>1, <3>3 DEF LeagueInv, Redeemed
            <3> QED BY <2>1, <3>2, <3>3 DEF LeagueInv, Redeemed
        <2>10. Alone'
            <3> SUFFICES ASSUME "overlap" \notin crowded'
                         PROVE  /\ \A q \in People : q # p => call'[q] = NoRequest
                                /\ \A q \in People : Checked(q)'
                BY DEF Alone
            <3>1. \A q \in People : q # p => call'[q] = NoRequest
                BY <1>1, <2>2 DEF Check
            <3>2. /\ op \in {"leave", "demote"} => KeepsAnAdmin(on)
                  /\ op = "remove" => on \notin Admins
                  /\ op \in {"enter", "claim", "approve"} => HasRoom
                  /\ op = "set cap" => size >= Cardinality(In)
                BY <2>1 DEF Allowed, ForOneself, OnAMember, OnAnInvite, MayRedeem, Redeemable
            <3>3. /\ call'[p].op = op /\ call'[p].on = on /\ call'[p].size = size
                BY <2>2, <2>r
            <3>4. Checked(p)'
                BY <2>1, <2>4, <3>2, <3>3 DEF Checked, KeepsAnAdmin, HasRoom
            <3>5. NoRequest.op = "none"
                BY DEF NoRequest
            <3>6. ASSUME NEW q \in People, q # p PROVE Checked(q)'
                BY <3>1, <3>5, <3>6 DEF Checked
            <3> QED BY <3>1, <3>4, <3>6
        <2>11. ServedSinglyKeepsTheRules'
            BY <2>1, <2>3, <2>4 DEF LeagueInv, ServedSinglyKeepsTheRules
        <2> QED BY <2>7, <2>8, <2>9, <2>10, <2>11 DEF LeagueInv
    <1>2. ASSUME NEW p \in People, Commit(p)
          PROVE  LeagueInv'
        <2> DEFINE Rest ==
                /\ privacy' \in Privacies /\ cap' \in Caps
                /\ row' \in [People -> MemberRows]
                /\ gone' \subseteq People /\ pending' \subseteq People
                /\ crowded \subseteq crowded'
                /\ crowded' \subseteq {"overlap", "unheeded", "opened"}
                /\ \A q \in People : row[q].made => row'[q].made
                /\ ServedSinglyKeepsTheRules'
        <2>1. /\ call' = [call EXCEPT ![p] = NoRequest]
              /\ call[p].op \in Ops
            BY <1>2 DEF Commit, Enter, Ask, Claim, Approve, Reject, Leave, SetRole, Remove,
                        SetPrivacy, SetCap, Revoke, DeleteProfile, Ops
        <2>n. NoRequest.op = "none" /\ "none" \notin Ops
            BY DEF NoRequest, Ops
        <2>2. /\ call'[p] = NoRequest
              /\ call'[p].op = "none"
              /\ \A q \in People : q # p => call'[q] = call[q]
              /\ call[p] # NoRequest
            BY <2>1, <2>n DEF LeagueInv, MembershipTypeOK
        <2>3. call' \in [People -> Requested]
            <3>1. NoRequest \in Requested
                BY DEF NoRequest, Requested, Subjects
            <3> QED BY <2>1, <3>1 DEF LeagueInv, MembershipTypeOK, Requested
        <2>4. Aimed'
            <3> SUFFICES ASSUME NEW q \in People
                         PROVE  /\ call'[q].op \in Self => call'[q].on = q
                                /\ call'[q].op \in OfAMember => call'[q].on \in People
                                /\ call'[q].op \in {"claim", "revoke"} => call'[q].on \in Invites
                                /\ call'[q].op = "set privacy" => call'[q].on \in Privacies
                                /\ call'[q].op = "set cap" => call'[q].size \in Caps
                BY DEF Aimed
            <3>1. CASE q = p
                BY <2>2, <3>1 DEF Self, OfAMember
            <3>2. CASE q # p
                BY <2>2, <3>2 DEF LeagueInv, Aimed
            <3> QED BY <3>1, <3>2
        <2>5. "overlap" \notin crowded => Checked(p)
            BY DEF LeagueInv, Alone
        <2>6. ASSUME crowded \subseteq crowded' PROVE Alone'
            <3> SUFFICES ASSUME "overlap" \notin crowded'
                         PROVE  /\ \A q \in People : call'[q] = NoRequest
                                /\ \A q \in People : Checked(q)'
                BY DEF Alone
            <3>1. \A q \in People : call'[q] = NoRequest
                BY <2>2, <2>6 DEF LeagueInv, Alone
            <3>2. ASSUME NEW q \in People PROVE Checked(q)'
                BY <2>n, <3>1 DEF Checked
            <3> QED BY <3>1, <3>2
        <2>7. ASSUME Rest, invite' \in [Invites -> {"absent", "active", "spent", "revoked"}],
                     claimant' \in [Invites -> People \cup {None}],
                     admitted' \in [Invites -> Nat], Redeemed'
              PROVE  LeagueInv'
            <3>1. MembershipTypeOK'
                BY <2>3, <2>7 DEF MembershipTypeOK, Requested, MemberRows
            <3> QED BY <2>4, <2>6, <2>7, <3>1 DEF LeagueInv
        <2>8. ASSUME Rest, UNCHANGED tokens PROVE LeagueInv'
            <3>1. \A q \in People : call'[q].op = "claim" =>
                      call[q].op = "claim" /\ call'[q].on = call[q].on
                BY <2>2
            <3>2. invite' = invite /\ claimant' = claimant /\ admitted' = admitted
                BY <2>8 DEF tokens
            <3>3. \A i \in Invites : invite[i] = "spent" => row'[claimant[i]].made
                BY <2>8 DEF LeagueInv, Redeemed
            <3>4. Redeemed'
                BY <3>1, <3>2, <3>3 DEF LeagueInv, Redeemed
            <3> QED BY <2>7, <2>8, <3>2, <3>4 DEF LeagueInv, MembershipTypeOK
        <2>9. ASSUME row' = row, UNCHANGED settings, crowded \subseteq crowded',
                     crowded' \subseteq {"overlap", "unheeded", "opened"},
                     gone' \subseteq People, pending' \subseteq People
              PROVE  Rest
            <3>1. In' = In /\ Admins' = Admins
                BY <2>9 DEF In, Admins
            <3>2. ServedSinglyKeepsTheRules'
                BY <2>9, <3>1 DEF LeagueInv, ServedSinglyKeepsTheRules, settings
            <3> QED BY <2>9, <3>2 DEF LeagueInv, MembershipTypeOK, settings, MemberRows
        <2>10. ASSUME NEW q \in People, row' = Restored({q}), Crowd({q} \cap In, "unheeded"),
                      call[p].op \in {"enter", "claim", "approve"}, UNCHANGED settings,
                      gone' \subseteq People, pending' \subseteq People
               PROVE  Rest /\ row'[q].made
            <3>1. /\ row' \in [People -> MemberRows]
                  /\ \A r \in People : row[r].made => row'[r].made
                  /\ row'[q].made
                  /\ {q} \cap In = {} => Admins' = Admins
                  /\ HasRoom => Cardinality(In') =< cap
                BY <2>10, LetIn DEF LeagueInv
            <3>2. /\ crowded \subseteq crowded'
                  /\ crowded' \subseteq {"overlap", "unheeded", "opened"}
                  /\ {q} \cap In # {} => "unheeded" \in crowded'
                BY <2>10 DEF Crowd, LeagueInv, MembershipTypeOK
            <3>3. "overlap" \notin crowded => HasRoom
                BY <2>5, <2>10 DEF Checked
            <3>4. ServedSinglyKeepsTheRules'
                BY <2>10, <3>1, <3>2, <3>3 DEF LeagueInv, ServedSinglyKeepsTheRules, settings
            <3> QED BY <2>10, <3>1, <3>2, <3>4 DEF LeagueInv, MembershipTypeOK, settings
        <2>11. CASE Enter(p)
            <3>1. CASE NewRowIsRefused(p, p)
                BY <2>8, <2>9, <2>11, <3>1 DEF Enter, LeagueInv, MembershipTypeOK
            <3>2. CASE ~NewRowIsRefused(p, p)
                BY <2>8, <2>10, <2>11, <3>2 DEF Enter, LeagueInv, MembershipTypeOK
            <3> QED BY <3>1, <3>2
        <2>12. CASE Ask(p)
            BY <2>8, <2>9, <2>12 DEF Ask, LeagueInv, MembershipTypeOK
        <2>13. CASE Claim(p)
            <3> DEFINE i == call[p].on
            <3>1. /\ i \in Invites /\ call[p].op = "claim" /\ invite[i] = "active"
                  /\ \A q \in People \ {p} : call[q].op # "claim"
                BY <2>13 DEF Claim, LeagueInv, Aimed, Redeemed
            <3>2. CASE NewRowIsRefused(p, p)
                BY <2>8, <2>9, <2>13, <3>2 DEF Claim, LeagueInv, MembershipTypeOK, tokens
            <3>3. CASE ~NewRowIsRefused(p, p)
                <4>1. Rest /\ row'[p].made
                    BY <2>10, <2>13, <3>3 DEF Claim, LeagueInv, MembershipTypeOK
                <4>2. /\ invite' = [invite EXCEPT ![i] = "spent"]
                      /\ claimant' = [claimant EXCEPT ![i] = p]
                      /\ admitted' = [admitted EXCEPT ![i] = @ + 1]
                    BY <2>13, <3>3 DEF Claim
                <4>3. /\ invite' \in [Invites -> {"absent", "active", "spent", "revoked"}]
                      /\ claimant' \in [Invites -> People \cup {None}]
                      /\ admitted' \in [Invites -> Nat]
                    BY <3>1, <4>2 DEF LeagueInv, MembershipTypeOK
                <4>4. Redeemed'
                    <5>1. \A q \in People : call'[q].op # "claim"
                        BY <2>2, <3>1 DEF NoRequest
                    <5>2. claimant[i] = None /\ admitted[i] = 0
                        BY <3>1 DEF LeagueInv, Redeemed
                    <5>3. invite'[i] = "spent" /\ claimant'[i] = p /\ admitted'[i] = 1
                        BY <3>1, <4>2, <5>2 DEF LeagueInv, MembershipTypeOK
                    <5>4. \A j \in Invites \ {i} : /\ invite'[j] = invite[j]
                                                  /\ claimant'[j] = claimant[j]
                                                  /\ admitted'[j] = admitted[j]
                        BY <3>1, <4>2 DEF LeagueInv, MembershipTypeOK
                    <5> QED BY <4>1, <5>1, <5>3, <5>4 DEF LeagueInv, Redeemed
                <4> QED BY <2>7, <4>1, <4>3, <4>4
            <3> QED BY <3>2, <3>3
        <2>14. CASE Approve(p)
            <3>1. call[p].on \in People
                BY <2>14 DEF Approve, LeagueInv, Aimed, OfAMember
            <3>2. CASE NewRowIsRefused(p, call[p].on)
                BY <2>8, <2>9, <2>14, <3>2 DEF Approve, LeagueInv, MembershipTypeOK
            <3>3. CASE ~NewRowIsRefused(p, call[p].on)
                BY <2>8, <2>10, <2>14, <3>1, <3>3 DEF Approve, LeagueInv, MembershipTypeOK
            <3> QED BY <3>2, <3>3
        <2>15. CASE Reject(p)
            BY <2>8, <2>9, <2>15 DEF Reject, LeagueInv, MembershipTypeOK
        <2>16. CASE Leave(p)
            <3>1. call[p].on = p
                BY <2>16 DEF Leave, LeagueInv, Aimed, Self
            <3>2. /\ row' \in [People -> MemberRows]
                  /\ \A q \in People : row[q].made => row'[q].made
                  /\ Admins' = Admins \ {p}
                  /\ Cardinality(In') =< Cardinality(In) /\ Cardinality(In') \in Nat
                <4>1. row' = [row EXCEPT ![p].in = FALSE]
                    BY <2>16 DEF Leave
                <4>2. In' \subseteq In
                    BY <3>1, <4>1, TakenOut DEF LeagueInv
                <4>3. Cardinality(In') \in Nat
                    BY <4>2, Counts, FS_Subset, FS_CardinalityType DEF LeagueInv
                <4> QED BY <3>1, <4>1, <4>3, TakenOut DEF LeagueInv
            <3>3. "overlap" \notin crowded /\ Admins # {} => Admins' # {}
                BY <2>5, <2>16, <3>1, <3>2, AnotherAdmin DEF Leave, Checked, LeagueInv
            <3>4. ServedSinglyKeepsTheRules'
                BY <2>16, <3>2, <3>3, Counts DEF Leave, LeagueInv, ServedSinglyKeepsTheRules, settings
            <3> QED BY <2>8, <2>16, <3>2, <3>4 DEF Leave, LeagueInv, MembershipTypeOK, settings
        <2>17. CASE SetRole(p)
            <3>1. call[p].on \in People /\ call[p].op \in {"promote", "demote"}
                BY <2>17 DEF SetRole, LeagueInv, Aimed, OfAMember
            <3>2. /\ row' \in [People -> MemberRows]
                  /\ \A q \in People : row[q].made => row'[q].made
                  /\ In' = In
                  /\ call[p].op = "promote" => Admins \subseteq Admins'
                  /\ call[p].op = "demote" => Admins' = Admins \ {call[p].on}
                BY <2>17, <3>1, RoleSet DEF SetRole, LeagueInv
            <3>3. "overlap" \notin crowded /\ Admins # {} => Admins' # {}
                BY <2>5, <3>1, <3>2, AnotherAdmin DEF Checked, LeagueInv
            <3>4. ServedSinglyKeepsTheRules'
                BY <2>17, <3>2, <3>3 DEF SetRole, LeagueInv, ServedSinglyKeepsTheRules, settings
            <3> QED BY <2>8, <2>17, <3>2, <3>4 DEF SetRole, LeagueInv, MembershipTypeOK, settings
        <2>18. CASE Remove(p)
            <3>1. call[p].on \in People
                BY <2>18 DEF Remove, LeagueInv, Aimed, OfAMember
            <3>2. /\ row' \in [People -> MemberRows]
                  /\ \A q \in People : row[q].made => row'[q].made
                  /\ Admins' = Admins \ {call[p].on}
                  /\ Cardinality(In') =< Cardinality(In) /\ Cardinality(In') \in Nat
                <4>1. row' = [row EXCEPT ![call[p].on].in = FALSE]
                    BY <2>18 DEF Remove
                <4>2. In' \subseteq In
                    BY <3>1, <4>1, TakenOut DEF LeagueInv
                <4>3. Cardinality(In') \in Nat
                    BY <4>2, Counts, FS_Subset, FS_CardinalityType DEF LeagueInv
                <4> QED BY <3>1, <4>1, <4>3, TakenOut DEF LeagueInv
            <3>3. "overlap" \notin crowded => Admins' = Admins
                BY <2>5, <2>18, <3>2 DEF Remove, Checked
            <3>4. ServedSinglyKeepsTheRules'
                BY <2>18, <3>2, <3>3, Counts DEF Remove, LeagueInv, ServedSinglyKeepsTheRules, settings
            <3> QED BY <2>8, <2>18, <3>2, <3>4 DEF Remove, LeagueInv, MembershipTypeOK, settings
        <2>19. CASE SetPrivacy(p)
            <3>1. call[p].on \in Privacies
                BY <2>19 DEF SetPrivacy, LeagueInv, Aimed
            <3>2. PICK S \in SUBSET People :
                      /\ row' = Restored(S) /\ S \subseteq pending
                      /\ privacy' = call[p].on /\ cap' = cap /\ gone' = gone
                      /\ pending' \subseteq pending
                      /\ crowded' = crowded \cup (IF S # {} THEN {"opened"} ELSE {})
                                            \cup (IF S \cap In # {} THEN {"unheeded"} ELSE {})
                <4> DEFINE lets == IF privacy = "public_request" /\ call[p].on = "public_open" /\ HasRoom
                                   THEN pending ELSE {}
                <4>1. lets \in SUBSET People /\ lets \subseteq pending
                    BY DEF LeagueInv, MembershipTypeOK
                <4>2. /\ row' = Restored(lets)
                      /\ privacy' = call[p].on /\ cap' = cap /\ gone' = gone
                      /\ pending' \subseteq pending
                      /\ crowded' = crowded \cup (IF lets # {} THEN {"opened"} ELSE {})
                                            \cup (IF lets \cap In # {} THEN {"unheeded"} ELSE {})
                    <5> HIDE DEF lets
                    <5> QED BY <2>19 DEF SetPrivacy, lets
                <4> HIDE DEF lets
                <4> QED BY <4>1, <4>2
            <3>3. /\ row' \in [People -> MemberRows]
                  /\ \A q \in People : row[q].made => row'[q].made
                  /\ In' = In \cup S
                  /\ S \cap In = {} => Admins' = Admins
                BY <3>2, LetIn DEF LeagueInv
            <3>4. S = {} => In' = In
                BY <3>3
            <3>5. ServedSinglyKeepsTheRules'
                BY <3>2, <3>3, <3>4 DEF LeagueInv, ServedSinglyKeepsTheRules
            <3>6. crowded' \subseteq {"overlap", "unheeded", "opened"}
                BY <3>2 DEF LeagueInv, MembershipTypeOK
            <3> QED BY <2>8, <2>19, <3>1, <3>2, <3>3, <3>5, <3>6 DEF SetPrivacy, LeagueInv, MembershipTypeOK
        <2>20. CASE SetCap(p)
            <3>1. /\ cap' = call[p].size /\ cap' \in Caps
                  /\ UNCHANGED <<privacy, row, gone, pending, crowded>> /\ UNCHANGED tokens
                BY <2>20 DEF SetCap, LeagueInv, Aimed
            <3>2. In' = In /\ Admins' = Admins
                BY <3>1 DEF In, Admins
            <3>3. "overlap" \notin crowded => cap' >= Cardinality(In)
                BY <2>5, <2>20, <3>1 DEF SetCap, Checked
            <3>4. cap' \in Nat /\ Cardinality(In) \in Nat
                BY <3>1, Counts, MembershipAssumption DEF LeagueInv
            <3>5. ServedSinglyKeepsTheRules'
                BY <3>1, <3>2, <3>3, <3>4 DEF LeagueInv, ServedSinglyKeepsTheRules
            <3> QED BY <2>8, <3>1, <3>5 DEF LeagueInv, MembershipTypeOK, MemberRows
        <2>21. CASE Revoke(p)
            <3> DEFINE i == call[p].on
            <3>1. /\ i \in Invites
                  /\ invite' = [invite EXCEPT ![i] = IF @ = "spent" THEN @ ELSE "revoked"]
                  /\ UNCHANGED <<claimant, admitted, row, gone, pending, crowded>>
                  /\ UNCHANGED settings
                BY <2>21 DEF Revoke, LeagueInv, Aimed
            <3>2. Rest
                BY <2>9, <3>1 DEF LeagueInv, MembershipTypeOK
            <3>3. \A q \in People : call[q].op = "claim" => call[q].on # i
                BY <2>21 DEF Revoke, Redeeming
            <3>4. invite' \in [Invites -> {"absent", "active", "spent", "revoked"}]
                BY <3>1 DEF LeagueInv, MembershipTypeOK
            <3>5. /\ \A j \in Invites : invite'[j] = "spent" <=> invite[j] = "spent"
                  /\ \A j \in Invites \ {i} : invite'[j] = invite[j]
                BY <3>1 DEF LeagueInv, MembershipTypeOK
            <3>6. \A q \in People : call'[q].op = "claim" => call[q].on \in Invites \ {i}
                BY <2>2, <3>3 DEF LeagueInv, Aimed
            <3>7. Redeemed'
                BY <2>2, <3>1, <3>5, <3>6 DEF LeagueInv, Redeemed, NoRequest
            <3> QED BY <2>7, <3>1, <3>2, <3>4, <3>7 DEF LeagueInv, MembershipTypeOK
        <2>22. CASE DeleteProfile(p)
            <3>1. call[p].on \in People
                BY <2>22 DEF DeleteProfile, LeagueInv, Aimed, Self, OfAMember
            <3>2. /\ crowded \subseteq crowded'
                  /\ crowded' \subseteq {"overlap", "unheeded", "opened"}
                BY <2>22 DEF DeleteProfile, Crowd, LeagueInv, MembershipTypeOK
            <3> QED BY <2>8, <2>9, <2>22, <3>1, <3>2 DEF DeleteProfile, LeagueInv, MembershipTypeOK
        <2> QED BY <1>2, <2>11, <2>12, <2>13, <2>14, <2>15, <2>16, <2>17, <2>18, <2>19, <2>20,
                   <2>21, <2>22 DEF Commit
    <1>3. ASSUME NEW p \in People, NEW i \in Invites, Issue(p, i)
          PROVE  LeagueInv'
        <2>1. /\ invite[i] = "absent" /\ invite' = [invite EXCEPT ![i] = "active"]
              /\ UNCHANGED <<privacy, cap, row, gone, pending, claimant, admitted, call, crowded>>
            BY <1>3 DEF Issue, settings
        <2>2. In' = In /\ Admins' = Admins
            BY <2>1 DEF In, Admins
        <2>3. Alone'
            BY <2>1, <2>2 DEF LeagueInv, Alone, Checked, KeepsAnAdmin, HasRoom
        <2>4. Redeemed'
            BY <2>1 DEF LeagueInv, Redeemed, MembershipTypeOK
        <2>5. ServedSinglyKeepsTheRules'
            BY <2>1, <2>2 DEF LeagueInv, ServedSinglyKeepsTheRules
        <2>6. MembershipTypeOK' /\ Aimed'
            BY <2>1 DEF LeagueInv, MembershipTypeOK, Aimed
        <2> QED BY <2>3, <2>4, <2>5, <2>6 DEF LeagueInv
    <1>4. CASE UNCHANGED leagueVars
        <2>1. In' = In /\ Admins' = Admins
            BY <1>4 DEF leagueVars, In, Admins
        <2>2. Alone'
            BY <1>4, <2>1 DEF leagueVars, LeagueInv, Alone, Checked, KeepsAnAdmin, HasRoom
        <2>3. MembershipTypeOK' /\ Aimed' /\ Redeemed' /\ ServedSinglyKeepsTheRules'
            BY <1>4, <2>1 DEF leagueVars, LeagueInv, MembershipTypeOK, Aimed, Redeemed,
                              ServedSinglyKeepsTheRules
        <2> QED BY <2>2, <2>3 DEF LeagueInv
    <1> QED BY <1>1, <1>2, <1>3, <1>4 DEF MembershipNext, Requests, Serves, Profiles

(* Every state of a league satisfies the invariant, its types among it.     *)
THEOREM LeaguesKeepTheInvariant ==
    MembershipSpec => []LeagueInv
    <1>1. MembershipInit => LeagueInv
        <2> SUFFICES ASSUME MembershipInit PROVE LeagueInv
            OBVIOUS
        <2>1. PICK founder \in People :
                  row = [p \in People |-> IF p = founder
                                             THEN [role |-> "admin", in |-> TRUE, made |-> TRUE]
                                             ELSE Absent]
            BY DEF MembershipInit
        <2>2. row \in [People -> MemberRows]
            BY <2>1 DEF Absent, MemberRows
        <2>3. NoRequest \in Requested /\ NoRequest.op = "none"
            BY DEF NoRequest, Requested, Subjects
        <2>4. call = [p \in People |-> NoRequest]
            BY DEF MembershipInit
        <2>5. call \in [People -> Requested] /\ \A p \in People : call[p] = NoRequest
            BY <2>3, <2>4
        <2>6. MembershipTypeOK
            BY <2>2, <2>5 DEF MembershipInit, MembershipTypeOK, Requested, MemberRows
        <2>7. \A p \in People : call[p].op = "none"
            BY <2>3, <2>5
        <2>8. Aimed
            BY <2>7 DEF Aimed, Self, OfAMember
        <2>9. Redeemed
            BY <2>7 DEF Redeemed, MembershipInit
        <2>10. Alone
            BY <2>5, <2>7 DEF Alone, Checked
        <2>11. In = {founder}
            BY <2>1 DEF In, Absent
        <2>12. Admins = {founder}
            BY <2>1, <2>11 DEF Admins
        <2>13. Cardinality(In) = 1
            BY <2>11, FS_Singleton
        <2>14. ServedSinglyKeepsTheRules
            BY <2>6, <2>12, <2>13, MembershipAssumption DEF ServedSinglyKeepsTheRules, MembershipTypeOK
        <2> QED BY <2>6, <2>8, <2>9, <2>10, <2>14 DEF LeagueInv
    <1> QED BY <1>1, LeagueStep, PTL DEF MembershipSpec

(* stage_invite_claim holds the league and the invite from its checks to    *)
(* its commit: an invite lets one person in, and is spent when it has.      *)
THEOREM InvitesAdmitOne ==
    MembershipSpec => []InviteAdmitsOne
    <1>1. LeagueInv => InviteAdmitsOne
        BY MembershipAssumption DEF LeagueInv, Redeemed, InviteAdmitsOne, MembershipTypeOK
    <1> QED BY <1>1, LeaguesKeepTheInvariant, PTL

(* The last-admin and LEAGUE_FULL checks are enough as long as one request  *)
(* at a time is served.                                                     *)
THEOREM RulesHoldServedSingly ==
    MembershipSpec => []ServedSinglyKeepsTheRules
    <1>1. LeagueInv => ServedSinglyKeepsTheRules
        BY DEF LeagueInv
    <1> QED BY <1>1, LeaguesKeepTheInvariant, PTL

-----------------------------------------------------------------------------
(* Sessions follow the PIN and a lock is earned, for any number of          *)
(* clients, tokens, attempts, PINs and resets.                              *)

Locks == {"none", "running", "over"}
Stages == {"idle", "right", "mint", "charge", "wrong", "rotate", "profile", "change", "set"}

Tokens == [state : {"none", "live", "revoked"}, under : Nat, late : BOOLEAN]
RequestRows == [at : Stages, under : Nat, count : Nat, lock : Locks, old : SUBSET Sessions,
             late : BOOLEAN]

AccountsTypeOK ==
    /\ pin \in Nat /\ pins \in Nat /\ resets \in Nat
    /\ newest \in {"none", "reset", "set", "requested", "lapsed"}
    /\ failed \in Nat /\ wrong \in Nat /\ lock \in Locks
    /\ session \in [Sessions -> Tokens] /\ client \in [Clients -> RequestRows]
    /\ deleted \in BOOLEAN /\ raced \in BOOLEAN

(* A request that will mint: it has answered for the PIN, or for a token    *)
(* opened under it.                                                         *)
Minting == {"right", "mint", "rotate", "profile"}

(* What is opened, or will be, is opened under the PIN the account has,     *)
(* unless the request was under way as the PIN changed.                     *)
Fresh(x) == x.late \/ (x.under = pin /\ ~deleted)

FreshInv ==
    /\ \A s \in Sessions : session[s].state = "live" => Fresh(session[s])
    /\ \A c \in Clients : client[c].at \in Minting => Fresh(client[c])

(* As long as no two requests held the counter at once, what a request read *)
(* of it is what it says, an expired lock was earned too, and only time     *)
(* can have passed over the lock it read.                                   *)
CountInv == ~raced =>
    /\ failed = wrong
    /\ lock # "none" => wrong >= MaxAttempts
    /\ \A c \in Counting :
           /\ client[c].count = failed
           /\ lock = client[c].lock \/ (client[c].lock = "running" /\ lock = "over")

----------------------------------------------------------------------------

LEMMA EmptyRows == NotMinted \in Tokens /\ Idle \in RequestRows
  BY DEF NotMinted, Idle, Tokens, RequestRows, Stages, Locks

LEMMA AccountsInitInv == AccountsInit => AccountsTypeOK /\ FreshInv /\ CountInv
  <1> SUFFICES ASSUME AccountsInit
               PROVE  AccountsTypeOK /\ FreshInv /\ CountInv
    OBVIOUS
  <1>1. AccountsTypeOK
    BY EmptyRows DEF AccountsInit, AccountsTypeOK, Locks
  <1>2. NotMinted.state # "live" /\ Idle.at = "idle"
    BY DEF NotMinted, Idle
  <1> QED
    BY <1>1, <1>2 DEF AccountsInit, FreshInv, CountInv, Minting, Counting

(* What a request becomes keeps its fields.                                 *)
LEMMA Rewritten ==
    ASSUME NEW r \in RequestRows
    PROVE  /\ \A at \in Stages : [r EXCEPT !.at = at] \in RequestRows
           /\ \A at \in Stages : [r EXCEPT !.at = at, !.old = {}] \in RequestRows
           /\ \A n \in Nat, l \in Locks :
                  [r EXCEPT !.at = "wrong", !.count = n, !.lock = l] \in RequestRows
           /\ \A n \in Nat, s \in Sessions, b \in BOOLEAN :
                  [r EXCEPT !.at = "rotate", !.under = n, !.old = {s}, !.late = b] \in RequestRows
           /\ \A n \in Nat : [r EXCEPT !.under = n] \in RequestRows
           /\ [r EXCEPT !.late = TRUE] \in RequestRows
  BY DEF RequestRows, Stages

LEMMA ReadIsRequest ==
    ASSUME AccountsTypeOK, NEW at \in Stages
    PROVE  Reads(at) \in RequestRows
  BY DEF AccountsTypeOK, Reads, Idle, RequestRows, Locks

(* Revoking, outdating and letting off keep the types.                      *)
LEMMA SharedTypes ==
    ASSUME AccountsTypeOK
    PROVE  /\ \A S \in SUBSET Sessions : Revoked(S) \in [Sessions -> Tokens]
           /\ \A C \in SUBSET Clients : Outdates(C) => client' \in [Clients -> RequestRows]
           /\ \A C \in SUBSET Clients : Races(C) => raced' \in BOOLEAN
           /\ LetOff => /\ failed' \in Nat /\ wrong' \in Nat /\ lock' \in Locks
                        /\ raced' \in BOOLEAN
           /\ \A c \in Clients : LetsOff(c) => /\ failed' \in Nat /\ wrong' \in Nat
                                               /\ lock' \in Locks /\ raced' \in BOOLEAN
  <1>1. ASSUME NEW S \in SUBSET Sessions
        PROVE  Revoked(S) \in [Sessions -> Tokens]
    BY DEF AccountsTypeOK, Revoked, Tokens
  <1>2. ASSUME NEW C \in SUBSET Clients, Outdates(C)
        PROVE  client' \in [Clients -> RequestRows]
    BY <1>2, EmptyRows, Rewritten DEF AccountsTypeOK, Outdates
  <1>3. ASSUME NEW C \in SUBSET Clients, Races(C)
        PROVE  raced' \in BOOLEAN
    BY <1>3 DEF Races
  <1>4. ASSUME LetOff
        PROVE  failed' \in Nat /\ wrong' \in Nat /\ lock' \in Locks /\ raced' \in BOOLEAN
    BY <1>4, <1>3 DEF LetOff, Locks
  <1>5. ASSUME NEW c \in Clients, LetsOff(c)
        PROVE  failed' \in Nat /\ wrong' \in Nat /\ lock' \in Locks /\ raced' \in BOOLEAN
    <2>1. raced' \in BOOLEAN
      BY <1>5, <1>3 DEF LetsOff
    <2> QED
      BY <1>5, <2>1 DEF LetsOff, AccountsTypeOK, Locks
  <1> QED
    BY <1>1, <1>2, <1>3, <1>4, <1>5

(* Every step keeps the types.                                              *)
LEMMA AccountTypeStep ==
    ASSUME AccountsTypeOK, [AccountsNext]_accountVars
    PROVE  AccountsTypeOK'
  <1> USE EmptyRows, SharedTypes, ReadIsRequest, Rewritten DEF AccountsTypeOK, attempts, bounds
  <1> DEFINE answered == {"right", "change", "set", "mint", "charge", "wrong"}
  <1>1. LiveSessions \subseteq Sessions /\ {"none", "over", "running"} = Locks
        /\ answered \subseteq Stages
    BY DEF LiveSessions, Locks, Stages
  <1>2. CASE LockExpires \/ Unlock \/ ResetRequest \/ WindowLapses \/ UNCHANGED accountVars
    BY <1>1, <1>2 DEF LockExpires, Unlock, LetOff, Races, ResetRequest, WindowLapses, accountVars
  <1>3. CASE ResetPin \/ Delete
    <2>1. client' \in [Clients -> RequestRows] /\ session' \in [Sessions -> Tokens]
      BY <1>1, <1>3 DEF ResetPin, Delete, RevokeAll
    <2>2. failed' \in Nat /\ wrong' \in Nat /\ lock' \in Locks /\ raced' \in BOOLEAN
      BY <1>3 DEF ResetPin, Delete
    <2>3. pin' \in Nat /\ pins' \in Nat /\ resets' \in Nat
      BY ONLY <1>3, AccountsTypeOK DEF ResetPin, Delete, AccountsTypeOK, bounds
    <2>4. newest' \in {"none", "reset", "set", "requested", "lapsed"} /\ deleted' \in BOOLEAN
      BY <1>3 DEF ResetPin, Delete
    <2> QED
      BY <2>1, <2>2, <2>3, <2>4
  <1>4. ASSUME NEW c \in Clients, RightPin(c) \/ ChangeRead(c) \/ SetRead(c)
        PROVE  AccountsTypeOK'
    <2>1. PICK r \in RequestRows : client' = [client EXCEPT ![c] = r]
      <3>1. {"right", "change", "set"} \subseteq Stages
        BY DEF Stages
      <3>2. [Reads("right") EXCEPT !.under = pin] \in RequestRows
        BY <3>1
      <3> QED
        BY <1>4, <3>1, <3>2 DEF RightPin, ChangeRead, SetRead, Starts
    <2>2. client' \in [Clients -> RequestRows]
      BY <2>1
    <2> QED
      BY <1>4, <2>2 DEF RightPin, ChangeRead, SetRead
  <1>5. ASSUME NEW c \in Clients, ClearsAttempts(c)
        PROVE  AccountsTypeOK'
    <2>1. client' = [client EXCEPT ![c] = [client[c] EXCEPT !.at = "mint"]]
      BY <1>5 DEF ClearsAttempts
    <2>2. [client[c] EXCEPT !.at = "mint"] \in RequestRows
      BY <1>1
    <2>3. client' \in [Clients -> RequestRows]
      BY <2>1, <2>2
    <2> QED
      BY <1>5, <2>3 DEF ClearsAttempts
  <1>6. ASSUME NEW c \in Clients, WrongPin(c) \/ Charged(c)
        PROVE  AccountsTypeOK'
    <2>1. client' = [client EXCEPT ![c] = [client[c] EXCEPT !.at = "wrong", !.count = failed,
                                                            !.lock = lock]]
          \/ client' = [client EXCEPT ![c] = [Idle EXCEPT !.at = "charge"]]
      BY <1>6 DEF WrongPin, Charged, Starts
    <2>2. /\ [client[c] EXCEPT !.at = "wrong", !.count = failed, !.lock = lock] \in RequestRows
          /\ [Idle EXCEPT !.at = "charge"] \in RequestRows
      BY <1>1
    <2>3. client' \in [Clients -> RequestRows]
      BY <2>1, <2>2
    <2> QED
      BY <1>6, <2>3 DEF WrongPin, Charged
  <1>7. ASSUME NEW c \in Clients, RecordsWrongPin(c)
        PROVE  AccountsTypeOK'
    <2>1. client' \in [Clients -> RequestRows]
      BY <1>7 DEF RecordsWrongPin, Ends
    <2>2. client[c].count \in Nat
      BY DEF RequestRows
    <2>3. Counted(c) \in Nat
      BY ONLY <2>2 DEF Counted
    <2>4. raced' \in BOOLEAN /\ lock' \in Locks
      BY <1>1, <1>7 DEF RecordsWrongPin
    <2>5. failed' \in Nat /\ wrong' \in Nat
      BY ONLY <1>7, <2>3, AccountsTypeOK DEF RecordsWrongPin, AccountsTypeOK
    <2> QED
      BY <1>7, <2>1, <2>4, <2>5 DEF RecordsWrongPin
  <1>8. ASSUME NEW c \in Clients, Rotates(c)
        PROVE  AccountsTypeOK'
    <2>1. client' = [client EXCEPT ![c] = [client[c] EXCEPT !.at = "profile", !.old = {}]]
      BY <1>8 DEF Rotates
    <2>2. "profile" \in Stages
      BY DEF Stages
    <2>3. [client[c] EXCEPT !.at = "profile", !.old = {}] \in RequestRows
      BY <2>2
    <2>4. client' \in [Clients -> RequestRows]
      BY <2>1, <2>3
    <2>5. client[c].old \in SUBSET Sessions
      BY ONLY <1>8, AccountsTypeOK DEF AccountsTypeOK, RequestRows
    <2> QED
      BY <1>8, <2>4, <2>5 DEF Rotates
  <1>9. ASSUME NEW c \in Clients, FindsProfile(c)
        PROVE  AccountsTypeOK'
    <2>1. client' = [client EXCEPT ![c] = Idle]
          \/ client' = [client EXCEPT ![c] = [client[c] EXCEPT !.at = "mint"]]
      BY <1>9 DEF FindsProfile, Ends
    <2>2. [client[c] EXCEPT !.at = "mint"] \in RequestRows
      BY <1>1
    <2>3. client' \in [Clients -> RequestRows]
      BY <2>1, <2>2
    <2> QED
      BY <1>9, <2>3 DEF FindsProfile
  <1>10. ASSUME NEW c \in Clients, NewPin(c)
         PROVE  AccountsTypeOK'
    <2>1. client' \in [Clients -> RequestRows] /\ session' \in [Sessions -> Tokens]
      BY <1>1, <1>10 DEF NewPin, RevokeAll
    <2>2. failed' \in Nat /\ wrong' \in Nat /\ lock' \in Locks /\ raced' \in BOOLEAN
      BY <1>10 DEF NewPin
    <2>3. pin' \in Nat /\ pins' \in Nat /\ resets' \in Nat
      BY ONLY <1>10, AccountsTypeOK DEF NewPin, AccountsTypeOK
    <2>4. newest' \in {"none", "reset", "set", "requested", "lapsed"} /\ deleted' \in BOOLEAN
      BY <1>10 DEF NewPin
    <2> QED
      BY <2>1, <2>2, <2>3, <2>4
  <1>11. ASSUME NEW c \in Clients, NEW s \in Sessions, Mints(c, s)
         PROVE  AccountsTypeOK'
    <2>1. [state |-> "live", under |-> client[c].under, late |-> client[c].late] \in Tokens
      BY ONLY <1>11, AccountsTypeOK DEF AccountsTypeOK, RequestRows, Tokens
    <2> QED
      BY <1>11, <2>1 DEF Mints, Ends
  <1>12. ASSUME NEW c \in Clients, NEW s \in Sessions, Presents(c, s)
         PROVE  AccountsTypeOK'
    <2>1. session[s].under \in Nat /\ session[s].late \in BOOLEAN
      BY DEF Tokens
    <2> QED
      BY <1>12, <2>1 DEF Presents, Starts
  <1>13. ASSUME NEW s \in Sessions, Replays(s) \/ Logout(s)
         PROVE  AccountsTypeOK'
    BY <1>1, <1>13 DEF Replays, Logout
  <1> QED
    BY <1>2, <1>3, <1>4, <1>5, <1>6, <1>7, <1>8, <1>9, <1>10, <1>11, <1>12, <1>13
    DEF AccountsNext

(* The member's type invariant: the columns of the account, its tokens and  *)
(* the requests under way keep their types.                                 *)
THEOREM AccountTypes == AccountsSpec => []AccountsTypeOK
  BY AccountsInitInv, AccountTypeStep, PTL DEF AccountsSpec

----------------------------------------------------------------------------
(* A change of the credential revokes every token, and leaves a request     *)
(* that is under way late or gone.                                          *)
LEMMA ChangeKeepsFresh ==
    ASSUME AccountsTypeOK, NEW C \in SUBSET Clients,
           session' = RevokeAll, Outdates(C)
    PROVE  FreshInv'
  <1>1. \A s \in Sessions : session'[s].state # "live"
    BY DEF RevokeAll, Revoked, LiveSessions, AccountsTypeOK, Tokens
  <1>2. \A c \in Clients : client'[c] = Idle \/ client'[c].late
    BY DEF Outdates, AccountsTypeOK, RequestRows
  <1>3. Idle.at \notin Minting
    BY DEF Idle, Minting
  <1> QED
    BY <1>1, <1>2, <1>3 DEF FreshInv, Fresh

LEMMA FreshStep ==
    ASSUME AccountsTypeOK, FreshInv, [AccountsNext]_accountVars
    PROVE  FreshInv'
  <1> USE DEF AccountsTypeOK, RequestRows, Tokens
  <1>1. CASE LockExpires \/ Unlock \/ ResetRequest \/ WindowLapses \/ UNCHANGED accountVars
    BY <1>1 DEF LockExpires, Unlock, ResetRequest, WindowLapses, accountVars, FreshInv, Fresh
  <1>2. CASE ResetPin \/ Delete
    BY <1>2, ChangeKeepsFresh DEF ResetPin, Delete
  <1>3. ASSUME NEW c \in Clients, NewPin(c)
        PROVE  FreshInv'
    BY <1>3, ChangeKeepsFresh DEF NewPin
  <1>4. ASSUME NEW c \in Clients, RightPin(c)
        PROVE  FreshInv'
    BY <1>4 DEF RightPin, MayAnswer, Starts, Reads, Idle, FreshInv, Fresh, Minting
  <1>5. ASSUME NEW c \in Clients, ClearsAttempts(c)
        PROVE  FreshInv'
    BY <1>5 DEF ClearsAttempts, FreshInv, Fresh, Minting
  <1>6. ASSUME NEW c \in Clients, WrongPin(c) \/ Charged(c) \/ ChangeRead(c) \/ SetRead(c)
        PROVE  FreshInv'
    <2>1. /\ UNCHANGED <<pin, session, deleted>>
          /\ client'[c].at \in {"charge", "wrong", "change", "set"}
          /\ \A d \in Clients \ {c} : client'[d] = client[d]
      <3>1. CASE WrongPin(c)
        BY <3>1 DEF WrongPin, Starts, Reads, Idle
      <3>2. CASE Charged(c)
        BY <3>2 DEF Charged, Starts, Reads, Idle
      <3>3. CASE ChangeRead(c)
        BY <3>3 DEF ChangeRead, Starts, Reads, Idle
      <3>4. CASE SetRead(c)
        BY <3>4 DEF SetRead, Starts, Reads, Idle
      <3> QED
        BY <1>6, <3>1, <3>2, <3>3, <3>4
    <2> QED
      BY <2>1 DEF FreshInv, Fresh, Minting
  <1>7. ASSUME NEW c \in Clients, RecordsWrongPin(c)
        PROVE  FreshInv'
    BY <1>7 DEF RecordsWrongPin, Ends, Idle, FreshInv, Fresh, Minting
  <1>8. ASSUME NEW c \in Clients, Rotates(c)
        PROVE  FreshInv'
    BY <1>8 DEF Rotates, Revoked, FreshInv, Fresh, Minting
  <1>9. ASSUME NEW c \in Clients, FindsProfile(c)
        PROVE  FreshInv'
    BY <1>9 DEF FindsProfile, Ends, Idle, FreshInv, Fresh, Minting
  <1>10. ASSUME NEW c \in Clients, NEW s \in Sessions, Mints(c, s)
         PROVE  FreshInv'
    BY <1>10 DEF Mints, Ends, Idle, FreshInv, Fresh, Minting
  <1>11. ASSUME NEW c \in Clients, NEW s \in Sessions, Presents(c, s)
         PROVE  FreshInv'
    BY <1>11 DEF Presents, Starts, Idle, FreshInv, Fresh, Minting
  <1>12. ASSUME NEW s \in Sessions, Replays(s) \/ Logout(s)
         PROVE  FreshInv'
    BY <1>12 DEF Replays, Logout, Revoked, FreshInv, Fresh
  <1> QED
    BY <1>1, <1>2, <1>3, <1>4, <1>5, <1>6, <1>7, <1>8, <1>9, <1>10, <1>11, <1>12
    DEF AccountsNext

(* "End every session opened with the old one" (change_pin, clear_pin,      *)
(* set_pin_after_reset, delete_player): a token that can be refreshed was   *)
(* opened under the account's PIN, or its own request raced the change.     *)
THEOREM SessionsEndWithThePin == AccountsSpec => []SessionsFollowThePin
  <1>1. AccountsTypeOK /\ FreshInv => SessionsFollowThePin
    BY DEF FreshInv, Fresh, SessionsFollowThePin, LiveSessions
  <1> QED
    BY <1>1, AccountsInitInv, FreshStep, AccountTypes, PTL DEF AccountsSpec

----------------------------------------------------------------------------
(* A letting off by the one request that holds the counter, or by an        *)
(* administrator while nobody does, starts the count afresh.                *)
LEMMA LetsOffCounts ==
    ASSUME AccountsTypeOK, CountInv, NEW c \in Counting, LetsOff(c),
           Counting' \subseteq Counting \ {c}
    PROVE  CountInv'
  BY DEF AccountsTypeOK, RequestRows, CountInv, LetsOff, Races, Counting, Locks

LEMMA CountStep ==
    ASSUME AccountsTypeOK, AccountsTypeOK', CountInv, [AccountsNext]_accountVars
    PROVE  CountInv'
  <1> USE AccountsAssumption DEF AccountsTypeOK, RequestRows, Locks, attempts
  <1>1. CASE LockExpires
    BY <1>1 DEF LockExpires, CountInv, Counting
  <1>2. CASE Unlock
    BY <1>2 DEF Unlock, LetOff, Races, CountInv, Counting
  <1>3. CASE ResetRequest \/ WindowLapses \/ UNCHANGED accountVars
    BY <1>3 DEF ResetRequest, WindowLapses, accountVars, CountInv, Counting
  <1>4. CASE ResetPin
    <2>1. Counting' \subseteq Counting
      BY <1>4 DEF ResetPin, Outdates, Counting, Idle
    <2> QED
      BY <1>4, <2>1 DEF ResetPin, LetOff, Races, CountInv
  <1>5. CASE Delete
    <2>1. /\ Counting' \subseteq Counting
          /\ \A c \in Counting' : /\ client'[c].count = client[c].count
                                  /\ client'[c].lock = client[c].lock
      BY <1>5 DEF Delete, Outdates, Counting, Idle
    <2> QED
      BY <1>5, <2>1 DEF Delete, LetOff, Races, CountInv
  <1>6. ASSUME NEW c \in Clients, RightPin(c) \/ ChangeRead(c) \/ SetRead(c)
        PROVE  CountInv'
    <2>1. /\ UNCHANGED attempts
          /\ client'[c].count = failed /\ client'[c].lock = lock
          /\ \A d \in Clients \ {c} : client'[d] = client[d]
      <3>1. /\ UNCHANGED attempts
            /\ \A d \in Clients \ {c} : client'[d] = client[d]
            /\ \/ client'[c] = [Reads("right") EXCEPT !.under = pin]
               \/ client'[c] \in {Reads("change"), Reads("set")}
        BY <1>6 DEF RightPin, ChangeRead, SetRead, Starts
      <3>2. \A at \in Stages : Reads(at).count = failed /\ Reads(at).lock = lock
        BY DEF Reads, Idle
      <3>3. /\ [Reads("right") EXCEPT !.under = pin].count = failed
            /\ [Reads("right") EXCEPT !.under = pin].lock = lock
        BY DEF Reads, Idle
      <3> QED
        BY <3>1, <3>2, <3>3 DEF Stages
    <2> QED
      BY <2>1 DEF CountInv, Counting
  <1>7. ASSUME NEW c \in Clients, ClearsAttempts(c)
        PROVE  CountInv'
    <2>1. c \in Counting /\ Counting' \subseteq Counting \ {c}
      BY <1>7 DEF ClearsAttempts, Counting
    <2>2. CASE LetsOff(c)
      BY <2>1, <2>2, LetsOffCounts
    <2>3. CASE UNCHANGED attempts
      BY <1>7, <2>1, <2>3 DEF ClearsAttempts, CountInv, Counting
    <2> QED
      BY <1>7, <2>2, <2>3 DEF ClearsAttempts
  <1>8. ASSUME NEW c \in Clients, WrongPin(c)
        PROVE  CountInv'
    BY <1>8 DEF WrongPin, Starts, Idle, CountInv, Counting
  <1>9. ASSUME NEW c \in Clients, Charged(c)
        PROVE  CountInv'
    BY <1>9 DEF Charged, CountInv, Counting
  <1>10. ASSUME NEW c \in Clients, RecordsWrongPin(c)
         PROVE  CountInv'
    <2>1. c \in Counting /\ Counting' = Counting \ {c}
      BY <1>10 DEF RecordsWrongPin, Ends, Idle, Counting
    <2>2. CASE raced'
      BY <2>2 DEF CountInv
    <2>3. CASE ~raced'
      <3>1. ~raced /\ Counting' = {}
        BY <1>10, <2>1, <2>3 DEF RecordsWrongPin, Races
      <3>2. /\ failed = wrong /\ client[c].count = failed
            /\ lock # "none" => wrong >= MaxAttempts
            /\ lock = client[c].lock \/ (client[c].lock = "running" /\ lock = "over")
        BY <2>1, <3>1 DEF CountInv
      <3>3. failed' = wrong'
        BY <1>10, <3>2 DEF RecordsWrongPin, Counted
      <3>4. lock' # "none" => wrong' >= MaxAttempts
        BY <1>10, <3>2 DEF RecordsWrongPin, Counted
      <3> QED
        BY <3>1, <3>3, <3>4 DEF CountInv
    <2> QED
      BY <2>2, <2>3
  <1>11. ASSUME NEW c \in Clients, Rotates(c) \/ FindsProfile(c)
         PROVE  CountInv'
    BY <1>11 DEF Rotates, FindsProfile, Ends, Idle, CountInv, Counting
  <1>12. ASSUME NEW c \in Clients, NewPin(c)
         PROVE  CountInv'
    <2>1. c \in Counting /\ Counting' \subseteq Counting \ {c}
      BY <1>12 DEF NewPin, Outdates, Counting, Idle
    <2> QED
      BY <1>12, <2>1, LetsOffCounts DEF NewPin
  <1>13. ASSUME NEW c \in Clients, NEW s \in Sessions, Mints(c, s) \/ Presents(c, s)
         PROVE  CountInv'
    <2>1. /\ UNCHANGED attempts
          /\ client'[c].at \in {"idle", "rotate"}
          /\ \A d \in Clients \ {c} : client'[d] = client[d]
      <3>1. CASE Mints(c, s)
        BY <3>1 DEF Mints, Ends, Idle
      <3>2. CASE Presents(c, s)
        BY <3>2 DEF Presents, Starts, Idle
      <3> QED
        BY <1>13, <3>1, <3>2
    <2> QED
      BY <2>1 DEF CountInv, Counting
  <1>14. ASSUME NEW s \in Sessions, Replays(s) \/ Logout(s)
         PROVE  CountInv'
    BY <1>14 DEF Replays, Logout, CountInv, Counting
  <1> QED
    BY <1>1, <1>2, <1>3, <1>4, <1>5, <1>6, <1>7, <1>8, <1>9, <1>10, <1>11, <1>12, <1>13, <1>14
    DEF AccountsNext

(* An account is locked by as many wrong PINs as it takes and no fewer,     *)
(* counted afresh from the last letting off (login, _record_failed_login),  *)
(* as long as no two requests wrote the counter across one another.         *)
THEOREM LocksAreEarned == AccountsSpec => []LockIsEarned
  <1>1. AccountsTypeOK /\ CountInv => LockIsEarned
    BY DEF CountInv, LockIsEarned, AccountsTypeOK
  <1> QED
    BY <1>1, AccountsInitInv, AccountTypeStep, CountStep, AccountTypes, PTL DEF AccountsSpec
=============================================================================
