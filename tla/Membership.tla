----------------------------- MODULE Membership -----------------------------
(* Who is in a league and who runs it: the open door, the join code, the    *)
(* approval queue, invites, leaving, removal, roles, and accounts that are  *)
(* deleted.  A handler checks the league as it reads it and commits what it *)
(* decided; only an invite's redemption holds the league's row in between.  *)
EXTENDS Integers, FiniteSets

CONSTANTS
    People,
    SiteAdmins,  \* people whose profile is a site admin's
    Invites,     \* invite tokens
    Caps,        \* values of max_members
    None         \* no person, no invite, no call

ASSUME MembershipAssumption ==
    /\ IsFiniteSet(People) /\ SiteAdmins \subseteq People
    /\ Caps \subseteq Nat \ {0}
    /\ None \notin People \cup Invites

VARIABLES
    privacy,   \* leagues.privacy
    cap,       \* leagues.max_members
    row,       \* each person's league_memberships row: [role, in], or never
    gone,      \* people whose profile is deleted; their membership rows stay
    pending,   \* people with a pending join request
    invite,    \* each invite: absent, active, spent or revoked
    claimant,  \* who claimed each invite
    call,      \* each person's request between its check and its commit
    admitted,  \* (history) how many people each invite let in
    crowded    \* (history) what the counts do not see: two requests at once, someone
               \* already in let in again or a member's account deleted, a door opened

leagueVars == <<privacy, cap, row, gone, pending, invite, claimant, call, admitted, crowded>>
settings == <<privacy, cap>>
tokens == <<invite, claimant, admitted>>

Ops == {"enter", "ask", "claim", "approve", "reject", "leave", "promote", "demote", "remove",
        "set privacy", "set cap", "revoke", "erase", "delete"}
Privacies == {"private", "public_request", "public_open"}
Subjects == People \cup Invites \cup Privacies \cup {None}
NoRequest == [op |-> "none", on |-> None, size |-> 0, had |-> FALSE]
Absent == [role |-> "player", in |-> FALSE, made |-> FALSE]

In == {p \in People : row[p].in}
Admins == {p \in In : row[p].role = "admin"}
Profiles == People \ gone

MembershipTypeOK ==
    /\ privacy \in Privacies /\ cap \in Caps
    /\ row \in [People -> [role: {"admin", "player"}, in: BOOLEAN, made: BOOLEAN]]
    /\ gone \subseteq People /\ pending \subseteq People
    /\ invite \in [Invites -> {"absent", "active", "spent", "revoked"}]
    /\ claimant \in [Invites -> People \cup {None}]
    /\ call \in [People -> [op: Ops \cup {"none"}, on: Subjects, size: Caps \cup {0}, had: BOOLEAN]]
    /\ admitted \in [Invites -> Nat]
    /\ crowded \subseteq {"overlap", "unheeded", "opened"}

----------------------------------------------------------------------------
(* What a handler checks                                                    *)

Runs(p) == p \in SiteAdmins \/ p \in Admins

HasRoom == Cardinality(In) < cap

(* Mutant of KeepsAnAdmin: one admin too few.                               *)
KeepsAny(p) == row[p].role = "admin" => Cardinality(Admins) >= 1

(* Last-admin protection, which counts membership rows.                     *)
KeepsAnAdmin(p) == row[p].role = "admin" => Cardinality(Admins) > 1

(* leagues_they_alone_run: another live member, and no live admin else.     *)
AloneRuns(p) ==
    LET others == {q \in In : q # p /\ q \in Profiles}
    IN  p \in Admins /\ others # {} /\ others \cap Admins = {}

(* The door answers with a membership or, behind approval, with a request.  *)
(* Anyone may hold the code that opens a private league.                    *)
Door(op) == op = IF privacy = "public_request" THEN "ask" ELSE "enter"

Redeeming == {p \in People : call[p].op = "claim"}

(* A request p may make now: an operation, and what or whom it is about.    *)
ForOneself(p, op) ==
    \/ /\ op \in {"enter", "ask"} /\ Door(op)
       /\ p \notin In /\ HasRoom
       /\ op = "ask" => p \notin pending
    \/ op = "leave" /\ p \in In /\ KeepsAnAdmin(p)
    \/ op = "erase" /\ p \notin SiteAdmins /\ ~AloneRuns(p)

OnAMember(op, q) ==
    \/ op = "approve" /\ q \in pending /\ HasRoom
    \/ op = "reject" /\ q \in pending
    \/ op = "promote" /\ q \in In \ Admins
    \/ op = "demote" /\ q \in Admins /\ KeepsAnAdmin(q)
    \/ op = "remove" /\ q \in In \ Admins

OnAnInvite(op, i) == op = "revoke" /\ invite[i] # "absent"

Redeemable(p, i) == invite[i] = "active" /\ p \notin In /\ HasRoom

(* Mutant of MayRedeem: the league's row is not held while one redeems.     *)
MayRedeemAtOnce(p, i) == Redeemable(p, i)

(* stage_invite_claim locks the league and the invite, then checks both.    *)
MayRedeem(p, i) == Redeeming = {} /\ Redeemable(p, i)

Allowed(p, op, on, size) ==
    \/ on = p /\ ForOneself(p, op)
    \/ op = "claim" /\ on \in Invites /\ MayRedeem(p, on)
    \/ op = "delete" /\ p \in SiteAdmins /\ on \in Profiles \ {p}
    \/ /\ Runs(p)
       /\ \/ on \in People /\ OnAMember(op, on)
          \/ on \in Invites /\ OnAnInvite(op, on)
          \/ op = "set privacy" /\ on \in Privacies \ {privacy}
          \/ op = "set cap" /\ on = None /\ size # cap /\ size >= Cardinality(In)

Had(op, p, on) ==
    IF op = "approve" THEN row[on].made ELSE op \in {"enter", "claim"} /\ row[p].made

Check(p, op, on, size) ==
    /\ Allowed(p, op, on, size)
    /\ call' = [call EXCEPT ![p] = [op |-> op, on |-> on, size |-> size, had |-> Had(op, p, on)]]
    /\ crowded' = IF \E q \in People \ {p} : call[q] # NoRequest
                  THEN crowded \cup {"overlap"} ELSE crowded
    /\ UNCHANGED <<settings, row, gone, pending, tokens>>

----------------------------------------------------------------------------
(* What it commits                                                          *)

(* _upsert_membership: a new row, or the old one restored as a player.      *)
Restored(S) ==
    [p \in People |-> IF p \in S THEN [role |-> "player", in |-> TRUE, made |-> TRUE] ELSE row[p]]

Crowd(S, why) == crowded' = IF S # {} THEN crowded \cup {why} ELSE crowded

(* A row this request did not see is refused by the unique constraint, and  *)
(* a new row waits while a redemption holds the league.                     *)
CanAdmit(p, had) == had \/ ~row[p].made
WaitsForNone(p) == Redeeming \subseteq {p}
NewRowIsRefused(p, who) == ~CanAdmit(who, call[p].had)

Enter(p) ==
    /\ call[p].op = "enter"
    /\ ~call[p].had => WaitsForNone(p)
    /\ IF NewRowIsRefused(p, p) THEN UNCHANGED <<row, crowded>>
       ELSE row' = Restored({p}) /\ Crowd({p} \cap In, "unheeded")
    /\ UNCHANGED <<settings, gone, pending, tokens>>

Ask(p) ==
    /\ call[p].op = "ask"
    /\ WaitsForNone(p)
    /\ pending' = pending \cup {p}
    /\ UNCHANGED <<settings, row, gone, tokens, crowded>>

(* claim-invite, and registration with an invite, whose one commit makes    *)
(* the account too.                                                         *)
Claim(p) ==
    /\ call[p].op = "claim"
    /\ LET i == call[p].on
       IN  IF NewRowIsRefused(p, p) THEN UNCHANGED <<row, invite, claimant, admitted, crowded>>
           ELSE /\ row' = Restored({p}) /\ Crowd({p} \cap In, "unheeded")
                /\ invite' = [invite EXCEPT ![i] = "spent"]
                /\ claimant' = [claimant EXCEPT ![i] = p]
                /\ admitted' = [admitted EXCEPT ![i] = @ + 1]
    /\ UNCHANGED <<settings, gone, pending>>

Approve(p) ==
    /\ call[p].op = "approve"
    /\ LET q == call[p].on
       IN  /\ ~call[p].had => WaitsForNone(p)
           /\ IF NewRowIsRefused(p, q) THEN UNCHANGED <<row, pending, crowded>>
              ELSE /\ row' = Restored({q}) /\ Crowd({q} \cap In, "unheeded")
                   /\ pending' = pending \ {q}
    /\ UNCHANGED <<settings, gone, tokens>>

Reject(p) ==
    /\ call[p].op = "reject"
    /\ pending' = pending \ {call[p].on}
    /\ UNCHANGED <<settings, row, gone, tokens, crowded>>

Leave(p) ==
    /\ call[p].op = "leave"
    /\ row' = [row EXCEPT ![p].in = FALSE]
    /\ UNCHANGED <<settings, gone, pending, tokens, crowded>>

SetRole(p) ==
    /\ call[p].op \in {"promote", "demote"}
    /\ row' = [row EXCEPT ![call[p].on].role = IF call[p].op = "promote" THEN "admin" ELSE "player"]
    /\ UNCHANGED <<settings, gone, pending, tokens, crowded>>

Remove(p) ==
    /\ call[p].op = "remove"
    /\ WaitsForNone(p)
    /\ row' = [row EXCEPT ![call[p].on].in = FALSE]
    /\ UNCHANGED <<settings, gone, pending, tokens, crowded>>

(* update_league: going private cancels the queue, opening a league behind  *)
(* approval lets the whole queue in if there is any room at all.            *)
SetPrivacy(p) ==
    /\ call[p].op = "set privacy"
    /\ WaitsForNone(p)
    /\ LET to == call[p].on
           lets == IF privacy = "public_request" /\ to = "public_open" /\ HasRoom
                   THEN pending ELSE {}
       IN  /\ privacy' = to
           /\ row' = Restored(lets)
           /\ pending' = IF to = "private" THEN {} ELSE pending \ lets
           /\ crowded' = crowded \cup (IF lets # {} THEN {"opened"} ELSE {})
                                 \cup (IF lets \cap In # {} THEN {"unheeded"} ELSE {})
    /\ UNCHANGED <<cap, gone, tokens>>

SetCap(p) ==
    /\ call[p].op = "set cap"
    /\ WaitsForNone(p)
    /\ cap' = call[p].size
    /\ UNCHANGED <<privacy, row, gone, pending, tokens, crowded>>

(* A revocation of a spent invite changes only its flag, and waits for a    *)
(* redemption of the same one.                                              *)
Revoke(p) ==
    /\ call[p].op = "revoke"
    /\ \A q \in Redeeming : call[q].on # call[p].on
    /\ invite' = [invite EXCEPT ![call[p].on] = IF @ = "spent" THEN @ ELSE "revoked"]
    /\ UNCHANGED <<settings, row, gone, pending, claimant, admitted, crowded>>

(* erase_account and delete_player keep the membership.  Only the member's  *)
(* own erasure takes their join requests with it.                           *)
DeleteProfile(p) ==
    /\ call[p].op \in {"erase", "delete"}
    /\ gone' = gone \cup {call[p].on}
    /\ pending' = IF call[p].op = "erase" THEN pending \ {p} ELSE pending
    /\ Crowd({call[p].on} \cap In, "unheeded")
    /\ UNCHANGED <<settings, row, tokens>>

Commit(p) ==
    /\ \/ Enter(p) \/ Ask(p) \/ Claim(p) \/ Approve(p) \/ Reject(p) \/ Leave(p) \/ SetRole(p)
       \/ Remove(p) \/ SetPrivacy(p) \/ SetCap(p) \/ Revoke(p) \/ DeleteProfile(p)
    /\ call' = [call EXCEPT ![p] = NoRequest]

(* An admin makes a new invite.                                             *)
Issue(p, i) ==
    /\ p \in Profiles /\ Runs(p) /\ invite[i] = "absent"
    /\ invite' = [invite EXCEPT ![i] = "active"]
    /\ UNCHANGED <<settings, row, gone, pending, claimant, admitted, call, crowded>>

MembershipInit ==
    /\ privacy \in Privacies /\ cap \in Caps
    /\ \E founder \in People :
           row = [p \in People |-> IF p = founder
                                      THEN [role |-> "admin", in |-> TRUE, made |-> TRUE]
                                      ELSE Absent]
    /\ gone = {} /\ pending = {}
    /\ invite = [i \in Invites |-> "absent"]
    /\ claimant = [i \in Invites |-> None]
    /\ call = [p \in People |-> NoRequest]
    /\ admitted = [i \in Invites |-> 0]
    /\ crowded = {}

Requests ==
    \E p \in {q \in Profiles : call[q] = NoRequest}, op \in Ops, on \in Subjects :
        \E size \in IF op = "set cap" THEN Caps ELSE {0} : Check(p, op, on, size)
Serves == \E p \in People : Commit(p) \/ \E i \in Invites : Issue(p, i)

MembershipNext == Requests \/ Serves
MembershipSpec == MembershipInit /\ [][MembershipNext]_leagueVars

----------------------------------------------------------------------------
(* One invite lets one person in, and is spent exactly when it has: two     *)
(* redemptions at once, a revocation or a registration cut short change     *)
(* nothing of that (stage_invite_claim).                                    *)
InviteAdmitsOne ==
    \A i \in Invites :
        /\ admitted[i] =< 1
        /\ (invite[i] = "spent") <=> (claimant[i] # None)
        /\ claimant[i] # None => row[claimant[i]].made

(* While requests are served one at a time, accounts are kept and nobody    *)
(* is let in twice, a league always has an admin (the last-admin checks of  *)
(* leave_league and demote_member), and never outgrows max_members, unless  *)
(* the queue was let in at once (the LEAGUE_FULL checks of every door).     *)
ServedSinglyKeepsTheRules ==
    /\ crowded \subseteq {"opened"} => Admins # {}
    /\ crowded \cap {"overlap", "opened"} = {} => Cardinality(In) =< cap
=============================================================================
