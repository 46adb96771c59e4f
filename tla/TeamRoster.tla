----------------------------- MODULE TeamRoster -----------------------------
(***************************************************************************)
(* What the handling of members promises while requests are served one at   *)
(* a time: a team has one owner, people are invited, join, leave or have    *)
(* their invitation withdrawn, and a team is closed by an owner who is      *)
(* alone in it.                                                             *)
(***************************************************************************)
CONSTANTS People, Nobody

VARIABLES
    members,   \* people with a profile in the team
    invited,   \* people who may join
    owner      \* the owner, or Nobody when the team is closed

vars == <<members, invited, owner>>

OneOwner == (owner = Nobody /\ members = {}) \/ owner \in members
JoinOnce == members \cap invited = {}

Enrol(someone) ==
    /\ owner # Nobody
    /\ members' = members \cup someone
    /\ UNCHANGED <<invited, owner>>

Invite(someone) ==
    /\ owner # Nobody
    /\ invited' = invited \cup someone
    /\ UNCHANGED <<members, owner>>

Join(p) ==
    /\ p \in invited
    /\ invited' = invited \ {p}
    /\ members' = members \cup {p}
    /\ UNCHANGED owner

Withdraw(p) ==
    /\ p \in invited
    /\ invited' = invited \ {p}
    /\ UNCHANGED <<members, owner>>

Leave(p) ==
    /\ p \in members \ {owner}
    /\ members' = members \ {p}
    /\ UNCHANGED <<invited, owner>>

HandOver(p) ==
    /\ p \in members \ {owner}
    /\ owner' = p
    /\ UNCHANGED <<members, invited>>

Close ==
    /\ members = {owner} /\ invited = {}
    /\ members' = {} /\ owner' = Nobody
    /\ UNCHANGED invited

Next ==
    \/ \E someone \in SUBSET People : Enrol(someone) \/ Invite(someone)
    \/ \E p \in People : Join(p) \/ Withdraw(p) \/ Leave(p) \/ HandOver(p)
    \/ Close
=============================================================================
