---------------------------- MODULE MCMembership ----------------------------
(***************************************************************************)
(* Instances of Membership for TLC.  A team starts with its owner boss      *)
(* alone, or with the manager aide and the member mate as well and two      *)
(* people invited; kay has an account and is in no team.                    *)
(***************************************************************************)
EXTENDS Membership, TLC

CONSTANTS boss, aide, mate, kay, ann, bob, eve, order1, order2, order3, order4, r1, r2

Profile(p, role) == [person |-> p, role |-> role, active |-> TRUE]
Listing(ids) == [profileIds |-> ids]

Alone ==
    [rows |-> [i \in Ids |-> IF i = 1 THEN Profile(boss, "OWNER") ELSE Unused],
     users |-> {boss, kay},
     orders |-> [o \in Orders |-> IF o = order1 THEN Listing({}) ELSE NoOrder],
     invited |-> {}, invitedWith |-> order1]
Busy ==
    [rows |-> [i \in Ids |->
        CASE i = 1 -> Profile(boss, "OWNER")
          [] i = 2 -> Profile(aide, "MANAGER")
          [] i = 3 -> Profile(mate, "MEMBER")
          [] OTHER -> Unused],
     users |-> {boss, aide, mate, kay},
     orders |-> [o \in Orders |->
        CASE o = order1 -> Listing({})
          [] o = order2 -> Listing({2, 3})
          [] OTHER -> NoOrder],
     invited |-> {ann, bob}, invitedWith |-> order2]
MCStarts == {Alone, Busy}

Bearer(i, p, role) == [id |-> i, user |-> p, role |-> role]
Boss == Bearer(1, boss, "OWNER")
Aide == Bearer(2, aide, "MANAGER")
Mate == Bearer(3, mate, "MEMBER")

Ask(op, token) ==
    [op |-> op, token |-> token, people |-> {}, target |-> 1, role |-> "MEMBER"]
For(call, people) == [call EXCEPT !.people = people]
On(call, i) == [call EXCEPT !.target = i]
To(call, role) == [call EXCEPT !.role = role]

MCCalls ==
    {For(Ask("invite", t), ps) : t \in {Boss, Aide}, ps \in {{kay}, {eve}, {kay, eve}}}
    \cup {For(Ask("join", NoToken), {p}) : p \in {ann, bob, eve}}
    \cup {Ask("accept", Mate)}
    \cup {On(Ask("remove", t), i) : t \in {Boss, Aide, Mate}, i \in {1, 2, 3, 4}}
    \cup {For(Ask("withdraw", Boss), {p}) : p \in {ann, eve}}
    \cup {To(On(Ask("roles", t), i), role) :
            t \in {Boss, Aide}, i \in {1, 2, 3, 4}, role \in Roles}
    \cup {Ask("close", Boss), Ask("close", Bearer(3, mate, "OWNER"))}

(* The owner hands over to the member whom the manager removes.             *)
MCHandOver ==
    {To(On(Ask("roles", Boss), 3), "OWNER"), On(Ask("remove", Aide), 3)}
MCSymmetry == Permutations(Requests)
=============================================================================
