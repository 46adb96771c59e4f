---------------------------- MODULE NameRegister ----------------------------
(***************************************************************************)
(* What the handling of workspaces promises: the name of a workspace leads  *)
(* to one team, which has no other name and keeps it until it gives it up,   *)
(* for a free one or when it is closed.                                      *)
(* A mishap may leave names disputed; nothing is promised of them from then. *)
(***************************************************************************)
CONSTANTS Names, Teams, Free, Disputed

VARIABLE holder      \* the team a name leads to

Init ==
    /\ holder \in [Names -> Teams \cup {Free}]
    /\ \A m, n \in Names : holder[m] = holder[n] /\ holder[n] \in Teams => m = n

Holds(t) == {n \in Names : holder[n] = t}

Take(n, t) ==
    /\ holder[n] = Free /\ Holds(t) = {}
    /\ holder' = [holder EXCEPT ![n] = t]

GiveUp(n) ==
    /\ holder[n] \in Teams
    /\ holder' = [holder EXCEPT ![n] = Free]

Dispute == \A n \in Names : holder'[n] \in {holder[n], Disputed}

Next ==
    \/ Dispute
    \/ \E n \in Names, t \in Teams : Take(n, t)
    \/ \E n \in Names : GiveUp(n)

Spec == Init /\ [][Next]_holder

(* It follows that no team ever has two names.                               *)
OneName == \A t \in Teams : \A m, n \in Holds(t) : m = n
=============================================================================
