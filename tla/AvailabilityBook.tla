-------------------------- MODULE AvailabilityBook --------------------------
(***************************************************************************)
(* What the availabilities promise to the rest of the system: every member  *)
(* has one default at any time, every event he hosts uses an availability   *)
(* of his own, and an availability that is removed or released is replaced  *)
(* by the default at once.                                                  *)
(***************************************************************************)
CONSTANTS Profiles, Ids, LinkIds, LinkProfile, Nobody

VARIABLES
    owner,     \* whose an availability is
    default,   \* the default of each member
    used       \* the availability each hosted event uses

vars == <<owner, default, used>>

HasDefaults == \A p \in Profiles : default[p] \in Ids /\ owner[default[p]] = p
UsesOwn == \A l \in LinkIds : owner[used[l]] = LinkProfile[l]

Init ==
    /\ owner \in [Ids -> Profiles \cup {Nobody}]
    /\ default \in [Profiles -> Ids]
    /\ used \in [LinkIds -> Ids]
    /\ HasDefaults /\ UsesOwn

Replace(i, j) == used' = [l \in LinkIds |-> IF used[l] = i THEN j ELSE used[l]]

Add(p, i) ==
    /\ owner[i] = Nobody
    /\ owner' = [owner EXCEPT ![i] = p]
    /\ UNCHANGED <<default, used>>

Promote(p, i) ==
    /\ owner[i] = p
    /\ default' = [default EXCEPT ![p] = i]
    /\ UNCHANGED <<owner, used>>

Remove(p, i) ==
    /\ owner[i] = p /\ default[p] # i
    /\ owner' = [owner EXCEPT ![i] = Nobody]
    /\ Replace(i, default[p])
    /\ UNCHANGED default

Use(p, i, hosted) ==
    /\ owner[i] = p
    /\ \A l \in hosted : LinkProfile[l] = p
    /\ used' = [l \in LinkIds |-> IF l \in hosted THEN i ELSE used[l]]
    /\ UNCHANGED <<owner, default>>

Release(p, i) ==
    /\ owner[i] = p
    /\ Replace(i, default[p])
    /\ UNCHANGED <<owner, default>>

Next ==
    \E p \in Profiles, i \in Ids :
        \/ Add(p, i) \/ Promote(p, i) \/ Remove(p, i) \/ Release(p, i)
        \/ \E hosted \in SUBSET LinkIds : Use(p, i, hosted)

Spec == Init /\ [][Next]_vars
=============================================================================
