--------------------------- MODULE BookingLedger ---------------------------
(***************************************************************************)
(* What the booking path promises about the time of a host, without the     *)
(* stores and services behind it.  A request looks once at the times held   *)
(* for its event, may then hold its own time if that shares nothing with    *)
(* what it saw, and may later have it confirmed.  A time held is never      *)
(* given back or taken by the same request twice.  Looking and holding are  *)
(* separate steps: requests that look before either holds may hold times    *)
(* that overlap, and only those.                                            *)
(***************************************************************************)
EXTENDS ScheduleRules

CONSTANTS Requests, EventTypes, Schedules

VARIABLES
    asked,      \* the event and the time each request asks for
    looked,     \* the requests that have looked
    view,       \* what a request saw held when it looked
    held,       \* the requests whose time is held
    confirmed   \* and those confirmed among them

ledgerVars == <<asked, looked, view, held, confirmed>>

LedgerTypeOK ==
    /\ asked \in [Requests -> [event : EventTypes, schedule : Schedules]]
    /\ looked \in SUBSET Requests
    /\ view \in [Requests -> SUBSET Requests]
    /\ held \in SUBSET looked
    /\ confirmed \in SUBSET held

LedgerInit ==
    /\ asked \in [Requests -> [event : EventTypes, schedule : Schedules]]
    /\ looked = {}
    /\ view = [r \in Requests |-> {}]
    /\ held = {}
    /\ confirmed = {}

(* The time of r shares nothing with a time p held for the same event.      *)
Compatible(r, p) ==
    asked[p].event = asked[r].event
    => ~ Overlap(asked[r].schedule, asked[p].schedule)

Look(r) ==
    /\ r \notin looked
    /\ looked' = looked \cup {r}
    /\ view' = [view EXCEPT ![r] = held]
    /\ UNCHANGED <<asked, held, confirmed>>

Hold(r) ==
    /\ r \in looked \ held
    /\ \A p \in view[r] : Compatible(r, p)
    /\ held' = held \cup {r}
    /\ UNCHANGED <<asked, looked, view, confirmed>>

ConfirmHeld(r) ==
    /\ r \in held \ confirmed
    /\ confirmed' = confirmed \cup {r}
    /\ UNCHANGED <<asked, looked, view, held>>

LedgerNext == \E r \in Requests : Look(r) \/ Hold(r) \/ ConfirmHeld(r)

LedgerSpec == LedgerInit /\ [][LedgerNext]_ledgerVars

-----------------------------------------------------------------------------
(* Of two times held for one event that overlap, neither was held when the  *)
(* other request looked.                                                    *)
OnlyRacersOverlap ==
    \A p \in held, q \in held : p \in view[q] => Compatible(q, p)
=============================================================================
