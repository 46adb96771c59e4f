--------------------------- MODULE MCCalendarSync ---------------------------
(***************************************************************************)
(* Two calendars of an account at Google, and one at Apple.                   *)
(***************************************************************************)
EXTENDS CalendarSync, TLC

CONSTANTS g1, g2, a1, i1, i2, e1, e2, r1, r2, h1

MCVendor == g1 :> "google" @@ g2 :> "google" @@ a1 :> "apple"
MCOf == g1 :> i1 @@ g2 :> i1 @@ a1 :> i2
MCGiven ==
    {[integrations |-> {i1, i2}, outbound |-> g1],
     [integrations |-> {i1, i2}, outbound |-> a1],
     [integrations |-> {i2}, outbound |-> a1],
     [integrations |-> {}, outbound |-> NoCalendar]}

MCThere == g1 :> {} @@ g2 :> {e2} @@ a1 :> {e2}
MCMay == g1 :> {e1, e2} @@ g2 :> {} @@ a1 :> {}

Want(check, outbound) == [check |-> check, outbound |-> outbound]
Patch(vendors, want) == [op |-> "patch", vendors |-> vendors, want |-> want]
On(op, i) == [op |-> op, on |-> i]
MCCalls ==
    {Patch(Vendors, g1 :> Want(FALSE, TRUE)),
     Patch({"google"}, g2 :> Want(TRUE, TRUE)),
     Patch({"apple"}, a1 :> Want(FALSE, FALSE)),
     On("integrate", i1), On("integrate", i2), On("remove", i1)}
=============================================================================
