----------------------------- MODULE MCBooking -----------------------------
(***************************************************************************)
(* Instances of Booking for TLC.  A minute has four seconds; times are      *)
(* given in minutes here.                                                   *)
(***************************************************************************)
EXTENDS Booking, TLC

CONSTANTS r1, r2, w1, w2, meet, both, cal

Minute(m) == m * SecondsPerMinute
Range(from, to) == [start |-> Minute(from), end |-> Minute(to)]
Plain(from, to) ==
    [start |-> Minute(from), end |-> Minute(to),
     startBuffer |-> NoBuffer, endBuffer |-> NoBuffer]
Buffered(from, to, before, after) ==
    [start |-> Minute(from), end |-> Minute(to),
     startBuffer |-> Minute(from - before), endBuffer |-> Minute(to + after)]

MCWorkerOf == (r1 :> w1) @@ (r2 :> w2)
MCWorkerOfOne == r1 :> w1
MCOneWorker == (r1 :> w1) @@ (r2 :> w1)
MCContacts == (meet :> {"GOOGLE_MEET"}) @@ (both :> {"GOOGLE_MEET", "ZOOM"})
MCNoContacts == meet :> {}
MCContactsOfBoth == both :> {"GOOGLE_MEET", "ZOOM"}

(* Times that overlap, one of them with a buffer.                           *)
MCSchedules == {Plain(2, 4), Buffered(3, 5, 1, 0)}
(* One that is past, one that starts outside and one that leaves the hours. *)
MCEdgeSchedules == {Plain(0, 2), Plain(3, 5), Buffered(4, 5, 1, 1), Plain(6, 7)}
(* One that may be booked, also twice, and one that is past.                *)
MCTwoSchedules == {Plain(2, 4), Plain(0, 1)}
MCEngagements == {Plain(4, 5), Plain(1, 3)}
MCSymmetry == Permutations(Requests)

MCHours == [hours |-> {Range(1, 6)}, override |-> NoOverride]
MCOpen == {MCHours}
MCAvailabilities ==
    {MCHours,
     [hours |-> {Range(1, 6)}, override |-> {}],
     [hours |-> {Range(1, 6)}, override |-> {Range(3, 5)}]}
=============================================================================
