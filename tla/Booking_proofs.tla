--------------------------- MODULE Booking_proofs ---------------------------
(***************************************************************************)
(* Theorems about Booking, for any number of requests, workers, events,     *)
(* calendars and times.                                                     *)
(***************************************************************************)
EXTENDS Booking, TLAPS

-----------------------------------------------------------------------------
(* What the conflict query of validate decides, for every length of a        *)
(* minute and every schedule.                                                *)

(* The minute after a whole minute begins with second 1.                    *)
LEMMA NextSecond ==
  ASSUME NEW t \in Int, t % SecondsPerMinute = 0
  PROVE  (t + 1) % SecondsPerMinute = 1
<1>1. SecondsPerMinute \in Nat /\ SecondsPerMinute > 1
  BY SecondsPerMinuteAssumption
<1> DEFINE before == t \div SecondsPerMinute
           after == (t + 1) \div SecondsPerMinute
           second == (t + 1) % SecondsPerMinute
<1>2. before \in Int /\ t % SecondsPerMinute = t - before * SecondsPerMinute
  BY <1>1
<1>3. /\ after \in Int
      /\ second \in Int /\ 0 <= second /\ second < SecondsPerMinute
      /\ second = (t + 1) - after * SecondsPerMinute
  BY <1>1
<1> HIDE DEF before, after, second
<1>4. (before - after) * SecondsPerMinute = second - 1
  <2>1. (before - after) * SecondsPerMinute =
           before * SecondsPerMinute - after * SecondsPerMinute
    BY <1>1, <1>2, <1>3
  <2>2. before * SecondsPerMinute \in Int /\ after * SecondsPerMinute \in Int
    BY <1>1, <1>2, <1>3
  <2> QED  BY <1>2, <1>3, <2>1, <2>2
<1>5. before - after = 0
  <2>1. before - after >= 1 => (before - after) * SecondsPerMinute >= SecondsPerMinute
    BY <1>1, <1>2, <1>3
  <2>2. before - after <= -1 => (before - after) * SecondsPerMinute <= -SecondsPerMinute
    BY <1>1, <1>2, <1>3
  <2> QED  BY <1>1, <1>2, <1>3, <1>4, <2>1, <2>2
<1>6. second = 1
  <2>1. 0 * SecondsPerMinute = 0
    BY <1>1
  <2>2. second - 1 = 0
    BY <1>4, <1>5, <2>1
  <2> QED  BY <1>3, <2>2
<1> QED  BY <1>6 DEF second

(* For a time on whole minutes the bounds are the start plus a second and   *)
(* the end itself: the second meant to be taken off comes back.             *)
LEMMA AlignedBounds ==
  ASSUME NEW s \in ScheduleType, MinuteAligned(s)
  PROVE  QueryStart(s) = EnsuredStart(s) + 1 /\ QueryEnd(s) = EnsuredEnd(s)
<1>1. EnsuredStart(s) \in Int /\ EnsuredEnd(s) \in Int
  BY DEF ScheduleType, EnsuredStart, EnsuredEnd
<1>2. QueryStart(s) % SecondsPerMinute = 1
  BY <1>1, NextSecond DEF QueryStart, MinuteAligned
<1> QED  BY <1>1, <1>2 DEF QueryStart, QueryEnd, SetSeconds, MinuteAligned

(* The query misses no row that shares time with a time on whole minutes.   *)
THEOREM QueryFindsOverlaps ==
  ASSUME NEW s \in ScheduleType, NEW row \in ScheduleType,
         MinuteAligned(s), Overlap(s, row)
  PROVE  ConflictsWith(row, s)
<1>1. /\ EnsuredStart(s) \in Int /\ EnsuredEnd(s) \in Int
      /\ row.start \in Int /\ row.end \in Int
      /\ row.start # NoBuffer /\ row.end # NoBuffer
  BY NoBufferAssumption DEF ScheduleType, EnsuredStart, EnsuredEnd
<1>2. EnsuredStart(s) + 1 <= row.end /\ row.start < EnsuredEnd(s)
  BY <1>1 DEF Overlap
<1> QED
  BY <1>1, <1>2, AlignedBounds DEF ConflictsWith, IsBetween

-----------------------------------------------------------------------------
(* A run that moves to a typed local state leaves all local states typed.   *)
LEMMA RequestTyped ==
  ASSUME request \in [Requests -> RequestType], NEW r \in Requests,
         \E local \in RequestType : Becomes(r, local)
  PROVE  request' \in [Requests -> RequestType]
  BY DEF Becomes

(* A request past SaveRow that has not failed has a row.                    *)
LEMMA RowThere ==
  ASSUME TypeOK, LifecycleInv, NEW r \in Requests,
         request[r].pc \notin BeforeRow \cup {"failed"}
  PROVE  scheduledEvents[r] \in RowType
  BY DEF TypeOK, LifecycleInv, Follows, StoresFollow, Rows

(* The initial stores, settings and requests are typed.                     *)
LEMMA TypeInit == Init => TypeOK
  BY BookingAssumption DEF Init, TypeOK, RequestType, InFlight, Ended

(* No saved row has an iCalUID: a synchronisation finds none to cancel.     *)
LEMMA SyncCancelsNothing ==
  ASSUME TypeOK, LifecycleInv, NEW c \in Calendars, Synchronize(c)
  PROVE  scheduledEvents' = scheduledEvents
<1>1. ToCancel(c) = {}
  <2>1. \A r \in Rows : r \in Requests /\ scheduledEvents[r].iCalUID = NoICalUID
    BY DEF Rows, LifecycleInv, Follows, StoresFollow
  <2>2. copied[c] \subseteq Requests
    BY DEF TypeOK
  <2> QED  BY <2>1, <2>2, BookingAssumption DEF ToCancel
<1>2. scheduledEvents' = [r \in Requests |-> scheduledEvents[r]]
  BY <1>1 DEF Synchronize
<1> QED  BY <1>2 DEF TypeOK

(* Every step keeps the types.                                              *)
LEMMA TypeStep == TypeOK /\ LifecycleInv /\ [Next]_vars => TypeOK'
<1> SUFFICES ASSUME TypeOK, LifecycleInv, [Next]_vars PROVE TypeOK'
  OBVIOUS
<1>1. ASSUME NEW r \in Requests, Receive(r) PROVE TypeOK'
  <2>1. /\ request[r] \in RequestType
        /\ outbound \in Outbounds /\ availability \in Availabilities
    BY DEF TypeOK
  <2>2. \E local \in RequestType : Becomes(r, local)
    BY <1>1, <2>1 DEF Receive, RequestType, InFlight, Ended, LinkVendors
  <2>3. request' \in [Requests -> RequestType]
    BY <2>2, RequestTyped DEF TypeOK
  <2> QED  BY <1>1, <2>3 DEF TypeOK, Receive, copies, settings, observed
<1>2. ASSUME NEW r \in Requests, Validate(r) PROVE TypeOK'
  <2>1. /\ request[r] \in RequestType
        /\ outbound \in Outbounds /\ availability \in Availabilities
    BY DEF TypeOK
  <2>2. \E local \in RequestType : Becomes(r, local)
    BY <1>2, <2>1, BookingAssumption DEF Validate, RequestType, InFlight, Ended, LinkVendors
  <2>3. request' \in [Requests -> RequestType]
    BY <2>2, RequestTyped DEF TypeOK
  <2> QED  BY <1>2, <2>3, BookingAssumption DEF TypeOK, Validate, copies, settings, observed
<1>3. ASSUME NEW r \in Requests, QueryNative(r) PROVE TypeOK'
  <2>1. /\ request[r] \in RequestType
        /\ outbound \in Outbounds /\ availability \in Availabilities
    BY DEF TypeOK
  <2>2. \E local \in RequestType : Becomes(r, local)
    BY <1>3, <2>1 DEF QueryNative, Answer, Rows, RequestType, InFlight, Ended, LinkVendors
  <2>3. request' \in [Requests -> RequestType]
    BY <2>2, RequestTyped DEF TypeOK
  <2> QED  BY <1>3, <2>3 DEF TypeOK, QueryNative, Answer, Rows, copies, settings, observed
<1>4. ASSUME NEW r \in Requests, QueryCalendar(r) PROVE TypeOK'
  <2>1. /\ request[r] \in RequestType
        /\ outbound \in Outbounds /\ availability \in Availabilities
    BY DEF TypeOK
  <2>2. \E local \in RequestType : Becomes(r, local)
    BY <1>4, <2>1 DEF QueryCalendar, Answer, RequestType, InFlight, Ended, LinkVendors
  <2>3. request' \in [Requests -> RequestType]
    BY <2>2, RequestTyped DEF TypeOK
  <2>4. request[r].calendar \in Calendars \cup {NoCalendar}
    BY <2>1 DEF RequestType
  <2> QED  BY <1>4, <2>3, <2>4 DEF TypeOK, QueryCalendar, Answer, copies, settings, observed
<1>5. ASSUME NEW r \in Requests, SaveRow(r) PROVE TypeOK'
  <2>1. /\ request[r] \in RequestType
        /\ outbound \in Outbounds /\ availability \in Availabilities
    BY DEF TypeOK
  <2>2. \E local \in RequestType : Becomes(r, local)
    BY <1>5, <2>1 DEF SaveRow, RequestType, InFlight, Ended, LinkVendors
  <2>3. request' \in [Requests -> RequestType]
    BY <2>2, RequestTyped DEF TypeOK
  <2>4. [schedule |-> request[r].schedule, event |-> request[r].event,
         status |-> "OPENED", conferenceLinks |-> {},
         iCalUID |-> request[r].iCalUID, deleted |-> FALSE] \in RowType
    BY <2>1 DEF RequestType, RowType
  <2> QED  BY <1>5, <2>3, <2>4 DEF TypeOK, SaveRow, copies, settings, observed
<1>6. ASSUME NEW r \in Requests, SaveBody(r) PROVE TypeOK'
  <2>1. /\ request[r] \in RequestType
        /\ outbound \in Outbounds /\ availability \in Availabilities
    BY DEF TypeOK
  <2>2. \E local \in RequestType : Becomes(r, local)
    BY <1>6, <2>1 DEF SaveBody, RequestType, InFlight, Ended, LinkVendors
  <2>3. request' \in [Requests -> RequestType]
    BY <2>2, RequestTyped DEF TypeOK
  <2> QED  BY <1>6, <2>3 DEF TypeOK, SaveBody, copies, settings, observed
<1>7. ASSUME NEW r \in Requests, LoadOutbound(r) PROVE TypeOK'
  <2>1. /\ request[r] \in RequestType
        /\ outbound \in Outbounds /\ availability \in Availabilities
    BY DEF TypeOK
  <2>2. \E local \in RequestType : Becomes(r, local)
    BY <1>7, <2>1, BookingAssumption DEF LoadOutbound, RequestType, InFlight, Ended, LinkVendors
  <2>3. request' \in [Requests -> RequestType]
    BY <2>2, RequestTyped DEF TypeOK
  <2> QED  BY <1>7, <2>3, BookingAssumption DEF TypeOK, LoadOutbound, copies, settings, observed
<1>8. ASSUME NEW r \in Requests, CreateOutboundEvent(r) PROVE TypeOK'
  <2>1. /\ request[r] \in RequestType
        /\ outbound \in Outbounds /\ availability \in Availabilities
    BY DEF TypeOK
  <2>2. \E local \in RequestType : Becomes(r, local)
    BY <1>8, <2>1 DEF CreateOutboundEvent, RequestType, InFlight, Ended, LinkVendors
  <2>3. request' \in [Requests -> RequestType]
    BY <2>2, RequestTyped DEF TypeOK
  <2>4. request[r].calendar \in Calendars \cup {NoCalendar}
    BY <2>1 DEF RequestType
  <2> QED  BY <1>8, <2>3, <2>4 DEF TypeOK, CreateOutboundEvent, copies, settings, observed
<1>9. ASSUME NEW r \in Requests, WarnOutboundFailed(r) PROVE TypeOK'
  <2>1. /\ request[r] \in RequestType
        /\ outbound \in Outbounds /\ availability \in Availabilities
    BY DEF TypeOK
  <2>2. \E local \in RequestType : Becomes(r, local)
    BY <1>9, <2>1 DEF WarnOutboundFailed, RequestType, InFlight, Ended, LinkVendors
  <2>3. request' \in [Requests -> RequestType]
    BY <2>2, RequestTyped DEF TypeOK
  <2>4. request[r].calendar \in Calendars \cup {NoCalendar}
    BY <2>1 DEF RequestType
  <2> QED  BY <1>9, <2>3, <2>4 DEF TypeOK, WarnOutboundFailed, copies, settings, observed
<1>10. ASSUME NEW r \in Requests, LinkGoogleMeet(r) PROVE TypeOK'
  <2>1. /\ request[r] \in RequestType
        /\ outbound \in Outbounds /\ availability \in Availabilities
    BY DEF TypeOK
  <2>2. \E local \in RequestType : Becomes(r, local)
    BY <1>10, <2>1 DEF LinkGoogleMeet, Asked, RequestType, InFlight, Ended, LinkVendors
  <2>3. request' \in [Requests -> RequestType]
    BY <2>2, RequestTyped DEF TypeOK
  <2> QED  BY <1>10, <2>3 DEF TypeOK, LinkGoogleMeet, copies, settings, observed
<1>11. ASSUME NEW r \in Requests, LinkZoom(r) PROVE TypeOK'
  <2>1. /\ request[r] \in RequestType
        /\ outbound \in Outbounds /\ availability \in Availabilities
    BY DEF TypeOK
  <2>2. \E local \in RequestType : Becomes(r, local)
    BY <1>11, <2>1 DEF LinkZoom, Asked, RequestType, InFlight, Ended, LinkVendors
  <2>3. request' \in [Requests -> RequestType]
    BY <2>2, RequestTyped DEF TypeOK
  <2> QED  BY <1>11, <2>3 DEF TypeOK, LinkZoom, copies, settings, observed
<1>12. ASSUME NEW r \in Requests, LinkZoomFails(r) PROVE TypeOK'
  <2>1. /\ request[r] \in RequestType
        /\ outbound \in Outbounds /\ availability \in Availabilities
    BY DEF TypeOK
  <2>2. \E local \in RequestType : Becomes(r, local)
    BY <1>12, <2>1 DEF LinkZoomFails, Asked, RequestType, InFlight, Ended, LinkVendors
  <2>3. request' \in [Requests -> RequestType]
    BY <2>2, RequestTyped DEF TypeOK
  <2> QED  BY <1>12, <2>3 DEF TypeOK, LinkZoomFails, copies, settings, observed
<1>13. ASSUME NEW r \in Requests, StoreLinks(r) PROVE TypeOK'
  <2>1. /\ request[r] \in RequestType
        /\ outbound \in Outbounds /\ availability \in Availabilities
    BY DEF TypeOK
  <2>2. \E local \in RequestType : Becomes(r, local)
    BY <1>13, <2>1 DEF StoreLinks, RequestType, InFlight, Ended, LinkVendors
  <2>3. request' \in [Requests -> RequestType]
    BY <2>2, RequestTyped DEF TypeOK
  <2>4. scheduledEvents[r] \in RowType
    BY <1>13, RowThere DEF BeforeRow, StoreLinks
  <2>5. [scheduledEvents[r] EXCEPT !.conferenceLinks = request[r].links] \in RowType
    BY <2>1, <2>4 DEF RequestType, RowType
  <2> QED  BY <1>13, <2>3, <2>5 DEF TypeOK, StoreLinks, copies, settings, observed
<1>14. ASSUME NEW r \in Requests, Publish(r) PROVE TypeOK'
  <2>1. /\ request[r] \in RequestType
        /\ outbound \in Outbounds /\ availability \in Availabilities
    BY DEF TypeOK
  <2>2. \E local \in RequestType : Becomes(r, local)
    BY <1>14, <2>1 DEF Publish, RequestType, InFlight, Ended, LinkVendors
  <2>3. request' \in [Requests -> RequestType]
    BY <2>2, RequestTyped DEF TypeOK
  <2> QED  BY <1>14, <2>3 DEF TypeOK, Publish, copies, settings, observed
<1>15. ASSUME NEW r \in Requests, Confirm(r) PROVE TypeOK'
  <2>1. /\ request[r] \in RequestType
        /\ outbound \in Outbounds /\ availability \in Availabilities
    BY DEF TypeOK
  <2>2. \E local \in RequestType : Becomes(r, local)
    BY <1>15, <2>1 DEF Confirm, RequestType, InFlight, Ended, LinkVendors
  <2>3. request' \in [Requests -> RequestType]
    BY <2>2, RequestTyped DEF TypeOK
  <2>4. scheduledEvents[r] \in RowType
    BY <1>15, RowThere DEF BeforeRow, Confirm
  <2>5. [scheduledEvents[r] EXCEPT !.status = "CONFIRMED"] \in RowType
    BY <2>1, <2>4 DEF RequestType, RowType
  <2> QED  BY <1>15, <2>3, <2>5 DEF TypeOK, Confirm, copies, settings, observed
<1>16. ASSUME NEW r \in Requests, Fail(r) PROVE TypeOK'
  <2>1. /\ request[r] \in RequestType
        /\ outbound \in Outbounds /\ availability \in Availabilities
    BY DEF TypeOK
  <2>2. \E local \in RequestType : Becomes(r, local)
    BY <1>16, <2>1 DEF Fail, RequestType, InFlight, Ended, LinkVendors
  <2>3. request' \in [Requests -> RequestType]
    BY <2>2, RequestTyped DEF TypeOK
  <2> QED  BY <1>16, <2>3 DEF TypeOK, Fail, copies, settings, observed
<1>17. ASSUME NEW w \in Workers, NEW arrived, Exit(w, arrived) PROVE TypeOK'
  <2>1. \A local \in RequestType :
           [local EXCEPT !.pc = "failed", !.linking = {}] \in RequestType
    BY DEF RequestType, Ended
  <2>2. request' \in [Requests -> RequestType]
    BY <1>17, <2>1 DEF TypeOK, Exit
  <2> QED  BY <1>17, <2>2 DEF TypeOK, Exit, copies, settings, observed
<1>18. ASSUME NEW r \in Requests, SnsAccepts(r) PROVE TypeOK'
  BY <1>18 DEF TypeOK, SnsAccepts, copies, settings, observed
<1>19. CASE ChangeSettings
  BY <1>19 DEF TypeOK, ChangeSettings, copies, observed
<1>20. ASSUME NEW c \in Calendars, NoteEngagements(c) PROVE TypeOK'
  BY <1>20 DEF TypeOK, NoteEngagements, copies, settings, observed
<1>21. ASSUME NEW c \in Calendars, Synchronize(c) PROVE TypeOK'
  <2>1. \A q \in Requests : request[q].schedule \in Schedules
    BY DEF TypeOK, RequestType
  <2>2. CalendarContent(c) \subseteq Schedules \cup Engagements
    BY <2>1 DEF TypeOK, CalendarContent, BookingsIn
  <2>3. PICK rows : /\ rows \subseteq inbound[c] \cup CalendarContent(c)
                    /\ inbound' = [inbound EXCEPT ![c] = rows]
    <3>1. PICK stale \in SUBSET ((inbound[c] \cap Engagements) \ CalendarContent(c)),
               moved \in SUBSET (engagements[c] \ inbound[c]) :
             inbound' = [inbound EXCEPT ![c] = (CalendarContent(c) \ moved) \cup stale]
      BY <1>21 DEF Synchronize
    <3> QED  BY <3>1
  <2>4. inbound' \in [Calendars -> SUBSET (Schedules \cup Engagements)]
    BY <2>2, <2>3 DEF TypeOK
  <2>5. copied' \in [Calendars -> SUBSET Requests]
    BY <1>21 DEF Synchronize, BookingsIn, TypeOK
  <2>6. scheduledEvents' = scheduledEvents
    BY <1>21, SyncCancelsNothing
  <2> QED  BY <1>21, <2>4, <2>5, <2>6 DEF TypeOK, Synchronize, settings, observed
<1>23. ASSUME NEW r \in Requests, RemoveBookingEvent(r) PROVE TypeOK'
  BY <1>23 DEF TypeOK, RemoveBookingEvent, copies, settings, observed
<1>22. CASE UNCHANGED vars
  BY <1>22 DEF TypeOK, vars, copies, settings, observed
<1> QED
  BY <1>1, <1>2, <1>3, <1>4, <1>5, <1>6, <1>7, <1>8, <1>9, <1>10, <1>11,
     <1>12, <1>13, <1>14, <1>15, <1>16, <1>17, <1>18, <1>19, <1>20, <1>21,
     <1>22, <1>23, BookingAssumption
  DEF Next, Serve, Deliver, Crash, SnsRejects


-----------------------------------------------------------------------------
(* A step that leaves everything of a request alone keeps its invariant.    *)
Untouched(q) ==
  /\ request'[q] = request[q]
  /\ scheduledEvents'[q] = scheduledEvents[q]
  /\ bodies'[q] = bodies[q]
  /\ written'[q] = written[q]
  /\ q \in meetings' <=> q \in meetings
  /\ messages'[q] = messages[q]

LEMMA UntouchedFollows ==
  ASSUME NEW q \in Requests, Untouched(q), Follows(q)
  PROVE  Follows(q)'
  BY DEF Untouched, Follows, StoresFollow, OutsideFollows, LinksFollow,
         MessageFollows, HasLinks, Rows, Wants

(* A step of one request needs to be judged for that request only.          *)
LEMMA OneRequestMoves ==
  ASSUME LifecycleInv, NEW r \in Requests, Follows(r)',
         \A q \in Requests \ {r} : Untouched(q)
  PROVE  LifecycleInv'
  BY UntouchedFollows DEF LifecycleInv

(* At the start no request has reached a store.                             *)
LEMMA LifecycleInit == Init => LifecycleInv
  BY DEF Init, LifecycleInv, Follows, StoresFollow, OutsideFollows, LinksFollow,
         MessageFollows, HasLinks, Rows, BeforeRow, BeforeBody, BeforeWrite, LinksDone

(* Validation either refuses a request or starts its queries.               *)
LEMMA ValidateMoves ==
  ASSUME TypeOK, NEW r \in Requests, Validate(r)
  PROVE  /\ request'[r].pc \in {"querying", "refused"}
         /\ request'[r].event = request[r].event
         /\ request'[r].schedule = request[r].schedule
         /\ request'[r].linking = request[r].linking
         /\ request'[r].iCalUID = request[r].iCalUID
         /\ "native" \in request[r].checking => "native" \in request'[r].checking
<1>1. request[r] \in RequestType
  BY DEF TypeOK
<1>2. CASE InvalidTimeRange(request[r].schedule, request[r].hostAvailability, Now)
  <2>1. Becomes(r, [request[r] EXCEPT !.pc = "refused"])
    BY <1>2 DEF Validate
  <2> QED  BY <1>1, <2>1 DEF Becomes, TypeOK, RequestType
<1>3. CASE ~ InvalidTimeRange(request[r].schedule, request[r].hostAvailability, Now)
  <2>1. \E c, queries :
           /\ "native" \in queries
           /\ Becomes(r, [request[r] EXCEPT !.pc = "querying", !.calendar = c,
                                            !.checking = queries])
    <3> DEFINE asked == IF outbound = NoCalendar THEN {"native"} ELSE {"native", "calendar"}
    <3>1. Becomes(r, [request[r] EXCEPT !.pc = "querying", !.calendar = outbound,
                                        !.checking = asked])
      BY <1>3 DEF Validate
    <3>2. "native" \in asked
      OBVIOUS
    <3> HIDE DEF asked
    <3> QED  BY <3>1, <3>2
  <2> QED  BY <1>1, <2>1 DEF Becomes, TypeOK, RequestType
<1> QED  BY <1>2, <1>3

(* Every step keeps the lifecycle of every request.                         *)
LEMMA LifecycleStep == TypeOK /\ LifecycleInv /\ [Next]_vars => LifecycleInv'
<1> SUFFICES ASSUME TypeOK, LifecycleInv, [Next]_vars PROVE LifecycleInv'
  OBVIOUS
<1>1. ASSUME NEW r \in Requests, Receive(r) PROVE LifecycleInv'
  <2>1. \A q \in Requests \ {r} : Untouched(q)
    BY <1>1 DEF Receive, Becomes, Untouched, TypeOK
  <2>2. request[r] \in RequestType /\ Follows(r)
    BY DEF TypeOK, LifecycleInv
  <2>3. Follows(r)'
    BY <1>1, <2>2 DEF Receive, Becomes, TypeOK, RequestType, InFlight, Ended,
       Follows, StoresFollow, OutsideFollows, LinksFollow, MessageFollows, HasLinks, Rows, Wants,
        BeforeRow, BeforeBody, BeforeWrite, LinksDone, LinkVendors
  <2> QED  BY <2>1, <2>3, OneRequestMoves
<1>2. ASSUME NEW r \in Requests, Validate(r) PROVE LifecycleInv'
  <2>1. \A q \in Requests \ {r} : Untouched(q)
    BY <1>2 DEF Validate, Becomes, Untouched, TypeOK
  <2>2. request[r] \in RequestType /\ Follows(r)
    BY DEF TypeOK, LifecycleInv
  <2>4. /\ request'[r].pc \in {"querying", "refused"}
        /\ request'[r].event = request[r].event
        /\ request'[r].schedule = request[r].schedule
        /\ request'[r].linking = request[r].linking
        /\ request'[r].iCalUID = request[r].iCalUID
    BY <1>2, ValidateMoves
  <2>3. Follows(r)'
    BY <1>2, <2>2, <2>4 DEF Validate, Follows, StoresFollow, OutsideFollows, LinksFollow, MessageFollows, HasLinks, Rows, Wants,
        BeforeRow, BeforeBody, BeforeWrite, LinksDone, LinkVendors
  <2> QED  BY <2>1, <2>3, OneRequestMoves
<1>3. ASSUME NEW r \in Requests, QueryNative(r) PROVE LifecycleInv'
  <2>1. \A q \in Requests \ {r} : Untouched(q)
    BY <1>3 DEF QueryNative, Answer, Rows, Becomes, Untouched, TypeOK
  <2>2. request[r] \in RequestType /\ Follows(r)
    BY DEF TypeOK, LifecycleInv
  <2>3. Follows(r)'
    BY <1>3, <2>2 DEF QueryNative, Answer, Rows, Becomes, TypeOK, RequestType, InFlight, Ended,
       Follows, StoresFollow, OutsideFollows, LinksFollow, MessageFollows, HasLinks, Rows, Wants,
        BeforeRow, BeforeBody, BeforeWrite, LinksDone, LinkVendors
  <2> QED  BY <2>1, <2>3, OneRequestMoves
<1>4. ASSUME NEW r \in Requests, QueryCalendar(r) PROVE LifecycleInv'
  <2>1. \A q \in Requests \ {r} : Untouched(q)
    BY <1>4 DEF QueryCalendar, Answer, Becomes, Untouched, TypeOK
  <2>2. request[r] \in RequestType /\ Follows(r)
    BY DEF TypeOK, LifecycleInv
  <2>3. Follows(r)'
    BY <1>4, <2>2 DEF QueryCalendar, Answer, Becomes, TypeOK, RequestType, InFlight, Ended,
       Follows, StoresFollow, OutsideFollows, LinksFollow, MessageFollows, HasLinks, Rows, Wants,
        BeforeRow, BeforeBody, BeforeWrite, LinksDone, LinkVendors
  <2> QED  BY <2>1, <2>3, OneRequestMoves
<1>5. ASSUME NEW r \in Requests, SaveRow(r) PROVE LifecycleInv'
  <2>1. \A q \in Requests \ {r} : Untouched(q)
    BY <1>5 DEF SaveRow, Becomes, Untouched, TypeOK
  <2>2. request[r] \in RequestType /\ Follows(r)
    BY DEF TypeOK, LifecycleInv
  <2>4. [schedule |-> request[r].schedule, event |-> request[r].event,
         status |-> "OPENED", conferenceLinks |-> {},
         iCalUID |-> request[r].iCalUID, deleted |-> FALSE] # NoRow
    <3>1. [schedule |-> request[r].schedule, event |-> request[r].event,
           status |-> "OPENED", conferenceLinks |-> {},
           iCalUID |-> request[r].iCalUID, deleted |-> FALSE] \in RowType
      BY <2>2 DEF RequestType, RowType
    <3> QED  BY <3>1, BookingAssumption
  <2>3. Follows(r)'
    BY <1>5, <2>2, <2>4 DEF SaveRow, Becomes, TypeOK, RequestType, InFlight, Ended,
       Follows, StoresFollow, OutsideFollows, LinksFollow, MessageFollows, HasLinks, Rows, Wants,
        BeforeRow, BeforeBody, BeforeWrite, LinksDone, LinkVendors
  <2> QED  BY <2>1, <2>3, OneRequestMoves
<1>6. ASSUME NEW r \in Requests, SaveBody(r) PROVE LifecycleInv'
  <2>1. \A q \in Requests \ {r} : Untouched(q)
    BY <1>6 DEF SaveBody, Becomes, Untouched, TypeOK
  <2>2. request[r] \in RequestType /\ Follows(r)
    BY DEF TypeOK, LifecycleInv
  <2>3. Follows(r)'
    BY <1>6, <2>2 DEF SaveBody, Becomes, TypeOK, RequestType, InFlight, Ended,
       Follows, StoresFollow, OutsideFollows, LinksFollow, MessageFollows, HasLinks, Rows, Wants,
        BeforeRow, BeforeBody, BeforeWrite, LinksDone, LinkVendors
  <2> QED  BY <2>1, <2>3, OneRequestMoves
<1>7. ASSUME NEW r \in Requests, LoadOutbound(r) PROVE LifecycleInv'
  <2>1. \A q \in Requests \ {r} : Untouched(q)
    BY <1>7 DEF LoadOutbound, Becomes, Untouched, TypeOK
  <2>2. request[r] \in RequestType /\ Follows(r)
    BY DEF TypeOK, LifecycleInv
  <2>3. Follows(r)'
    BY <1>7, <2>2 DEF LoadOutbound, Becomes, TypeOK, RequestType, InFlight, Ended,
       Follows, StoresFollow, OutsideFollows, LinksFollow, MessageFollows, HasLinks, Rows, Wants,
        BeforeRow, BeforeBody, BeforeWrite, LinksDone, LinkVendors
  <2> QED  BY <2>1, <2>3, OneRequestMoves
<1>8. ASSUME NEW r \in Requests, CreateOutboundEvent(r) PROVE LifecycleInv'
  <2>1. \A q \in Requests \ {r} : Untouched(q)
    BY <1>8 DEF CreateOutboundEvent, Becomes, Untouched, TypeOK
  <2>2. request[r] \in RequestType /\ Follows(r)
    BY DEF TypeOK, LifecycleInv
  <2>3. Follows(r)'
    BY <1>8, <2>2 DEF CreateOutboundEvent, Becomes, TypeOK, RequestType, InFlight, Ended,
       Follows, StoresFollow, OutsideFollows, LinksFollow, MessageFollows, HasLinks, Rows, Wants,
        BeforeRow, BeforeBody, BeforeWrite, LinksDone, LinkVendors
  <2> QED  BY <2>1, <2>3, OneRequestMoves
<1>9. ASSUME NEW r \in Requests, WarnOutboundFailed(r) PROVE LifecycleInv'
  <2>1. \A q \in Requests \ {r} : Untouched(q)
    BY <1>9 DEF WarnOutboundFailed, Becomes, Untouched, TypeOK
  <2>2. request[r] \in RequestType /\ Follows(r)
    BY DEF TypeOK, LifecycleInv
  <2>3. Follows(r)'
    BY <1>9, <2>2 DEF WarnOutboundFailed, Becomes, TypeOK, RequestType, InFlight, Ended,
       Follows, StoresFollow, OutsideFollows, LinksFollow, MessageFollows, HasLinks, Rows, Wants,
        BeforeRow, BeforeBody, BeforeWrite, LinksDone, LinkVendors
  <2> QED  BY <2>1, <2>3, OneRequestMoves
<1>10. ASSUME NEW r \in Requests, LinkGoogleMeet(r) PROVE LifecycleInv'
  <2>1. \A q \in Requests \ {r} : Untouched(q)
    BY <1>10 DEF LinkGoogleMeet, Asked, Becomes, Untouched, TypeOK
  <2>2. request[r] \in RequestType /\ Follows(r)
    BY DEF TypeOK, LifecycleInv
  <2>3. Follows(r)'
    BY <1>10, <2>2 DEF LinkGoogleMeet, Asked, Becomes, TypeOK, RequestType, InFlight, Ended,
       Follows, StoresFollow, OutsideFollows, LinksFollow, MessageFollows, HasLinks, Rows, Wants,
        BeforeRow, BeforeBody, BeforeWrite, LinksDone, LinkVendors
  <2> QED  BY <2>1, <2>3, OneRequestMoves
<1>11. ASSUME NEW r \in Requests, LinkZoom(r) PROVE LifecycleInv'
  <2>1. \A q \in Requests \ {r} : Untouched(q)
    BY <1>11 DEF LinkZoom, Asked, Becomes, Untouched, TypeOK
  <2>2. request[r] \in RequestType /\ Follows(r)
    BY DEF TypeOK, LifecycleInv
  <2>3. Follows(r)'
    BY <1>11, <2>2 DEF LinkZoom, Asked, Becomes, TypeOK, RequestType, InFlight, Ended,
       Follows, StoresFollow, OutsideFollows, LinksFollow, MessageFollows, HasLinks, Rows, Wants,
        BeforeRow, BeforeBody, BeforeWrite, LinksDone, LinkVendors
  <2> QED  BY <2>1, <2>3, OneRequestMoves
<1>12. ASSUME NEW r \in Requests, LinkZoomFails(r) PROVE LifecycleInv'
  <2>1. \A q \in Requests \ {r} : Untouched(q)
    BY <1>12 DEF LinkZoomFails, Asked, Becomes, Untouched, TypeOK
  <2>2. request[r] \in RequestType /\ Follows(r)
    BY DEF TypeOK, LifecycleInv
  <2>3. Follows(r)'
    BY <1>12, <2>2 DEF LinkZoomFails, Asked, Becomes, TypeOK, RequestType, InFlight, Ended,
       Follows, StoresFollow, OutsideFollows, LinksFollow, MessageFollows, HasLinks, Rows, Wants,
        BeforeRow, BeforeBody, BeforeWrite, LinksDone, LinkVendors
  <2> QED  BY <2>1, <2>3, OneRequestMoves
<1>13. ASSUME NEW r \in Requests, StoreLinks(r) PROVE LifecycleInv'
  <2>1. \A q \in Requests \ {r} : Untouched(q)
    BY <1>13 DEF StoreLinks, Becomes, Untouched, TypeOK
  <2>2. request[r] \in RequestType /\ Follows(r)
    BY DEF TypeOK, LifecycleInv
  <2>4. scheduledEvents[r] \in RowType
    BY <1>13, RowThere DEF BeforeRow, StoreLinks
  <2>5. [scheduledEvents[r] EXCEPT !.conferenceLinks = request[r].links] # NoRow
    BY <2>2, <2>4, BookingAssumption DEF RequestType, RowType
  <2>6. /\ scheduledEvents'[r] = [scheduledEvents[r] EXCEPT !.conferenceLinks = request[r].links]
        /\ request'[r].pc = "linksStored"
        /\ request'[r].event = request[r].event
        /\ request'[r].schedule = request[r].schedule
        /\ request'[r].linking = request[r].linking
        /\ request'[r].links = request[r].links
        /\ request'[r].iCalUID = request[r].iCalUID
    BY <1>13, <2>2 DEF StoreLinks, Becomes, TypeOK, RequestType
  <2>7. /\ scheduledEvents'[r] # NoRow /\ scheduledEvents[r] # NoRow
        /\ scheduledEvents'[r].event = scheduledEvents[r].event
        /\ scheduledEvents'[r].schedule = scheduledEvents[r].schedule
        /\ scheduledEvents'[r].status = scheduledEvents[r].status
        /\ scheduledEvents'[r].conferenceLinks = request[r].links
        /\ scheduledEvents'[r].iCalUID = scheduledEvents[r].iCalUID
        /\ scheduledEvents'[r].deleted = scheduledEvents[r].deleted
    BY <2>4, <2>5, <2>6, BookingAssumption DEF RowType
  <2>3. Follows(r)'
    BY <1>13, <2>2, <2>6, <2>7 DEF StoreLinks, Follows, StoresFollow, OutsideFollows, LinksFollow,
       MessageFollows, HasLinks, Rows, Wants, BeforeRow, BeforeBody, BeforeWrite, LinksDone
  <2> QED  BY <2>1, <2>3, OneRequestMoves
<1>14. ASSUME NEW r \in Requests, Publish(r) PROVE LifecycleInv'
  <2>1. \A q \in Requests \ {r} : Untouched(q)
    BY <1>14 DEF Publish, Becomes, Untouched, TypeOK
  <2>2. request[r] \in RequestType /\ Follows(r)
    BY DEF TypeOK, LifecycleInv
  <2>3. Follows(r)'
    BY <1>14, <2>2 DEF Publish, Becomes, TypeOK, RequestType, InFlight, Ended,
       Follows, StoresFollow, OutsideFollows, LinksFollow, MessageFollows, HasLinks, Rows, Wants,
        BeforeRow, BeforeBody, BeforeWrite, LinksDone, LinkVendors
  <2> QED  BY <2>1, <2>3, OneRequestMoves
<1>15. ASSUME NEW r \in Requests, Confirm(r) PROVE LifecycleInv'
  <2>1. \A q \in Requests \ {r} : Untouched(q)
    BY <1>15 DEF Confirm, Becomes, Untouched, TypeOK
  <2>2. request[r] \in RequestType /\ Follows(r)
    BY DEF TypeOK, LifecycleInv
  <2>4. scheduledEvents[r] \in RowType
    BY <1>15, RowThere DEF BeforeRow, Confirm
  <2>5. [scheduledEvents[r] EXCEPT !.status = "CONFIRMED"] # NoRow
    BY <2>2, <2>4, BookingAssumption DEF RequestType, RowType
  <2>6. /\ scheduledEvents'[r] = [scheduledEvents[r] EXCEPT !.status = "CONFIRMED"]
        /\ request'[r].pc = "confirmed"
        /\ request'[r].event = request[r].event
        /\ request'[r].schedule = request[r].schedule
        /\ request'[r].linking = request[r].linking
        /\ request'[r].links = request[r].links
        /\ request'[r].iCalUID = request[r].iCalUID
    BY <1>15, <2>2 DEF Confirm, Becomes, TypeOK, RequestType
  <2>7. /\ scheduledEvents'[r] # NoRow /\ scheduledEvents[r] # NoRow
        /\ scheduledEvents'[r].event = scheduledEvents[r].event
        /\ scheduledEvents'[r].schedule = scheduledEvents[r].schedule
        /\ scheduledEvents'[r].conferenceLinks = scheduledEvents[r].conferenceLinks
        /\ scheduledEvents'[r].status = "CONFIRMED"
        /\ scheduledEvents'[r].iCalUID = scheduledEvents[r].iCalUID
        /\ scheduledEvents'[r].deleted = scheduledEvents[r].deleted
    BY <2>4, <2>5, <2>6, BookingAssumption DEF RowType
  <2>3. Follows(r)'
    BY <1>15, <2>2, <2>6, <2>7 DEF Confirm, Follows, StoresFollow, OutsideFollows, LinksFollow,
       MessageFollows, HasLinks, Rows, Wants, BeforeRow, BeforeBody, BeforeWrite, LinksDone
  <2> QED  BY <2>1, <2>3, OneRequestMoves
<1>16. ASSUME NEW r \in Requests, Fail(r) PROVE LifecycleInv'
  <2>1. \A q \in Requests \ {r} : Untouched(q)
    BY <1>16 DEF Fail, Becomes, Untouched, TypeOK
  <2>2. request[r] \in RequestType /\ Follows(r)
    BY DEF TypeOK, LifecycleInv
  <2>3. Follows(r)'
    BY <1>16, <2>2 DEF Fail, Becomes, TypeOK, RequestType, InFlight, Ended,
       Follows, StoresFollow, OutsideFollows, LinksFollow, MessageFollows, HasLinks, Rows, Wants,
        BeforeRow, BeforeBody, BeforeWrite, LinksDone, LinkVendors
  <2> QED  BY <2>1, <2>3, OneRequestMoves
<1>17. ASSUME NEW w \in Workers, NEW arrived, Exit(w, arrived) PROVE LifecycleInv'
  <2> SUFFICES ASSUME NEW q \in Requests PROVE Follows(q)'
    BY DEF LifecycleInv
  <2>1. request[q] \in RequestType /\ Follows(q)
    BY DEF TypeOK, LifecycleInv
  <2>2. QED
    BY <1>17, <2>1 DEF Exit, TypeOK, RequestType, InFlight, Ended,
       Follows, StoresFollow, OutsideFollows, LinksFollow, MessageFollows,
       HasLinks, Rows, Wants, BeforeRow, BeforeBody, BeforeWrite, LinksDone
<1>18. ASSUME NEW r \in Requests, SnsAccepts(r) PROVE LifecycleInv'
  <2>1. \A q \in Requests \ {r} : Untouched(q)
    BY <1>18 DEF SnsAccepts, Untouched, TypeOK
  <2>2. Follows(r)
    BY DEF LifecycleInv
  <2>3. Follows(r)'
    BY <1>18, <2>2 DEF SnsAccepts, TypeOK, Rows, Wants, HasLinks,
       Follows, StoresFollow, OutsideFollows, LinksFollow, MessageFollows
  <2> QED  BY <2>1, <2>3, OneRequestMoves
<1>19. ASSUME UNCHANGED <<scheduledEvents, bodies, written, meetings, messages, request>>
       PROVE  LifecycleInv'
  BY <1>19, UntouchedFollows DEF LifecycleInv, Untouched
<1>20. ASSUME NEW r \in Requests, RemoveBookingEvent(r) PROVE LifecycleInv'
  <2>1. \A q \in Requests \ {r} : Untouched(q)
    BY <1>20 DEF RemoveBookingEvent, Untouched, TypeOK
  <2>2. /\ UNCHANGED <<scheduledEvents, bodies, meetings, messages, request>>
        /\ written'[r] = NoCalendar
    BY <1>20 DEF RemoveBookingEvent, TypeOK
  <2>3. Follows(r)
    BY DEF LifecycleInv
  <2>4. Follows(r)'
    BY <2>2, <2>3 DEF Rows, Wants, HasLinks,
       Follows, StoresFollow, OutsideFollows, LinksFollow, MessageFollows
  <2> QED  BY <2>1, <2>4, OneRequestMoves
<1>21. ASSUME NEW c \in Calendars, Synchronize(c) PROVE LifecycleInv'
  BY <1>19, <1>21, SyncCancelsNothing DEF Synchronize
<1> QED
  BY <1>1, <1>2, <1>3, <1>4, <1>5, <1>6, <1>7, <1>8, <1>9, <1>10, <1>11,
     <1>12, <1>13, <1>14, <1>15, <1>16, <1>17, <1>18, <1>19, <1>20, <1>21,
     BookingAssumption
  DEF Next, Serve, Deliver, Crash, SnsRejects, ChangeSettings, NoteEngagements, vars


-----------------------------------------------------------------------------
(* The reachable states are typed and every request is where its stores say *)
(* it is.                                                                   *)
THEOREM LifecycleCorrect == Spec => [](TypeOK /\ LifecycleInv)
<1>1. Init => TypeOK /\ LifecycleInv
  BY TypeInit, LifecycleInit
<1>2. TypeOK /\ LifecycleInv /\ [Next]_vars => (TypeOK /\ LifecycleInv)'
  BY TypeStep, LifecycleStep
<1> QED  BY <1>1, <1>2, PTL DEF Spec

(* Every reachable state is well typed.                                     *)
THEOREM TypeCorrect == Spec => []TypeOK
  BY LifecycleCorrect, PTL

(* Refused requests leave no row, body, calendar event, meeting or message. *)
THEOREM RefusalIsClean == Spec => []RefusedLeavesNothing
<1>1. TypeOK /\ LifecycleInv => RefusedLeavesNothing
  BY DEF TypeOK, LifecycleInv, Follows, StoresFollow, OutsideFollows, MessageFollows,
     RefusedLeavesNothing, Rows, BeforeRow, BeforeBody, BeforeWrite
<1> QED  BY <1>1, LifecycleCorrect, PTL

(* Bodies, calendar events, meetings and messages stand on saved rows.      *)
THEOREM EffectsAreSaved == Spec => []EffectsHaveRows
<1>1. TypeOK /\ LifecycleInv => EffectsHaveRows
  BY DEF TypeOK, LifecycleInv, Follows, StoresFollow, OutsideFollows, MessageFollows,
     EffectsHaveRows
<1> QED  BY <1>1, LifecycleCorrect, PTL

(* Every confirmed row is complete.                                         *)
THEOREM ConfirmationIsComplete == Spec => []ConfirmedIsComplete
<1>1. TypeOK /\ LifecycleInv => ConfirmedIsComplete
  <2> SUFFICES ASSUME TypeOK, LifecycleInv, NEW r \in Rows,
                      scheduledEvents[r].status = "CONFIRMED"
               PROVE  /\ bodies[r] # "absent"
                      /\ Wants(r, "ZOOM") =>
                            "ZOOM" \in scheduledEvents[r].conferenceLinks /\ r \in meetings
                      /\ Wants(r, "GOOGLE_MEET") /\ written[r] # NoCalendar
                         /\ bodies[r] = "plain" =>
                            "GOOGLE_MEET" \in scheduledEvents[r].conferenceLinks
    BY DEF ConfirmedIsComplete
  <2>1. Follows(r) /\ r \in Requests
    BY DEF LifecycleInv, Rows
  <2>2. request[r].pc = "confirmed"
    BY <2>1 DEF Follows, StoresFollow
  <2> QED
    BY <2>1, <2>2 DEF Follows, StoresFollow, LinksFollow, HasLinks, LinksDone,
       LinkVendors, BeforeBody, BeforeRow
<1> QED  BY <1>1, LifecycleCorrect, PTL

-----------------------------------------------------------------------------
(* Steps that change no row leave every row where it is.                    *)
LEMMA RowsKept ==
  ASSUME scheduledEvents' = scheduledEvents
  PROVE  \A r \in Rows : RowAdvances(r)
  BY DEF Rows, RowAdvances

(* Every step keeps the rows, their events and times, and CONFIRMED.        *)
LEMMA RowsAdvanceStep ==
  TypeOK /\ LifecycleInv /\ [Next]_vars => \A r \in Rows : RowAdvances(r)
<1> SUFFICES ASSUME TypeOK, LifecycleInv, [Next]_vars
             PROVE  \A r \in Rows : RowAdvances(r)
  OBVIOUS
<1>1. ASSUME NEW r \in Requests, SaveRow(r) PROVE \A q \in Rows : RowAdvances(q)
  <2>1. r \notin Rows
    BY <1>1 DEF SaveRow, LifecycleInv, Follows, StoresFollow, BeforeRow
  <2> QED  BY <1>1, <2>1 DEF SaveRow, RowAdvances, Rows, TypeOK
<1>2. ASSUME NEW r \in Requests, StoreLinks(r) PROVE \A q \in Rows : RowAdvances(q)
  <2>1. scheduledEvents[r] \in RowType
    BY <1>2, RowThere DEF BeforeRow, StoreLinks
  <2>2. scheduledEvents[r].status # "CONFIRMED" /\ request[r].links \in SUBSET LinkVendors
    <3>1. scheduledEvents[r].status # "CONFIRMED"
      BY <1>2, <2>1, BookingAssumption
      DEF StoreLinks, LifecycleInv, Follows, StoresFollow, Rows
    <3>2. request[r] \in RequestType
      BY DEF TypeOK
    <3> QED  BY <3>1, <3>2 DEF RequestType
  <2>3. [scheduledEvents[r] EXCEPT !.conferenceLinks = request[r].links] \in RowType
    BY <2>1, <2>2 DEF RowType
  <2>4. scheduledEvents'[r] = [scheduledEvents[r] EXCEPT !.conferenceLinks = request[r].links]
    BY <1>2 DEF StoreLinks, TypeOK
  <2>5. r \in Rows => RowAdvances(r)
    BY <2>1, <2>2, <2>3, <2>4, BookingAssumption DEF RowAdvances, Rows, RowType
  <2>6. \A q \in Rows \ {r} : RowAdvances(q)
    BY <1>2 DEF StoreLinks, RowAdvances, Rows, TypeOK
  <2> QED  BY <2>5, <2>6
<1>3. ASSUME NEW r \in Requests, Confirm(r) PROVE \A q \in Rows : RowAdvances(q)
  <2>1. scheduledEvents[r] \in RowType
    BY <1>3, RowThere DEF BeforeRow, Confirm
  <2>2. scheduledEvents[r].status # "CONFIRMED"
    BY <1>3, <2>1, BookingAssumption
    DEF Confirm, LifecycleInv, Follows, StoresFollow, Rows
  <2>3. [scheduledEvents[r] EXCEPT !.status = "CONFIRMED"] \in RowType
    BY <2>1 DEF RowType
  <2>4. scheduledEvents'[r] = [scheduledEvents[r] EXCEPT !.status = "CONFIRMED"]
    BY <1>3 DEF Confirm, TypeOK
  <2>5. r \in Rows => RowAdvances(r)
    BY <2>1, <2>2, <2>3, <2>4, BookingAssumption DEF RowAdvances, Rows, RowType
  <2>6. \A q \in Rows \ {r} : RowAdvances(q)
    BY <1>3 DEF Confirm, RowAdvances, Rows, TypeOK
  <2> QED  BY <2>5, <2>6
<1>4. CASE scheduledEvents' = scheduledEvents
  BY <1>4, RowsKept
<1>5. ASSUME NEW c \in Calendars, Synchronize(c) PROVE \A q \in Rows : RowAdvances(q)
  BY <1>5, SyncCancelsNothing, RowsKept
<1> QED
  BY <1>1, <1>2, <1>3, <1>4, <1>5
  DEF Next, Serve, Deliver, Crash, SnsRejects, Exit, vars, Receive, Validate,
      QueryNative, QueryCalendar, Answer, SaveBody, LoadOutbound,
      CreateOutboundEvent, WarnOutboundFailed, LinkGoogleMeet, LinkZoom,
      LinkZoomFails, Publish, Fail, SnsAccepts, ChangeSettings, NoteEngagements,
      RemoveBookingEvent

(* Rows are only ever added and confirmed: no step, failure or crash, and no *)
(* synchronisation of a calendar whose booking events the host removes,      *)
(* cancels or deletes a saved booking or changes its event or time.          *)
THEOREM RowsAdvance == Spec => RowsOnlyAdvance
<1>1. TypeOK /\ LifecycleInv /\ [Next]_vars => [\A r \in Rows : RowAdvances(r)]_vars
  BY RowsAdvanceStep
<1> QED  BY <1>1, LifecycleCorrect, PTL DEF Spec, RowsOnlyAdvance

-----------------------------------------------------------------------------
(* A step that leaves a request and what it saw alone keeps its judgement,  *)
(* since the rows it saw stay where they were.                              *)
LEMMA JudgedStays ==
  ASSUME NEW q \in Requests, Judged(q),
         request'[q] = request[q], seen'[q] = seen[q], noticed'[q] = noticed[q],
         q \in Rows' => q \in Rows,
         \A p \in Rows : RowAdvances(p)
  PROVE  Judged(q)'
<1>1. seen[q] \subseteq Rows
  BY DEF Judged
<1>2. seen'[q] \subseteq Rows'
  BY <1>1 DEF RowAdvances
<1>3. \A p \in seen[q] : /\ scheduledEvents'[p].event = scheduledEvents[p].event
                         /\ scheduledEvents'[p].schedule = scheduledEvents[p].schedule
  BY <1>1 DEF RowAdvances
<1> QED  BY <1>2, <1>3 DEF Judged

(* A request past its judgement keeps it.                                   *)
LEMMA JudgedAdvances ==
  ASSUME NEW q \in Requests, Judged(q),
         request'[q].event = request[q].event,
         request'[q].schedule = request[q].schedule,
         seen'[q] = seen[q], noticed'[q] = noticed[q],
         request'[q].pc \notin {"idle", "received", "querying", "validated"},
         q \in Rows' => q \in Rows \/ request[q].pc = "validated",
         \A p \in Rows : RowAdvances(p)
  PROVE  Judged(q)'
<1>1. seen[q] \subseteq Rows
  BY DEF Judged
<1>2. seen'[q] \subseteq Rows'
  BY <1>1 DEF RowAdvances
<1>3. \A p \in seen[q] : /\ scheduledEvents'[p].event = scheduledEvents[p].event
                         /\ scheduledEvents'[p].schedule = scheduledEvents[p].schedule
  BY <1>1 DEF RowAdvances
<1> QED  BY <1>2, <1>3 DEF Judged

(* At the start nothing has been seen.                                      *)
LEMMA JudgedInit == Init => JudgedInv
  BY DEF Init, JudgedInv, Judged, Rows

(* The serving steps after the judgement.                                   *)
LateStep(r) ==
    \/ SaveRow(r) \/ SaveBody(r) \/ LoadOutbound(r)
    \/ CreateOutboundEvent(r) \/ WarnOutboundFailed(r)
    \/ LinkGoogleMeet(r) \/ LinkZoom(r) \/ LinkZoomFails(r)
    \/ StoreLinks(r) \/ Publish(r) \/ Confirm(r) \/ Fail(r)

(* None of them touches what was asked, what was seen or another request.   *)
LEMMA LateStepAdvances ==
  ASSUME TypeOK, LifecycleInv, NEW r \in Requests, LateStep(r)
  PROVE  /\ request'[r].event = request[r].event
         /\ request'[r].schedule = request[r].schedule
         /\ request'[r].checking = request[r].checking
         /\ request'[r].pc \notin {"idle", "received", "querying", "validated"}
         /\ seen' = seen /\ noticed' = noticed
         /\ r \in Rows' => r \in Rows \/ request[r].pc = "validated"
         /\ \A q \in Requests \ {r} : /\ request'[q] = request[q]
                                      /\ q \in Rows' => q \in Rows
<1>1. request[r] \in RequestType
  BY DEF TypeOK
<1>2. CASE SaveRow(r)
  BY <1>1, <1>2 DEF SaveRow, Becomes, Rows, TypeOK, RequestType, observed
<1>3. CASE SaveBody(r)
  BY <1>1, <1>3 DEF SaveBody, Becomes, Rows, TypeOK, RequestType, observed
<1>4. CASE LoadOutbound(r)
  BY <1>1, <1>4 DEF LoadOutbound, Becomes, Rows, TypeOK, RequestType, observed
<1>5. CASE CreateOutboundEvent(r)
  BY <1>1, <1>5 DEF CreateOutboundEvent, Becomes, Rows, TypeOK, RequestType, observed
<1>6. CASE WarnOutboundFailed(r)
  BY <1>1, <1>6 DEF WarnOutboundFailed, Becomes, Rows, TypeOK, RequestType, observed
<1>7. CASE LinkGoogleMeet(r)
  BY <1>1, <1>7 DEF LinkGoogleMeet, Asked, Becomes, Rows, TypeOK, RequestType, observed
<1>8. CASE LinkZoom(r)
  BY <1>1, <1>8 DEF LinkZoom, Asked, Becomes, Rows, TypeOK, RequestType, observed
<1>9. CASE LinkZoomFails(r)
  BY <1>1, <1>9 DEF LinkZoomFails, Asked, Becomes, Rows, TypeOK, RequestType, observed
<1>10. CASE StoreLinks(r)
  <2>1. r \in Rows
    BY <1>10 DEF StoreLinks, LifecycleInv, Follows, StoresFollow, BeforeRow
  <2> QED
    BY <1>1, <1>10, <2>1 DEF StoreLinks, Becomes, Rows, TypeOK, RequestType, observed
<1>11. CASE Publish(r)
  BY <1>1, <1>11 DEF Publish, Becomes, Rows, TypeOK, RequestType, observed
<1>12. CASE Confirm(r)
  <2>1. r \in Rows
    BY <1>12 DEF Confirm, LifecycleInv, Follows, StoresFollow, BeforeRow
  <2> QED
    BY <1>1, <1>12, <2>1 DEF Confirm, Becomes, Rows, TypeOK, RequestType, observed
<1>13. CASE Fail(r)
  BY <1>1, <1>13 DEF Fail, Becomes, Rows, TypeOK, RequestType, observed
<1> QED
  BY <1>2, <1>3, <1>4, <1>5, <1>6, <1>7, <1>8, <1>9, <1>10, <1>11, <1>12,
     <1>13 DEF LateStep

(* An answer after which a request may still be accepted found nothing that *)
(* conflicts with it.                                                       *)
LEMMA AnswerClears ==
  ASSUME TypeOK, NEW r \in Requests, NEW query, NEW found, Answer(r, query, found),
         \/ request'[r].pc = "querying" /\ ~ request'[r].conflict
         \/ request'[r].pc = "validated"
  PROVE  /\ ~ request[r].conflict
         /\ \A s \in found : ~ ConflictsWith(s, request[r].schedule)
<1>1. request[r] \in RequestType
  BY DEF TypeOK
<1> QED  BY <1>1 DEF Answer, Becomes, TypeOK, RequestType

(* Every step keeps the judgement of every request.                         *)
LEMMA JudgedStep ==
  TypeOK /\ LifecycleInv /\ JudgedInv /\ [Next]_vars => JudgedInv'
<1> SUFFICES ASSUME TypeOK, LifecycleInv, JudgedInv, [Next]_vars,
                    NEW q \in Requests
             PROVE  Judged(q)'
  BY DEF JudgedInv
<1>1. \A p \in Rows : RowAdvances(p)
  BY RowsAdvanceStep
<1>2. Judged(q) /\ request[q] \in RequestType /\ StoresFollow(q)
  BY DEF JudgedInv, TypeOK, LifecycleInv, Follows
<1>3. ASSUME NEW r \in Requests, Receive(r) PROVE Judged(q)'
  <2>1. CASE q = r
    BY <1>2, <1>3, <2>1
    DEF Receive, Becomes, Judged, StoresFollow, BeforeRow, Rows, TypeOK, RequestType, observed
  <2>2. CASE q # r
    BY <1>1, <1>2, <1>3, <2>2, JudgedStays DEF Receive, Becomes, Rows, TypeOK, observed
  <2> QED  BY <2>1, <2>2
<1>4. ASSUME NEW r \in Requests, Validate(r) PROVE Judged(q)'
  <2>1. CASE q = r
    <3>1. seen'[q] = {} /\ noticed'[q] = {} /\ q \notin Rows'
      BY <1>2, <1>4, <2>1 DEF Validate, Judged, StoresFollow, BeforeRow, Rows, observed
    <3>2. request'[q].pc \in {"querying", "refused"}
      BY <1>4, <2>1, ValidateMoves
    <3> QED  BY <3>1, <3>2 DEF Judged
  <2>2. CASE q # r
    BY <1>1, <1>2, <1>4, <2>2, JudgedStays DEF Validate, Becomes, Rows, TypeOK, observed
  <2> QED  BY <2>1, <2>2
<1>5. ASSUME NEW r \in Requests, QueryNative(r) PROVE Judged(q)'
  <2>1. CASE q = r
    <3>1. /\ scheduledEvents' = scheduledEvents
          /\ seen'[q] = Rows /\ noticed'[q] = noticed[q]
          /\ request[q].pc = "querying" /\ q \notin Rows
      BY <1>2, <1>5, <2>1 DEF QueryNative, Answer, StoresFollow, BeforeRow, TypeOK
    <3>2. /\ request'[q].event = request[q].event
          /\ request'[q].schedule = request[q].schedule
          /\ request'[q].pc \in {"querying", "refused", "validated"}
          /\ request'[q].pc = "validated" => request'[q].checking = {}
      BY <1>2, <1>5, <2>1 DEF QueryNative, Answer, Becomes, TypeOK, RequestType
    <3>3. \/ request'[q].pc = "querying" /\ ~ request'[q].conflict
          \/ request'[q].pc = "validated"
          => /\ ~ request[q].conflict
             /\ \A p \in Rows : scheduledEvents[p].event = request[q].event =>
                   ~ ConflictsWith(scheduledEvents[p].schedule, request[q].schedule)
      <4> DEFINE found == {scheduledEvents[p].schedule :
                             p \in {p \in Rows : scheduledEvents[p].event = request[r].event}}
      <4>1. Answer(r, "native", found)
        BY <1>5 DEF QueryNative
      <4>2. \A p \in Rows : scheduledEvents[p].event = request[r].event =>
               scheduledEvents[p].schedule \in found
        OBVIOUS
      <4> HIDE DEF found
      <4> QED  BY <2>1, <4>1, <4>2, AnswerClears
    <3>4. Rows' = Rows /\ q \notin Rows'
      BY <3>1 DEF Rows
    <3>5. ASSUME \/ request'[q].pc = "querying" /\ ~ request'[q].conflict
                 \/ request'[q].pc = "validated"
          PROVE  /\ \A p \in seen'[q] :
                       scheduledEvents'[p].event = request'[q].event =>
                          ~ ConflictsWith(scheduledEvents'[p].schedule, request'[q].schedule)
                 /\ \A s \in noticed'[q] : ~ ConflictsWith(s, request'[q].schedule)
      <4>1. ~ request[q].conflict
        BY <3>3, <3>5, Zenon
      <4>2. /\ \A p \in seen[q] :
                  scheduledEvents[p].event = request[q].event =>
                     ~ ConflictsWith(scheduledEvents[p].schedule, request[q].schedule)
            /\ \A s \in noticed[q] : ~ ConflictsWith(s, request[q].schedule)
        BY <1>2, <3>1, <4>1, Zenon DEF Judged
      <4> QED  BY <3>1, <3>2, <3>3, <3>5, <4>2, Zenon
    <3>6. seen'[q] \subseteq Rows'
      BY <1>2, <3>1, <3>4 DEF Judged
    <3>7. request'[q].pc \notin {"idle", "received"}
      BY <3>2
    <3> QED  BY <3>2, <3>4, <3>5, <3>6, <3>7, Zenon DEF Judged
  <2>2. CASE q # r
    BY <1>1, <1>2, <1>5, <2>2, JudgedStays DEF QueryNative, Answer, Becomes, Rows, TypeOK
  <2> QED  BY <2>1, <2>2
<1>6. ASSUME NEW r \in Requests, QueryCalendar(r) PROVE Judged(q)'
  <2>1. CASE q = r
    <3>1. /\ scheduledEvents' = scheduledEvents
          /\ seen'[q] = seen[q] /\ noticed'[q] = inbound[request[q].calendar]
          /\ request[q].pc = "querying" /\ q \notin Rows
      BY <1>2, <1>6, <2>1 DEF QueryCalendar, Answer, StoresFollow, BeforeRow, TypeOK
    <3>2. /\ request'[q].event = request[q].event
          /\ request'[q].schedule = request[q].schedule
          /\ request'[q].pc \in {"querying", "refused", "validated"}
          /\ request'[q].pc = "validated" => request'[q].checking = {}
      BY <1>2, <1>6, <2>1 DEF QueryCalendar, Answer, Becomes, TypeOK, RequestType
    <3>3. \/ request'[q].pc = "querying" /\ ~ request'[q].conflict
          \/ request'[q].pc = "validated"
          => /\ ~ request[q].conflict
             /\ \A s \in inbound[request[q].calendar] :
                   ~ ConflictsWith(s, request[q].schedule)
      BY <1>6, <2>1, AnswerClears DEF QueryCalendar
    <3>4. Rows' = Rows /\ q \notin Rows'
      BY <3>1 DEF Rows
    <3>5. ASSUME \/ request'[q].pc = "querying" /\ ~ request'[q].conflict
                 \/ request'[q].pc = "validated"
          PROVE  /\ \A p \in seen'[q] :
                       scheduledEvents'[p].event = request'[q].event =>
                          ~ ConflictsWith(scheduledEvents'[p].schedule, request'[q].schedule)
                 /\ \A s \in noticed'[q] : ~ ConflictsWith(s, request'[q].schedule)
      <4>1. ~ request[q].conflict
        BY <3>3, <3>5, Zenon
      <4>2. /\ \A p \in seen[q] :
                  scheduledEvents[p].event = request[q].event =>
                     ~ ConflictsWith(scheduledEvents[p].schedule, request[q].schedule)
            /\ \A s \in noticed[q] : ~ ConflictsWith(s, request[q].schedule)
        BY <1>2, <3>1, <4>1, Zenon DEF Judged
      <4> QED  BY <3>1, <3>2, <3>3, <3>5, <4>2, Zenon
    <3>6. seen'[q] \subseteq Rows'
      BY <1>2, <3>1, <3>4 DEF Judged
    <3>7. request'[q].pc \notin {"idle", "received"}
      BY <3>2
    <3> QED  BY <3>2, <3>4, <3>5, <3>6, <3>7, Zenon DEF Judged
  <2>2. CASE q # r
    BY <1>1, <1>2, <1>6, <2>2, JudgedStays DEF QueryCalendar, Answer, Becomes, Rows, TypeOK
  <2> QED  BY <2>1, <2>2
<1>7. ASSUME NEW r \in Requests, LateStep(r) PROVE Judged(q)'
  <2>1. CASE q = r
    BY <1>1, <1>2, <1>7, <2>1, LateStepAdvances, JudgedAdvances
  <2>2. CASE q # r
    BY <1>1, <1>2, <1>7, <2>2, LateStepAdvances, JudgedStays
  <2> QED  BY <2>1, <2>2
<1>8. ASSUME NEW w \in Workers, NEW arrived, Exit(w, arrived) PROVE Judged(q)'
  <2>1. CASE request'[q] = request[q]
    BY <1>1, <1>2, <1>8, <2>1, JudgedStays DEF Exit, Rows, observed
  <2>2. CASE request'[q] # request[q]
    <3>1. request'[q] = [request[q] EXCEPT !.pc = "failed", !.linking = {}]
      BY <1>8, <2>2 DEF Exit
    <3> QED
      BY <1>1, <1>2, <1>8, <3>1, JudgedAdvances DEF Exit, Rows, RequestType, observed
  <2> QED  BY <2>1, <2>2
<1>9. ASSUME UNCHANGED <<scheduledEvents, request, seen, noticed>> PROVE Judged(q)'
  BY <1>1, <1>2, <1>9, JudgedStays DEF Rows
<1>10. ASSUME NEW c \in Calendars, Synchronize(c) PROVE Judged(q)'
  BY <1>9, <1>10, SyncCancelsNothing DEF Synchronize, observed
<1> QED
  BY <1>3, <1>4, <1>5, <1>6, <1>7, <1>8, <1>9, <1>10, BookingAssumption
  DEF Next, Serve, LateStep, Deliver, SnsAccepts, Crash, SnsRejects, ChangeSettings,
      NoteEngagements, RemoveBookingEvent, observed, vars

(* The reachable states satisfy both inductive invariants.                  *)
THEOREM JudgedCorrect == Spec => []JudgedInv
<1>1. Init => JudgedInv
  BY JudgedInit
<1>2. TypeOK /\ LifecycleInv /\ JudgedInv /\ [Next]_vars => JudgedInv'
  BY JudgedStep
<1> QED  BY <1>1, <1>2, LifecycleCorrect, PTL DEF Spec

-----------------------------------------------------------------------------
(* If the times asked for lie on whole minutes, two bookings of one event   *)
(* overlap only when each was saved after the other one had queried.        *)
THEOREM OnlyRacesOverlap ==
  ASSUME WholeMinutes
  PROVE  Spec => []OverlapOnlyByRace
<1>1. TypeOK /\ LifecycleInv /\ JudgedInv => OverlapOnlyByRace
  <2> SUFFICES ASSUME TypeOK, LifecycleInv, JudgedInv, NEW p \in Rows, NEW q \in Rows,
                      p \in seen[q],
                      scheduledEvents[p].event = scheduledEvents[q].event,
                      Overlap(scheduledEvents[q].schedule, scheduledEvents[p].schedule)
               PROVE  FALSE
    BY DEF OverlapOnlyByRace
  <2>1. p \in Requests /\ q \in Requests
    BY DEF Rows
  <2>2. scheduledEvents[p].schedule \in Schedules /\ scheduledEvents[q].schedule \in Schedules
    BY <2>1 DEF TypeOK, RowType, Rows
  <2>3. ConflictsWith(scheduledEvents[p].schedule, scheduledEvents[q].schedule)
    BY <2>2, QueryFindsOverlaps, BookingAssumption DEF WholeMinutes
  <2>4. ~ ConflictsWith(scheduledEvents[p].schedule, request[q].schedule)
    BY <2>1 DEF JudgedInv, Judged, LifecycleInv, Follows, StoresFollow
  <2>5. request[q].schedule = scheduledEvents[q].schedule
    BY <2>1 DEF LifecycleInv, Follows, StoresFollow
  <2> QED  BY <2>3, <2>4, <2>5
<1> QED  BY <1>1, LifecycleCorrect, JudgedCorrect, PTL

(* On whole minutes a booking never overlaps an engagement its validation   *)
(* found in the outbound calendar.                                          *)
THEOREM CalendarRespected ==
  ASSUME WholeMinutes
  PROVE  Spec => []RespectsCalendar
<1>1. TypeOK /\ LifecycleInv /\ JudgedInv => RespectsCalendar
  <2> SUFFICES ASSUME TypeOK, LifecycleInv, JudgedInv, NEW r \in Rows, NEW s \in noticed[r],
                      Overlap(scheduledEvents[r].schedule, s)
               PROVE  FALSE
    BY DEF RespectsCalendar
  <2>1. r \in Requests
    BY DEF Rows
  <2>2. scheduledEvents[r].schedule \in Schedules /\ s \in Schedules \cup Engagements
    BY <2>1 DEF TypeOK, RowType, Rows
  <2>3. ConflictsWith(s, scheduledEvents[r].schedule)
    BY <2>2, QueryFindsOverlaps, BookingAssumption DEF WholeMinutes
  <2>4. ~ ConflictsWith(s, request[r].schedule)
    BY <2>1 DEF JudgedInv, Judged
  <2>5. request[r].schedule = scheduledEvents[r].schedule
    BY <2>1 DEF LifecycleInv, Follows, StoresFollow
  <2> QED  BY <2>3, <2>4, <2>5
<1> QED  BY <1>1, LifecycleCorrect, JudgedCorrect, PTL

-----------------------------------------------------------------------------
(* The initial states are initial states of the ledger.                     *)
LEMMA LedgerInitially == Init => Ledger!LedgerInit
  BY DEF Init, Ledger!LedgerInit, AskedFor, Looked, Rows, ConfirmedRows

(* A step that keeps what the ledger sees is a stuttering step of it.       *)
LEMMA LedgerStutters ==
  ASSUME \A r \in Requests : /\ request'[r].event = request[r].event
                             /\ request'[r].schedule = request[r].schedule
                             /\ "native" \in request'[r].checking <=>
                                   "native" \in request[r].checking,
         seen' = seen, Rows' = Rows, ConfirmedRows' = ConfirmedRows
  PROVE  UNCHANGED Ledger!ledgerVars
<1>1. AskedFor' = AskedFor
  BY DEF AskedFor
<1>2. Looked' = Looked
  BY DEF Looked
<1> QED  BY <1>1, <1>2 DEF Ledger!ledgerVars

(* Every step is a step of the ledger or stutters: the query of the rows is *)
(* Look, the row Hold, CONFIRMED ConfirmHeld.                               *)
LEMMA LedgerStep ==
  ASSUME WholeMinutes, TypeOK, LifecycleInv, JudgedInv, [Next]_vars
  PROVE  [Ledger!LedgerNext]_(Ledger!ledgerVars)
<1>1. ASSUME NEW r \in Requests, Receive(r) PROVE UNCHANGED Ledger!ledgerVars
  <2>1. request[r] \in RequestType
    BY DEF TypeOK
  <2> QED
    BY <1>1, <2>1, LedgerStutters
    DEF Receive, Becomes, TypeOK, RequestType, Rows, ConfirmedRows, observed
<1>2. ASSUME NEW r \in Requests, Validate(r) PROVE UNCHANGED Ledger!ledgerVars
  <2>1. "native" \in request[r].checking
    BY <1>2 DEF Validate, JudgedInv, Judged
  <2>2. /\ request'[r].event = request[r].event
        /\ request'[r].schedule = request[r].schedule
        /\ "native" \in request'[r].checking
    BY <1>2, <2>1, ValidateMoves
  <2>3. /\ \A q \in Requests \ {r} : request'[q] = request[q]
        /\ seen' = seen /\ Rows' = Rows /\ ConfirmedRows' = ConfirmedRows
    BY <1>2 DEF Validate, Becomes, TypeOK, Rows, ConfirmedRows, observed
  <2> QED  BY <2>1, <2>2, <2>3, LedgerStutters
<1>3. ASSUME NEW r \in Requests, NEW query, NEW found, Answer(r, query, found)
      PROVE  /\ AskedFor' = AskedFor
             /\ query \in request[r].checking
             /\ query # "native" => Looked' = Looked
             /\ query = "native" => r \notin Looked /\ Looked' = Looked \cup {r}
             /\ Rows' = Rows /\ ConfirmedRows' = ConfirmedRows
  <2>1. request[r] \in RequestType
    BY DEF TypeOK
  <2>2. /\ request'[r].event = request[r].event
        /\ request'[r].schedule = request[r].schedule
        /\ request'[r].checking = request[r].checking \ {query}
        /\ \A q \in Requests \ {r} : request'[q] = request[q]
        /\ query \in request[r].checking
    BY <1>3, <2>1 DEF Answer, Becomes, TypeOK, RequestType
  <2>3. Rows' = Rows /\ ConfirmedRows' = ConfirmedRows
    BY <1>3 DEF Answer, Rows, ConfirmedRows
  <2> QED  BY <2>2, <2>3 DEF AskedFor, Looked
<1>4. ASSUME NEW r \in Requests, QueryNative(r) PROVE Ledger!Look(r)
  <2> DEFINE found == {scheduledEvents[p].schedule :
                         p \in {p \in Rows : scheduledEvents[p].event = request[r].event}}
  <2>1. Answer(r, "native", found)
    BY <1>4 DEF QueryNative
  <2> HIDE DEF found
  <2>2. seen' = [seen EXCEPT ![r] = Rows]
    BY <1>4 DEF QueryNative
  <2> QED  BY <1>3, <2>1, <2>2 DEF Ledger!Look
<1>5. ASSUME NEW r \in Requests, QueryCalendar(r) PROVE UNCHANGED Ledger!ledgerVars
  <2>1. seen' = seen
    BY <1>5 DEF QueryCalendar
  <2>2. Answer(r, "calendar", inbound[request[r].calendar])
    BY <1>5 DEF QueryCalendar
  <2> QED  BY <1>3, <2>1, <2>2 DEF Ledger!ledgerVars
<1>6. ASSUME NEW r \in Requests, LateStep(r)
      PROVE  AskedFor' = AskedFor /\ Looked' = Looked /\ seen' = seen
  BY <1>6, LateStepAdvances DEF AskedFor, Looked
<1>7. ASSUME NEW r \in Requests, SaveRow(r) PROVE Ledger!Hold(r)
  <2>1. AskedFor' = AskedFor /\ Looked' = Looked /\ seen' = seen
    BY <1>6, <1>7 DEF LateStep
  <2>2. r \in Looked /\ r \notin Rows
    BY <1>7 DEF SaveRow, JudgedInv, Judged, LifecycleInv, Follows, StoresFollow,
       BeforeRow, Looked
  <2>3. /\ scheduledEvents'[r] # NoRow /\ ~ scheduledEvents'[r].deleted
        /\ scheduledEvents'[r].status # "CONFIRMED"
    <3>1. request[r] \in RequestType
      BY DEF TypeOK
    <3>2. [schedule |-> request[r].schedule, event |-> request[r].event,
           status |-> "OPENED", conferenceLinks |-> {},
           iCalUID |-> request[r].iCalUID, deleted |-> FALSE] \in RowType
      BY <3>1 DEF RequestType, RowType
    <3> QED  BY <1>7, <3>2, BookingAssumption DEF SaveRow, TypeOK
  <2>4. \A q \in Requests \ {r} : scheduledEvents'[q] = scheduledEvents[q]
    BY <1>7 DEF SaveRow, TypeOK
  <2>5. Rows' = Rows \cup {r} /\ ConfirmedRows' = ConfirmedRows
    BY <2>2, <2>3, <2>4 DEF Rows, ConfirmedRows
  <2>6. ASSUME NEW p \in seen[r] PROVE Ledger!Compatible(r, p)
    <3>1. p \in Requests /\ p \in Rows
      BY DEF JudgedInv, Judged, Rows
    <3>2. /\ scheduledEvents[p].event = request[p].event
          /\ scheduledEvents[p].schedule = request[p].schedule
      BY <3>1 DEF LifecycleInv, Follows, StoresFollow
    <3>3. request[p].event = request[r].event =>
            ~ ConflictsWith(request[p].schedule, request[r].schedule)
      BY <1>7, <3>2 DEF SaveRow, JudgedInv, Judged
    <3>4. request[p] \in RequestType /\ request[r] \in RequestType
      BY <3>1 DEF TypeOK
    <3>5. request[p].schedule \in Schedules /\ request[r].schedule \in Schedules
      BY <3>4 DEF RequestType
    <3>6. request[p].event = request[r].event =>
            ~ Overlap(request[r].schedule, request[p].schedule)
      BY <3>3, <3>5, QueryFindsOverlaps, BookingAssumption DEF WholeMinutes
    <3> QED  BY <3>1, <3>6 DEF Ledger!Compatible, AskedFor, Ledger!Overlap,
                Overlap, Ledger!EnsuredStart, Ledger!EnsuredEnd, EnsuredStart, EnsuredEnd
  <2> QED  BY <2>1, <2>2, <2>5, <2>6 DEF Ledger!Hold
<1>8. ASSUME NEW r \in Requests, Confirm(r) PROVE Ledger!ConfirmHeld(r)
  <2>1. AskedFor' = AskedFor /\ Looked' = Looked /\ seen' = seen
    BY <1>6, <1>8 DEF LateStep
  <2>2. scheduledEvents[r] \in RowType
    BY <1>8, RowThere DEF BeforeRow, Confirm
  <2>3. r \in Rows /\ scheduledEvents[r].status # "CONFIRMED"
    BY <1>8, <2>2, BookingAssumption
    DEF Confirm, LifecycleInv, Follows, StoresFollow, Rows
  <2>4. scheduledEvents'[r] = [scheduledEvents[r] EXCEPT !.status = "CONFIRMED"]
    BY <1>8 DEF Confirm, TypeOK
  <2>5. [scheduledEvents[r] EXCEPT !.status = "CONFIRMED"] \in RowType
    BY <2>2 DEF RowType
  <2>6. /\ scheduledEvents'[r] # NoRow /\ scheduledEvents'[r].status = "CONFIRMED"
        /\ scheduledEvents'[r].deleted = scheduledEvents[r].deleted
    BY <2>2, <2>4, <2>5, BookingAssumption DEF RowType
  <2>7. \A q \in Requests \ {r} : scheduledEvents'[q] = scheduledEvents[q]
    BY <1>8 DEF Confirm, TypeOK
  <2>8. Rows' = Rows /\ ConfirmedRows' = ConfirmedRows \cup {r}
    BY <2>3, <2>6, <2>7 DEF Rows, ConfirmedRows
  <2> QED  BY <2>1, <2>3, <2>8 DEF Ledger!ConfirmHeld, ConfirmedRows
<1>9. ASSUME NEW r \in Requests, StoreLinks(r) PROVE UNCHANGED Ledger!ledgerVars
  <2>1. AskedFor' = AskedFor /\ Looked' = Looked /\ seen' = seen
    BY <1>6, <1>9 DEF LateStep
  <2>2. scheduledEvents[r] \in RowType
    BY <1>9, RowThere DEF BeforeRow, StoreLinks
  <2>3. request[r] \in RequestType
    BY DEF TypeOK
  <2>4. [scheduledEvents[r] EXCEPT !.conferenceLinks = request[r].links] \in RowType
    BY <2>2, <2>3 DEF RowType, RequestType
  <2>5. scheduledEvents'[r] = [scheduledEvents[r] EXCEPT !.conferenceLinks = request[r].links]
    BY <1>9 DEF StoreLinks, TypeOK
  <2>6. /\ scheduledEvents'[r] # NoRow /\ scheduledEvents[r] # NoRow
        /\ scheduledEvents'[r].status = scheduledEvents[r].status
        /\ scheduledEvents'[r].deleted = scheduledEvents[r].deleted
    BY <2>2, <2>4, <2>5, BookingAssumption DEF RowType
  <2>7. \A q \in Requests \ {r} : scheduledEvents'[q] = scheduledEvents[q]
    BY <1>9 DEF StoreLinks, TypeOK
  <2>8. Rows' = Rows /\ ConfirmedRows' = ConfirmedRows
    BY <2>6, <2>7 DEF Rows, ConfirmedRows
  <2> QED  BY <2>1, <2>8 DEF Ledger!ledgerVars
<1>10. ASSUME NEW r \in Requests, LateStep(r), scheduledEvents' = scheduledEvents
       PROVE  UNCHANGED Ledger!ledgerVars
  BY <1>6, <1>10 DEF Ledger!ledgerVars, Rows, ConfirmedRows
<1>11. ASSUME NEW r \in Requests, LateStep(r)
       PROVE  SaveRow(r) \/ StoreLinks(r) \/ Confirm(r) \/ scheduledEvents' = scheduledEvents
  BY <1>11 DEF LateStep, SaveBody, LoadOutbound, CreateOutboundEvent, WarnOutboundFailed,
     LinkGoogleMeet, LinkZoom, LinkZoomFails, Publish, Fail
<1>12. ASSUME NEW w \in Workers, NEW arrived, Exit(w, arrived)
       PROVE  UNCHANGED Ledger!ledgerVars
  <2>1. \A q \in Requests : request[q] \in RequestType
    BY DEF TypeOK
  <2>2. \A q \in Requests :
           \/ request'[q] = request[q]
           \/ request'[q] = [request[q] EXCEPT !.pc = "failed", !.linking = {}]
    BY <1>12 DEF Exit
  <2>3. \A q \in Requests : /\ request'[q].event = request[q].event
                            /\ request'[q].schedule = request[q].schedule
                            /\ request'[q].checking = request[q].checking
    BY <2>1, <2>2 DEF RequestType
  <2> QED  BY <1>12, <2>3, LedgerStutters DEF Exit, Rows, ConfirmedRows, observed
<1>13. ASSUME UNCHANGED <<scheduledEvents, request, seen>>
       PROVE  UNCHANGED Ledger!ledgerVars
  BY <1>13, LedgerStutters DEF Rows, ConfirmedRows
<1>18. ASSUME NEW c \in Calendars, Synchronize(c)
       PROVE  UNCHANGED <<scheduledEvents, request, seen>>
  BY <1>18, SyncCancelsNothing DEF Synchronize, observed
<1>14. CASE \E r \in Requests : QueryNative(r) \/ SaveRow(r) \/ Confirm(r)
  BY <1>4, <1>7, <1>8, <1>14 DEF Ledger!LedgerNext
<1>15. CASE \E r \in Requests :
              Receive(r) \/ Validate(r) \/ QueryCalendar(r) \/ LateStep(r)
  BY <1>1, <1>2, <1>5, <1>9, <1>10, <1>11, <1>14, <1>15
<1>16. CASE \E w \in Workers, arrived \in SUBSET Requests : Exit(w, arrived)
  BY <1>12, <1>16
<1>17. CASE UNCHANGED <<scheduledEvents, request, seen>>
  BY <1>13, <1>17
<1> QED
  BY <1>14, <1>15, <1>16, <1>17, <1>18, BookingAssumption
  DEF Next, Serve, LateStep, Deliver, SnsAccepts, Crash, SnsRejects, ChangeSettings,
      NoteEngagements, RemoveBookingEvent, observed, vars

(* On whole minutes the booking path implements the ledger of times.        *)
THEOREM BookingImplementsLedger ==
  ASSUME WholeMinutes
  PROVE  Spec => ImplementsLedger
<1>1. Init => Ledger!LedgerInit
  BY LedgerInitially
<1>2. TypeOK /\ LifecycleInv /\ JudgedInv /\ [Next]_vars
      => [Ledger!LedgerNext]_(Ledger!ledgerVars)
  BY LedgerStep
<1> QED
  BY <1>1, <1>2, LifecycleCorrect, JudgedCorrect, PTL
  DEF Spec, ImplementsLedger, Ledger!LedgerSpec
=============================================================================
