------------------------------ MODULE Booking ------------------------------
(***************************************************************************)
(* The booking path of the API: an invitee's POST becomes one run of        *)
(* BookingsService.createScheduledEvent, which reads the event and the      *)
(* host's availability, validates the time, saves the scheduled event row,  *)
(* saves its body in Redis, writes the event to the host's outbound         *)
(* calendar, creates the conference links, stores them in the row,          *)
(* publishes the confirmation message and marks the row CONFIRMED.  There   *)
(* is no transaction around these steps and no lock on the host's time: the *)
(* requests of several invitees, served by the worker processes of a pm2    *)
(* cluster, interleave at every step with each other, with the host's       *)
(* changes of settings and with the synchronisation of the host's calendar. *)
(*                                                                         *)
(* A request saves at most one row, so rows, bodies, calendar events,       *)
(* meetings and messages are named by the request that made them.           *)
(***************************************************************************)
EXTENDS ScheduleRules, FiniteSets

CONSTANTS
    Requests,        \* the bookings asked for
    Workers,         \* worker processes
    WorkerOf,        \* the worker that serves a request
    EventTypes,      \* the host's events
    Contacts,        \* EventTypes -> SUBSET {"GOOGLE_MEET", "ZOOM"}
    Notifies,        \* the events whose settings produce notifications
    Calendars,       \* the host's Google calendar integrations
    NoCalendar,      \* no outbound calendar is set
    NoRow,           \* the request has no row
    NoICalUID,       \* the row has no iCalUID
    Schedules,       \* the times an invitee may ask for
    Engagements,     \* the times the host may note in a calendar himself
    Availabilities,  \* the availabilities the host may set
    Outbounds,       \* the outbound calendars he may choose, or NoCalendar
    ZoomSettings,    \* whether Zoom may be connected, disconnected
    Now              \* the time at which the requests are validated

LinkVendors == {"GOOGLE_MEET", "ZOOM"}

RowType ==
    [schedule : Schedules, event : EventTypes,
     status : {"OPENED", "CONFIRMED", "CANCELED"},
     conferenceLinks : SUBSET LinkVendors,
     iCalUID : Requests \cup {NoICalUID},  \* named by the request, too
     deleted : BOOLEAN]                    \* softDelete

ASSUME BookingAssumption ==
    /\ WorkerOf \in [Requests -> Workers]
    /\ Contacts \in [EventTypes -> SUBSET LinkVendors]
    /\ Notifies \subseteq EventTypes
    /\ NoCalendar \notin Calendars
    /\ Outbounds \subseteq Calendars \cup {NoCalendar}
    /\ ZoomSettings \subseteq BOOLEAN
    /\ Schedules \subseteq ScheduleType
    /\ Engagements \subseteq ScheduleType
    /\ Now \in Int
    /\ NoRow \notin RowType
    /\ NoICalUID \notin Requests

VARIABLES
    (* the stores *)
    scheduledEvents,  \* MySQL: the row of each request, or NoRow
    bodies,           \* Redis: the body of each row: absent, plain or warned
    inbound,          \* MySQL: the times of google_integration_scheduled_event
    copied,           \* rows, and the bookings whose calendar events have one
    (* the outside world *)
    engagements,      \* what the host noted in each calendar himself
    written,          \* the calendar that holds the event of a request
    meetings,         \* the requests a Zoom meeting was created for
    messages,         \* the confirmation on SNS: unsent, sending, sent
    (* the host's settings *)
    availability, outbound, zoomConnected,
    (* the local state of the run that serves each request *)
    request,
    (* observed only by the properties *)
    seen,             \* the requests whose rows existed when a validation
                      \* queried the scheduled events
    noticed           \* the calendar rows that existed when it queried them

copies == <<inbound, copied>>
settings == <<availability, outbound, zoomConnected>>
observed == <<seen, noticed>>
vars == <<scheduledEvents, bodies, copies, engagements, written, meetings,
          messages, settings, request, observed>>

-----------------------------------------------------------------------------
InFlight == {"received", "querying", "validated", "rowSaved", "saved",
             "outbound", "linking", "linksStored", "published"}
Ended == {"refused", "failed", "confirmed"}

RequestType ==
    [pc : {"idle"} \cup InFlight \cup Ended,
     event : EventTypes,
     schedule : Schedules,
     hostAvailability : Availabilities,      \* as read when it was received
     calendar : Calendars \cup {NoCalendar}, \* the outbound calendar in use
     iCalUID : Requests \cup {NoICalUID},    \* of the scheduled event in memory
     checking : SUBSET {"native", "calendar"}, \* queries not yet answered
     conflict : BOOLEAN,
     linking : SUBSET LinkVendors,           \* services not yet answered
     links : SUBSET LinkVendors]             \* links obtained so far

TypeOK ==
    /\ scheduledEvents \in [Requests -> RowType \cup {NoRow}]
    /\ bodies \in [Requests -> {"absent", "plain", "warned"}]
    /\ inbound \in [Calendars -> SUBSET (Schedules \cup Engagements)]
    /\ copied \in [Calendars -> SUBSET Requests]
    /\ engagements \in [Calendars -> SUBSET Engagements]
    /\ written \in [Requests -> Calendars \cup {NoCalendar}]
    /\ meetings \in SUBSET Requests
    /\ messages \in [Requests -> {"unsent", "sending", "sent"}]
    /\ availability \in Availabilities
    /\ outbound \in Outbounds
    /\ zoomConnected \in ZoomSettings
    /\ request \in [Requests -> RequestType]
    /\ seen \in [Requests -> SUBSET Requests]
    /\ noticed \in [Requests -> SUBSET (Schedules \cup Engagements)]

Init ==
    /\ scheduledEvents = [r \in Requests |-> NoRow]
    /\ bodies = [r \in Requests |-> "absent"]
    /\ inbound = [c \in Calendars |-> {}] /\ copied = [c \in Calendars |-> {}]
    /\ engagements = [c \in Calendars |-> {}]
    /\ written = [r \in Requests |-> NoCalendar]
    /\ meetings = {}
    /\ messages = [r \in Requests |-> "unsent"]
    /\ availability \in Availabilities
    /\ outbound \in Outbounds
    /\ zoomConnected \in ZoomSettings
    /\ \E e \in [Requests -> EventTypes], s \in [Requests -> Schedules] :
          request = [r \in Requests |->
              [pc |-> "idle", event |-> e[r], schedule |-> s[r],
               hostAvailability |-> availability, calendar |-> NoCalendar,
               iCalUID |-> NoICalUID,
               checking |-> {"native"}, conflict |-> FALSE,
               linking |-> {}, links |-> {}]]
    /\ seen = [r \in Requests |-> {}]
    /\ noticed = [r \in Requests |-> {}]

-----------------------------------------------------------------------------
(* The rows a query finds: TypeORM leaves the soft-deleted ones out.        *)
Rows == {r \in Requests : scheduledEvents[r] # NoRow /\ ~ scheduledEvents[r].deleted}

(* What a calendar holds: the host's own notes and the events of bookings.  *)
BookingsIn(c) == {r \in Requests : written[r] = c}
CalendarContent(c) ==
    engagements[c] \cup {request[r].schedule : r \in BookingsIn(c)}

(* The run of a request moves on: its local state becomes the one given.    *)
Becomes(r, local) == request' = [request EXCEPT ![r] = local]

(* createScheduledEvent: the event, the team and the host's availability    *)
(* are read before anything else.                                           *)
Receive(r) ==
    /\ request[r].pc = "idle"
    /\ Becomes(r, [request[r] EXCEPT !.pc = "received",
                                  !.hostAvailability = availability])
    /\ UNCHANGED <<scheduledEvents, bodies, copies, engagements, written,
                   meetings, messages, settings, observed>>

(* validate, up to the queries: the outbound calendar is loaded; a time the *)
(* availability does not allow is refused; otherwise the queries start.     *)
Validate(r) ==
    /\ request[r].pc = "received"
    /\ IF InvalidTimeRange(request[r].schedule, request[r].hostAvailability, Now)
       THEN Becomes(r, [request[r] EXCEPT !.pc = "refused"])
       ELSE Becomes(r, [request[r] EXCEPT
              !.pc = "querying",
              !.calendar = outbound,
              !.checking = IF outbound = NoCalendar
                           THEN {"native"} ELSE {"native", "calendar"}])
    /\ UNCHANGED <<scheduledEvents, bodies, copies, engagements, written,
                   meetings, messages, settings, observed>>

(* Faulty variant of Answer: the last answer decides alone.                 *)
AnswerLastWins(r, query, found) ==
    LET pending == request[r].checking \ {query}
        clash == \E s \in found : ConflictsWith(s, request[r].schedule)
    IN  /\ request[r].pc = "querying"
        /\ query \in request[r].checking
        /\ Becomes(r, [request[r] EXCEPT
              !.checking = pending,
              !.conflict = clash,
              !.pc = IF pending # {} THEN "querying"
                        ELSE IF clash THEN "refused" ELSE "validated"])
        /\ UNCHANGED <<scheduledEvents, bodies, copies, engagements, written,
                       meetings, messages, settings>>

(* forkJoin over the queries: they answer in either order and the request   *)
(* is judged when the last one has answered.                                *)
Answer(r, query, found) ==
    LET pending == request[r].checking \ {query}
        clash == request[r].conflict
                 \/ \E s \in found : ConflictsWith(s, request[r].schedule)
    IN  /\ request[r].pc = "querying"
        /\ query \in request[r].checking
        /\ Becomes(r, [request[r] EXCEPT
              !.checking = pending,
              !.conflict = clash,
              !.pc = IF pending # {} THEN "querying"
                        ELSE IF clash THEN "refused" ELSE "validated"])
        /\ UNCHANGED <<scheduledEvents, bodies, copies, engagements, written,
                       meetings, messages, settings>>

(* Faulty variant of QueryNative: only CONFIRMED rows are looked at.        *)
QueryNativeConfirmed(r) ==
    /\ Answer(r, "native",
              {scheduledEvents[q].schedule :
                 q \in {p \in Rows : /\ scheduledEvents[p].event = request[r].event
                                    /\ scheduledEvents[p].status = "CONFIRMED"}})
    /\ seen' = [seen EXCEPT ![r] = Rows]
    /\ UNCHANGED noticed

(* The rows of the same event, of whatever status.                          *)
QueryNative(r) ==
    /\ Answer(r, "native",
              {scheduledEvents[q].schedule :
                 q \in {p \in Rows : scheduledEvents[p].event = request[r].event}})
    /\ seen' = [seen EXCEPT ![r] = Rows]
    /\ UNCHANGED noticed

(* The rows synchronised from the outbound calendar.                        *)
QueryCalendar(r) ==
    /\ request[r].calendar # NoCalendar
    /\ Answer(r, "calendar", inbound[request[r].calendar])
    /\ noticed' = [noticed EXCEPT ![r] = inbound[request[r].calendar]]
    /\ UNCHANGED seen

(* Faulty variants of SaveRow: not waiting for the queries, and a row       *)
(* without its conference links.                                            *)
SaveRowEarly(r) ==
    /\ request[r].pc \in {"querying", "validated"}
    /\ scheduledEvents' = [scheduledEvents EXCEPT ![r] =
          [schedule |-> request[r].schedule, event |-> request[r].event,
           status |-> "OPENED", conferenceLinks |-> {},
           iCalUID |-> request[r].iCalUID, deleted |-> FALSE]]
    /\ Becomes(r, [request[r] EXCEPT !.pc = "rowSaved"])
    /\ UNCHANGED <<bodies, copies, engagements, written, meetings, messages,
                   settings, observed>>

SaveRowWithoutLinks(r) ==
    /\ request[r].pc = "validated"
    /\ scheduledEvents' = [scheduledEvents EXCEPT ![r] =
          [schedule |-> request[r].schedule, event |-> request[r].event,
           status |-> "OPENED",
           iCalUID |-> request[r].iCalUID, deleted |-> FALSE]]
    /\ Becomes(r, [request[r] EXCEPT !.pc = "rowSaved"])
    /\ UNCHANGED <<bodies, copies, engagements, written, meetings, messages,
                   settings, observed>>

(* __save, first half: the row.  What is written to the calendar later has  *)
(* its iCalUID set on the object in memory only.                            *)
SaveRow(r) ==
    /\ request[r].pc = "validated"
    /\ scheduledEvents' = [scheduledEvents EXCEPT ![r] =
          [schedule |-> request[r].schedule, event |-> request[r].event,
           status |-> "OPENED", conferenceLinks |-> {},
           iCalUID |-> request[r].iCalUID, deleted |-> FALSE]]
    /\ Becomes(r, [request[r] EXCEPT !.pc = "rowSaved"])
    /\ UNCHANGED <<bodies, copies, engagements, written, meetings, messages,
                   settings, observed>>

(* __save, second half: the body.                                           *)
SaveBody(r) ==
    /\ request[r].pc = "rowSaved"
    /\ bodies' = [bodies EXCEPT ![r] = "plain"]
    /\ Becomes(r, [request[r] EXCEPT !.pc = "saved"])
    /\ UNCHANGED <<scheduledEvents, copies, engagements, written, meetings,
                   messages, settings, observed>>

(* The observable of the outbound calendar is subscribed to again, so the   *)
(* calendar the event is written to is read anew and need not be the one    *)
(* the time was validated against.                                          *)
LoadOutbound(r) ==
    /\ request[r].pc = "saved"
    /\ Becomes(r, [request[r] EXCEPT !.pc = "outbound", !.calendar = outbound])
    /\ UNCHANGED <<scheduledEvents, bodies, copies, engagements, written,
                   meetings, messages, settings, observed>>

(* __createOutboundCalendarEvent; without a calendar there is nothing to do *)
CreateOutboundEvent(r) ==
    /\ request[r].pc = "outbound"
    /\ written' = [written EXCEPT ![r] = request[r].calendar]
    /\ Becomes(r, [request[r] EXCEPT
          !.pc = "linking", !.linking = LinkVendors,
          !.iCalUID = IF request[r].calendar = NoCalendar THEN @ ELSE r])
    /\ UNCHANGED <<scheduledEvents, bodies, copies, engagements, meetings,
                   messages, settings, observed>>

(* The vendor refuses, or its answer is lost after it made the event: the   *)
(* booking goes on without a created event, with a warning in its body.     *)
WarnOutboundFailed(r) ==
    /\ request[r].pc = "outbound"
    /\ request[r].calendar # NoCalendar
    /\ bodies' = [bodies EXCEPT ![r] = "warned"]
    /\ \/ UNCHANGED written
       \/ written' = [written EXCEPT ![r] = request[r].calendar]
    /\ Becomes(r, [request[r] EXCEPT !.pc = "linking", !.linking = LinkVendors,
                                  !.calendar = NoCalendar])
    /\ UNCHANGED <<scheduledEvents, copies, engagements, meetings, messages,
                   settings, observed>>

(* The conference services are asked concurrently; once one of them has     *)
(* failed the request, what the other one answers is lost.                  *)
Asked(r, vendor) ==
    /\ request[r].pc \in {"linking", "failed"}
    /\ vendor \in request[r].linking

Wants(r, vendor) == vendor \in Contacts[request[r].event]

(* Faulty variant of LinkGoogleMeet: the link replaces the ones obtained.   *)
LinkGoogleMeetOverwrites(r) ==
    /\ Asked(r, "GOOGLE_MEET")
    /\ Becomes(r, [request[r] EXCEPT
          !.linking = @ \ {"GOOGLE_MEET"},
          !.links = IF Wants(r, "GOOGLE_MEET") /\ request[r].calendar # NoCalendar
                       THEN {"GOOGLE_MEET"} ELSE @])
    /\ UNCHANGED <<scheduledEvents, bodies, copies, engagements, written,
                   meetings, messages, settings, observed>>

(* Google Meet: the link comes with the calendar event just created.        *)
LinkGoogleMeet(r) ==
    /\ Asked(r, "GOOGLE_MEET")
    /\ Becomes(r, [request[r] EXCEPT
          !.linking = @ \ {"GOOGLE_MEET"},
          !.links = IF Wants(r, "GOOGLE_MEET") /\ request[r].calendar # NoCalendar
                       THEN @ \cup {"GOOGLE_MEET"} ELSE @])
    /\ UNCHANGED <<scheduledEvents, bodies, copies, engagements, written,
                   meetings, messages, settings, observed>>

(* Zoom: a meeting is created if the event asks for one; without a Zoom     *)
(* integration of a host that fails.                                        *)
LinkZoom(r) ==
    /\ Asked(r, "ZOOM")
    /\ Wants(r, "ZOOM") => zoomConnected
    /\ Becomes(r, [request[r] EXCEPT
          !.linking = @ \ {"ZOOM"},
          !.links = IF Wants(r, "ZOOM") THEN @ \cup {"ZOOM"} ELSE @])
    /\ meetings' = IF Wants(r, "ZOOM") THEN meetings \cup {r} ELSE meetings
    /\ UNCHANGED <<scheduledEvents, bodies, copies, engagements, written,
                   messages, settings, observed>>

(* Faulty variant of LinkZoomFails: the error is swallowed and the request  *)
(* goes on waiting.                                                         *)
LinkZoomFailsUnnoticed(r) ==
    /\ Asked(r, "ZOOM")
    /\ Wants(r, "ZOOM")
    /\ \/ UNCHANGED meetings
       \/ zoomConnected /\ meetings' = meetings \cup {r}
    /\ UNCHANGED <<scheduledEvents, bodies, copies, engagements, written,
                   messages, settings, request, observed>>

(* Zoom refuses, its answer is lost, or no host has a Zoom integration and  *)
(* reading its refresh token is a TypeError: the request ends in an error.  *)
LinkZoomFails(r) ==
    /\ Asked(r, "ZOOM")
    /\ Wants(r, "ZOOM")
    /\ Becomes(r, [request[r] EXCEPT !.pc = "failed", !.linking = @ \ {"ZOOM"}])
    /\ \/ UNCHANGED meetings
       \/ zoomConnected /\ meetings' = meetings \cup {r}
    /\ UNCHANGED <<scheduledEvents, bodies, copies, engagements, written,
                   messages, settings, observed>>

(* Faulty variants of StoreLinks: the first answer is enough, and the whole *)
(* scheduled event is saved.                                                *)
StoreLinksEarly(r) ==
    /\ request[r].pc = "linking"
    /\ scheduledEvents' = [scheduledEvents EXCEPT
          ![r] = [@ EXCEPT !.conferenceLinks = request[r].links]]
    /\ Becomes(r, [request[r] EXCEPT !.pc = "linksStored"])
    /\ UNCHANGED <<bodies, copies, engagements, written, meetings, messages,
                   settings, observed>>

StoreLinksWhole(r) ==
    /\ request[r].pc = "linking"
    /\ request[r].linking = {}
    /\ scheduledEvents' = [scheduledEvents EXCEPT
          ![r] = [@ EXCEPT !.conferenceLinks = request[r].links,
                           !.iCalUID = request[r].iCalUID]]
    /\ Becomes(r, [request[r] EXCEPT !.pc = "linksStored"])
    /\ UNCHANGED <<bodies, copies, engagements, written, meetings, messages,
                   settings, observed>>

(* toArray has collected the answers of all services: the links are stored. *)
StoreLinks(r) ==
    /\ request[r].pc = "linking"
    /\ request[r].linking = {}
    /\ scheduledEvents' = [scheduledEvents EXCEPT
          ![r] = [@ EXCEPT !.conferenceLinks = request[r].links]]
    /\ Becomes(r, [request[r] EXCEPT !.pc = "linksStored"])
    /\ UNCHANGED <<bodies, copies, engagements, written, meetings, messages,
                   settings, observed>>

(* Faulty variant of Publish: the links are not stored first.               *)
PublishEarly(r) ==
    /\ request[r].pc \in {"linking", "linksStored"}
    /\ messages' = IF request[r].event \in Notifies
                   THEN [messages EXCEPT ![r] = "sending"] ELSE messages
    /\ Becomes(r, [request[r] EXCEPT !.pc = "published"])
    /\ UNCHANGED <<scheduledEvents, bodies, copies, engagements, written,
                   meetings, settings, observed>>

(* The message that says CONFIRMED is handed to SNS and not waited for.     *)
Publish(r) ==
    /\ request[r].pc = "linksStored"
    /\ messages' = IF request[r].event \in Notifies
                   THEN [messages EXCEPT ![r] = "sending"] ELSE messages
    /\ Becomes(r, [request[r] EXCEPT !.pc = "published"])
    /\ UNCHANGED <<scheduledEvents, bodies, copies, engagements, written,
                   meetings, settings, observed>>

Confirm(r) ==
    /\ request[r].pc = "published"
    /\ scheduledEvents' = [scheduledEvents EXCEPT
          ![r] = [@ EXCEPT !.status = "CONFIRMED"]]
    /\ Becomes(r, [request[r] EXCEPT !.pc = "confirmed"])
    /\ UNCHANGED <<bodies, copies, engagements, written, meetings, messages,
                   settings, observed>>

(* Faulty variant of Fail: an error answered as a refusal.                  *)
FailAsRefusal(r) ==
    /\ request[r].pc \in InFlight
    /\ Becomes(r, [request[r] EXCEPT !.pc = "refused"])
    /\ UNCHANGED <<scheduledEvents, bodies, copies, engagements, written,
                   meetings, messages, settings, observed>>

(* MySQL, Redis or a lookup fails at any step: the invitee gets an error    *)
(* and nothing that was done is undone.                                     *)
Fail(r) ==
    /\ request[r].pc \in InFlight
    /\ Becomes(r, [request[r] EXCEPT !.pc = "failed"])
    /\ UNCHANGED <<scheduledEvents, bodies, copies, engagements, written,
                   meetings, messages, settings, observed>>

-----------------------------------------------------------------------------
(* A worker process ends: the requests it serves are abandoned, and the     *)
(* messages it was sending have arrived or not.                             *)
Exit(w, arrived) ==
    /\ request' = [r \in Requests |->
          IF WorkerOf[r] = w /\ request[r].pc \in InFlight \cup {"failed"}
          THEN [request[r] EXCEPT !.pc = "failed", !.linking = {}]
          ELSE request[r]]
    /\ messages' = [r \in Requests |->
          IF WorkerOf[r] = w /\ messages[r] = "sending"
          THEN IF r \in arrived THEN "sent" ELSE "unsent"
          ELSE messages[r]]
    /\ UNCHANGED <<scheduledEvents, bodies, copies, engagements, written,
                   meetings, settings, observed>>

Crash(w) == \E arrived \in SUBSET Requests : Exit(w, arrived)

SnsAccepts(r) ==
    /\ messages[r] = "sending"
    /\ messages' = [messages EXCEPT ![r] = "sent"]
    /\ UNCHANGED <<scheduledEvents, bodies, copies, engagements, written,
                   meetings, settings, request, observed>>

(* Nobody handles the rejection of the publish promise, and Node ends a     *)
(* process with an unhandled rejection.                                     *)
SnsRejects(r) ==
    /\ messages[r] = "sending"
    /\ \E arrived \in SUBSET (Requests \ {r}) : Exit(WorkerOf[r], arrived)

-----------------------------------------------------------------------------
(* The host and his calendars.                                              *)
ChangeSettings ==
    /\ availability' \in Availabilities
    /\ outbound' \in Outbounds
    /\ zoomConnected' \in ZoomSettings
    /\ UNCHANGED <<scheduledEvents, bodies, copies, engagements, written,
                   meetings, messages, request, observed>>

NoteEngagements(c) ==
    /\ \E noted \in SUBSET Engagements :
          engagements' = [engagements EXCEPT ![c] = noted]
    /\ UNCHANGED <<scheduledEvents, bodies, copies, written, meetings,
                   messages, settings, request, observed>>

RemoveBookingEvent(r) ==
    /\ written[r] # NoCalendar
    /\ written' = [written EXCEPT ![r] = NoCalendar]
    /\ UNCHANGED <<scheduledEvents, bodies, copies, engagements, meetings,
                   messages, settings, request, observed>>

(* A webhook of the calendar: events not known by their iCalUID get a row   *)
(* and rows whose event is gone are deleted.  An event the host has moved   *)
(* is known: its row is kept and goes on standing at the old time.  The     *)
(* bookings with the iCalUID of a deleted row that are not over are canceled *)
(* and soft-deleted in the same transaction.                                *)
ToCancel(c) ==
    {r \in Rows : /\ scheduledEvents[r].iCalUID \in copied[c] \ BookingsIn(c)
                  /\ scheduledEvents[r].schedule.end > Now}

Synchronize(c) ==
    /\ \E stale \in SUBSET ((inbound[c] \cap Engagements) \ CalendarContent(c)),
          moved \in SUBSET (engagements[c] \ inbound[c]) :
          /\ Cardinality(stale) = Cardinality(moved)
          /\ inbound' = [inbound EXCEPT ![c] = (CalendarContent(c) \ moved) \cup stale]
    /\ copied' = [copied EXCEPT ![c] = BookingsIn(c)]
    /\ scheduledEvents' = [r \in Requests |->
          IF r \in ToCancel(c)
          THEN [scheduledEvents[r] EXCEPT !.status = "CANCELED", !.deleted = TRUE]
          ELSE scheduledEvents[r]]
    /\ UNCHANGED <<bodies, engagements, written, meetings, messages, settings,
                   request, observed>>

-----------------------------------------------------------------------------
Serve(r) ==
    \/ Validate(r) \/ QueryNative(r) \/ QueryCalendar(r)
    \/ SaveRow(r) \/ SaveBody(r) \/ LoadOutbound(r)
    \/ CreateOutboundEvent(r) \/ WarnOutboundFailed(r)
    \/ LinkGoogleMeet(r) \/ LinkZoom(r) \/ LinkZoomFails(r)
    \/ StoreLinks(r) \/ Publish(r) \/ Confirm(r)

Deliver(r) == SnsAccepts(r) \/ SnsRejects(r)

Next ==
    \/ \E r \in Requests : Receive(r) \/ Serve(r) \/ Fail(r) \/ Deliver(r)
    \/ \E r \in Requests : RemoveBookingEvent(r)
    \/ \E w \in Workers : Crash(w)
    \/ ChangeSettings
    \/ \E c \in Calendars : NoteEngagements(c) \/ Synchronize(c)

Spec == Init /\ [][Next]_vars

(* Every call a request waits for is answered or fails: MySQL, Redis and    *)
(* the HTTP clients end each call, and Node runs the callback.  Nothing     *)
(* makes an invitee send a request or the host do anything.                 *)
FairSpec == Spec /\ \A r \in Requests : WF_vars(Serve(r)) /\ WF_vars(Deliver(r))

-----------------------------------------------------------------------------
(* The times a booking page offers, and so the buffers around them, lie on  *)
(* whole minutes.                                                           *)
WholeMinutes == \A s \in Schedules : MinuteAligned(s)

(* A booking accepted shares no time with a row its own validation found:   *)
(* of two bookings of one event that overlap, neither had been saved when   *)
(* the other one queried.  The conflict query of validate.                  *)
OverlapOnlyByRace ==
    \A p \in Rows, q \in Rows :
        /\ p \in seen[q]
        /\ scheduledEvents[p].event = scheduledEvents[q].event
        => ~ Overlap(scheduledEvents[q].schedule, scheduledEvents[p].schedule)

(* A booking accepted shares no time with an engagement that had been       *)
(* synchronised from the outbound calendar when it was validated.           *)
RespectsCalendar ==
    \A r \in Rows : \A s \in noticed[r] : ~ Overlap(scheduledEvents[r].schedule, s)

(* A CONFIRMED row has its Redis body, and every conference link its event  *)
(* asks for: Zoom always, with a meeting behind it; Google Meet whenever a  *)
(* calendar event exists and the body carries no outboundFailed warning.    *)
ConfirmedIsComplete ==
    \A r \in Rows :
        scheduledEvents[r].status = "CONFIRMED" =>
            /\ bodies[r] # "absent"
            /\ Wants(r, "ZOOM") =>
                  "ZOOM" \in scheduledEvents[r].conferenceLinks /\ r \in meetings
            /\ Wants(r, "GOOGLE_MEET") /\ written[r] # NoCalendar /\ bodies[r] = "plain" =>
                  "GOOGLE_MEET" \in scheduledEvents[r].conferenceLinks

(* A request that was refused has left no trace anywhere: no row, body,     *)
(* calendar event, meeting or message.                                      *)
RefusedLeavesNothing ==
    \A r \in Requests :
        request[r].pc \in {"idle", "refused"} =>
            /\ scheduledEvents[r] = NoRow
            /\ bodies[r] = "absent"
            /\ written[r] = NoCalendar
            /\ r \notin meetings
            /\ messages[r] = "unsent"

(* What is visible outside stands on a saved booking: a body, a calendar    *)
(* event and a meeting have a row, and a confirmation message has a row     *)
(* whose body is saved and whose obtained links are stored - even when the  *)
(* process ends before the row is marked CONFIRMED.                         *)
EffectsHaveRows ==
    \A r \in Requests :
        /\ bodies[r] # "absent" \/ written[r] # NoCalendar \/ r \in meetings => r \in Rows
        /\ messages[r] # "unsent" =>
              /\ r \in Rows /\ bodies[r] # "absent"
              /\ scheduledEvents[r].conferenceLinks = request[r].links

(* The inductive invariant behind the three: which stores a request has     *)
(* reached at each point of its run, and, once the run is over, what the    *)
(* stores still say about how far it came.                                  *)
BeforeRow == {"idle", "received", "querying", "validated", "refused"}
BeforeBody == BeforeRow \cup {"rowSaved"}
BeforeWrite == BeforeBody \cup {"saved", "outbound"}
LinksDone == {"linksStored", "published", "confirmed"}

HasLinks(r, answered) ==
    /\ "ZOOM" \in answered /\ Wants(r, "ZOOM") =>
          "ZOOM" \in request[r].links /\ r \in meetings
    /\ "GOOGLE_MEET" \in answered /\ Wants(r, "GOOGLE_MEET")
       /\ written[r] # NoCalendar /\ bodies[r] = "plain" =>
          "GOOGLE_MEET" \in request[r].links

(* The row and the body.                                                    *)
StoresFollow(r) ==
    LET pc == request[r].pc
    IN  /\ pc \in BeforeRow => r \notin Rows
        /\ pc \notin BeforeRow \cup {"failed"} => r \in Rows
        /\ pc \in BeforeBody => bodies[r] = "absent"
        /\ pc \notin BeforeBody \cup {"failed"} => bodies[r] # "absent"
        /\ bodies[r] # "absent" => r \in Rows
        /\ r \in Rows =>
              /\ scheduledEvents[r].event = request[r].event
              /\ scheduledEvents[r].schedule = request[r].schedule
              /\ scheduledEvents[r].status = "CONFIRMED" => pc = "confirmed"
        /\ scheduledEvents[r] # NoRow =>
              scheduledEvents[r].iCalUID = NoICalUID /\ ~ scheduledEvents[r].deleted
        /\ pc \in BeforeWrite => request[r].iCalUID = NoICalUID

(* The calendar event and the meeting.                                      *)
OutsideFollows(r) ==
    LET pc == request[r].pc
    IN  /\ pc \in BeforeWrite =>
              written[r] = NoCalendar /\ r \notin meetings /\ request[r].linking = {}
        /\ written[r] # NoCalendar \/ r \in meetings \/ request[r].linking # {} =>
              bodies[r] # "absent"
        /\ request[r].linking # {} => pc \in {"linking", "failed"}

(* The conference links.                                                    *)
LinksFollow(r) ==
    LET pc == request[r].pc
    IN  /\ pc = "linking" =>
              /\ written[r] # NoCalendar /\ bodies[r] = "plain" =>
                    request[r].calendar # NoCalendar
              /\ HasLinks(r, LinkVendors \ request[r].linking)
        /\ pc \in LinksDone =>
              /\ HasLinks(r, LinkVendors)
              /\ scheduledEvents[r].conferenceLinks = request[r].links

(* The confirmation message.                                                *)
MessageFollows(r) ==
    messages[r] # "unsent" =>
        /\ request[r].pc \in {"published", "confirmed", "failed"}
        /\ bodies[r] # "absent"
        /\ scheduledEvents[r].conferenceLinks = request[r].links
        /\ request[r].linking = {}

Follows(r) == StoresFollow(r) /\ OutsideFollows(r) /\ LinksFollow(r) /\ MessageFollows(r)

LifecycleInv == \A r \in Requests : Follows(r)

(* A saved booking is never canceled, deleted, moved to another event or     *)
(* time or taken back from CONFIRMED, whatever fails, and whatever the host  *)
(* does with its event in his calendar: the synchronisation cancels by the   *)
(* iCalUID, the booking path saves the row before it has one, and what it    *)
(* updates later (links, status) leaves it out.                              *)
RowAdvances(r) ==
    /\ r \in Rows'
    /\ scheduledEvents'[r].event = scheduledEvents[r].event
    /\ scheduledEvents'[r].schedule = scheduledEvents[r].schedule
    /\ scheduledEvents[r].status = "CONFIRMED" =>
          scheduledEvents'[r] = scheduledEvents[r]

RowsOnlyAdvance == [][\A r \in Rows : RowAdvances(r)]_vars

(* Every request received is answered: confirmed, refused or failed.        *)
EveryRequestEnds ==
    \A r \in Requests : request[r].pc \in InFlight ~> request[r].pc \in Ended

(* The inductive invariant behind OverlapOnlyByRace and RespectsCalendar:   *)
(* what a request has seen matches no conflict query of its own, from its   *)
(* first answer to its row, and the rows it saw stay where they were.       *)
Judged(r) ==
    /\ request[r].pc \in {"idle", "received"} =>
          seen[r] = {} /\ noticed[r] = {} /\ "native" \in request[r].checking
    /\ request[r].pc = "validated" => request[r].checking = {}
    /\ seen[r] \subseteq Rows
    /\ \/ request[r].pc = "querying" /\ ~ request[r].conflict
       \/ request[r].pc = "validated"
       \/ r \in Rows
       => /\ \A p \in seen[r] :
                scheduledEvents[p].event = request[r].event =>
                   ~ ConflictsWith(scheduledEvents[p].schedule, request[r].schedule)
          /\ \A s \in noticed[r] : ~ ConflictsWith(s, request[r].schedule)

JudgedInv == \A r \in Requests : Judged(r)

(* The booking path implements the ledger of times: rows are times held and *)
(* the query of the scheduled events is the look.                           *)
AskedFor == [r \in Requests |-> [event |-> request[r].event,
                                 schedule |-> request[r].schedule]]
Looked == {r \in Requests : "native" \notin request[r].checking}
ConfirmedRows == {r \in Rows : scheduledEvents[r].status = "CONFIRMED"}

Ledger == INSTANCE BookingLedger WITH
    asked <- AskedFor, looked <- Looked, view <- seen, held <- Rows,
    confirmed <- ConfirmedRows

ImplementsLedger == Ledger!LedgerSpec

-----------------------------------------------------------------------------
(* What the doc comment of validate promises, "Checks if the requested time *)
(* conflicts with already scheduled events": no two bookings of an event    *)
(* share time.                                                              *)
NoDoubleBooking ==
    \A p \in Rows, q \in Rows :
        p # q /\ scheduledEvents[p].event = scheduledEvents[q].event
        => ~ Overlap(scheduledEvents[q].schedule, scheduledEvents[p].schedule)

(* "for exclusive query, reduce 1 second": the comment in validate says the *)
(* bounds are exclusive, so times that only touch do not conflict.  A time  *)
(* the availability allows is refused only if the buffered time of the      *)
(* request shares time with that of a row or engagement its queries saw.    *)
RefusedForCause ==
    \A r \in Requests :
        LET s == request[r].schedule
        IN  request[r].pc = "refused" /\ ~ InvalidTimeRange(s, request[r].hostAvailability, Now)
            => \/ \E p \in seen[r] : BufferedOverlap(s, scheduledEvents[p].schedule)
               \/ \E t \in noticed[r] : BufferedOverlap(s, t)

(* "Verifies that the requested booking time is valid", says the doc        *)
(* comment: the whole time of a booking lies in an available time.          *)
BookedWithinHours ==
    \A r \in Rows :
        LET s == scheduledEvents[r].schedule
            a == request[r].hostAvailability
        IN  a.override = NoOverride =>
              \E range \in a.hours :
                 range.start <= EnsuredStart(s) /\ EnsuredEnd(s) <= range.end
=============================================================================
