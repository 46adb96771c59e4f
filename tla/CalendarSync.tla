----------------------------- MODULE CalendarSync -----------------------------
(***************************************************************************)
(* The calendars of a host at Google and Apple, and what the program keeps   *)
(* of them: GoogleIntegrationsService, GoogleCalendarIntegrationsService and *)
(* their Apple counterparts.                                                 *)
(*                                                                         *)
(* A calendar has a row with its settings: its events are copied to rows of  *)
(* schedules (check), bookings are written to it (outbound).  Google tells   *)
(* of a change by a notice, as long as a channel is open; Redis has a status *)
(* and the details of each channel.  A notice is served by comparing the     *)
(* listing of the calendar with the rows, in a transaction, and a booking    *)
(* whose event is no longer listed is canceled.  Notices come late, for what  *)
(* is known by then, and again after a failure.                              *)
(*                                                                         *)
(* One host; transactions are seen when they commit, what they have done at  *)
(* Google and in Redis at once.                                              *)
(***************************************************************************)
EXTENDS Integers, Sequences, FiniteSets

CONSTANTS
    Calendars, NoCalendar,
    Vendor,          \* Calendars -> Vendors
    Integrations,
    Of,              \* Calendars -> Integrations
    Primary,         \* the first calendar of each integration with Google
    Given,           \* what has been integrated earlier, and who is outbound
    Events,          \* iCalUIDs
    There,           \* Calendars -> SUBSET Events: what is there and stays
    May,             \* Calendars -> SUBSET Events: what people put there
    Bookings,        \* events that are written for a booking
    PageSize,        \* a listing has so many events at most (1000)
    Handlers,        \* workers that serve notices
    Requests, Calls, NoCall,
    MaxDeeds, MaxFailures  \* bounds

Vendors == {"google", "apple"}
Setting == [check : BOOLEAN, outbound : BOOLEAN]
NoRow == [check |-> FALSE, outbound |-> FALSE, row |-> FALSE]
Row(check, outbound) == [check |-> check, outbound |-> outbound, row |-> TRUE]

ASSUME CalendarSyncAssumption ==
    /\ IsFiniteSet(Calendars) /\ NoCalendar \notin Calendars
    /\ Vendor \in [Calendars -> Vendors]
    /\ Handlers \cap (Requests \X Vendors) = {}
    /\ Of \in [Calendars -> Integrations]
    /\ \A given \in Given : /\ given.integrations \subseteq Integrations
                           /\ given.outbound \in Calendars \cup {NoCalendar}
    /\ Primary \subseteq {c \in Calendars : Vendor[c] = "google"}
    /\ \A c, d \in Calendars :
          /\ Of[c] = Of[d] => Vendor[c] = Vendor[d]
          /\ c \in Primary /\ d \in Primary /\ Of[c] = Of[d] => c = d
          /\ Vendor[c] = "apple" /\ Of[c] = Of[d] => c = d
    /\ There \in [Calendars -> SUBSET Events]
    /\ May \in [Calendars -> SUBSET Events] /\ Bookings \subseteq Events
    /\ PageSize \in Nat \ {0} /\ MaxDeeds \in Nat /\ MaxFailures \in Nat
    /\ NoCall \notin Calls
    /\ \A call \in Calls :
          \/ call \in [op : {"integrate", "remove"}, on : Integrations]
          \/ \E named \in SUBSET Calendars :
                call \in [op : {"patch"}, vendors : SUBSET Vendors, want : [named -> Setting]]

VARIABLES
    calendars,   \* MySQL: the settings of each calendar that has a row
    rows,        \* MySQL: how many rows of schedules each event has; 2 are several
    booked,      \* MySQL: the bookings
    status,      \* Redis: calendars said to be subscribed
    detail,      \* Redis: calendars whose channel is known
    channels,    \* Google: open channels, with the uuid of the calendar for id
    events,      \* Google, Apple: the events of each calendar
    notices,     \* Google: calendars with notices to send, again until served
    calls,       \* what each request asks for
    job,         \* the local state of each handler, one per vendor of a request
    failures,    \* how many failures there have been
    (* observed only by the properties *)
    gone,        \* events that have been removed from a calendar
    overtaken,   \* events that a listing in use does not show
    unseen,      \* calendars that changed without a notice that is served
    mixed,       \* calendars two handlers worked on at once, until one alone has
    doubled,     \* calendars two handlers ever worked on at once
    broken,      \* calendars with a subscription that broke off
    unasked,     \* calendars of a second integration, not set since
    split        \* settings of two requests, or of one vendor, may not agree

store == <<calendars, rows, booked>>
google == <<status, detail, channels>>
outside == <<events, notices>>
seen == <<gone, overtaken, unseen, mixed, doubled, broken, unasked, split>>
vars == <<store, google, outside, calls, job, failures, seen>>

Steps ==
    {"list", "rows", "stop", "forget", "watch", "note", "known", "set", "status", "load",
     "owner", "next", "fetch", "outbound", "exists", "integration", "forgetAll",
     "details", "commit"}
Jobs == Handlers \cup (Requests \X Vendors)
JobType ==
    [op : {"none", "notice", "patch", "integrate", "remove"},
     todo : Seq(Steps),
     cal : Calendars \cup {NoCalendar},  \* the calendar it is working on
     left : SUBSET Calendars,            \* and the ones it has still to
     listed : SUBSET Events,
     fresh : SUBSET (Calendars \X Events),
     obsolete : SUBSET (Calendars \X Events),
     first : BOOLEAN,                    \* no other calendar is outbound
     touched : SUBSET Calendars,         \* observed: what it works on,
     outdated : SUBSET Calendars,        \*   what it has not seen all of,
     shared : SUBSET Calendars]          \*   and what others work on too

TypeOK ==
    /\ calendars \in [Calendars -> [check : BOOLEAN, outbound : BOOLEAN, row : BOOLEAN]]
    /\ rows \in [Calendars -> [Events -> 0..2]]
    /\ booked \in [Events -> {"no", "live", "canceled"}]
    /\ status \subseteq Calendars /\ detail \subseteq Calendars
    /\ channels \subseteq Calendars /\ notices \subseteq Calendars
    /\ events \in [Calendars -> SUBSET Events]
    /\ calls \in [Requests -> Calls \cup {NoCall}]
    /\ job \in [Jobs -> JobType]
    /\ failures \in 0..MaxFailures
    /\ gone \in [Calendars -> SUBSET Events] /\ overtaken \subseteq Events
    /\ \A s \in {unseen, mixed, doubled, broken, unasked} : s \subseteq Calendars
    /\ split \in BOOLEAN

Idle ==
    [op |-> "none", todo |-> <<>>, cal |-> NoCalendar, left |-> {}, listed |-> {},
     fresh |-> {}, obsolete |-> {}, first |-> FALSE, touched |-> {},
     outdated |-> {}, shared |-> {}]
Begin(op, todo, c) == [Idle EXCEPT !.op = op, !.todo = todo, !.cal = c]

(* A calendar that is checked is in step and has a channel, as has the primary *)
(* one of each integration.                                                   *)
InitSettings(given) ==
    [c \in Calendars |->
        IF Of[c] \notin given.integrations THEN NoRow
        ELSE Row(Vendor[c] = "apple" \/ c = given.outbound, c = given.outbound)]
Init ==
    /\ \E given \in Given :
          /\ calendars = InitSettings(given)
          /\ status = {c \in Calendars :
                /\ Vendor[c] = "google" /\ Of[c] \in given.integrations
                /\ c \in Primary \/ c = given.outbound}
    /\ rows = [c \in Calendars |-> [e \in Events |->
          IF calendars[c].check /\ e \in There[c] THEN 1 ELSE 0]]
    /\ booked = [e \in Events |-> "no"]
    /\ detail = status /\ channels = status
    /\ events = There
    /\ notices = {}
    /\ calls = [r \in Requests |-> NoCall]
    /\ job = [j \in Jobs |-> Idle]
    /\ failures = 0
    /\ gone = [c \in Calendars |-> {}] /\ overtaken = {}
    /\ unseen = {} /\ mixed = {} /\ doubled = {} /\ broken = {} /\ unasked = {}
    /\ split = FALSE

-----------------------------------------------------------------------------
(* What each handler has to do, in the order of the code.                   *)
SyncSteps == <<"list", "rows">>

(* Faulty: the details are forgotten before the channel is stopped.         *)
UnsubscribeStepsForgetful == <<"forget", "stop">>

UnsubscribeSteps == <<"stop", "forget">>
SubscribeSteps == <<"watch", "note">>

ResubscribeSteps ==
    <<"known">> \o UnsubscribeSteps \o <<"set">> \o SubscribeSteps

NoticeSteps == <<"status", "load">> \o SyncSteps \o <<"commit">>
PatchSteps == <<"owner", "next", "commit">>
IntegrateSteps ==
    [google |-> <<"fetch", "outbound", "set">> \o SubscribeSteps \o <<"commit">>,
     apple |-> <<"exists", "fetch", "commit">>]
RemoveSteps ==
    [google |-> <<"integration", "forgetAll", "details", "next", "commit">>,
     apple |-> <<"commit">>]

(* What is done for each calendar in turn by a patch or a removal.          *)
StepsOfCalendar(q, c) ==
    CASE q.op = "remove" -> UnsubscribeSteps
      [] Vendor[c] = "apple" -> SyncSteps
      [] OTHER -> SyncSteps \o ResubscribeSteps

(* Local states.                                                            *)
Doing(j, step) == job[j].todo # <<>> /\ Head(job[j].todo) = step
InFlight == {j \in Jobs : job[j].todo # <<>>}
Call(j) == calls[j[1]]
VendorOf(j) == j[2]
IsRow(c) == calendars[c].row
CalendarsOf(i) == {c \in Calendars : Of[c] = i}
Mine(j) == {c \in Calendars : IsRow(c) /\ Vendor[c] = VendorOf(j)}
Named(j) == {c \in DOMAIN Call(j).want : Vendor[c] = VendorOf(j)}
Asked(j, check) == {c \in Named(j) : Call(j).want[c].check = check}
Stored(c) == {e \in Events : rows[c][e] > 0}

Advanced(q) == IF Tail(q.todo) = <<>> THEN Idle ELSE [q EXCEPT !.todo = Tail(@)]
After(j, q) == job' = [job EXCEPT ![j] = Advanced(q)]
Advance(j) == After(j, job[j])
End(j) == job' = [job EXCEPT ![j] = Idle]
AtWork(c) == \E j \in Jobs : c \in job[j].touched \/ job[j].cal = c

(* unsubscribeCalendar is left out, or what is left of subscribeCalendar.    *)
SkipUnsubscribing(j) == job' = [job EXCEPT ![j].todo = Tail(Tail(Tail(@)))]
SkipSubscribing(j) ==
    After(j, IF Doing(j, "watch") THEN [job[j] EXCEPT !.todo = Tail(@)] ELSE job[j])

(* Observed: j works on the calendars cs from now on, its local state is q. *)
Touch(j, q, cs) ==
    LET others(c) == {k \in InFlight \ {j} : c \in job[k].touched}
        both == {c \in cs : others(c) # {}} IN
    job' = [k \in Jobs |->
        IF k = j THEN Advanced([q EXCEPT !.touched = @ \cup cs, !.shared = @ \cup both])
        ELSE IF k \in InFlight
             THEN [job[k] EXCEPT !.shared = @ \cup (cs \cap job[k].touched)]
        ELSE job[k]]

(* What was asked of the program and what people have changed: a bound that   *)
(* lets many changes go with one request, and few with two.                   *)
Pairs(f) == {x \in Calendars \X Events : x[2] \in f[x[1]]}
Deeds ==
    Cardinality(Pairs(events) \ Pairs(There)) + 2 * Cardinality(Pairs(gone))
    + 2 * Cardinality({r \in Requests : calls[r] # NoCall})

-----------------------------------------------------------------------------
(* People and Google.  A change of a calendar with an open channel is told,   *)
(* now or later, also when a listing has shown it by then; of another one     *)
(* nothing is heard.                                                          *)
Outdated(c) ==
    [j \in Jobs |-> IF c \in job[j].touched
                    THEN [job[j] EXCEPT !.outdated = @ \cup {c}] ELSE job[j]]
Announced(c) ==
    IF c \in channels
    THEN notices' = notices \cup {c} /\ UNCHANGED <<job, unseen>>
    ELSE unseen' = unseen \cup {c} /\ job' = Outdated(c) /\ UNCHANGED notices

(* Jobs that are about to compare a listing of c with its rows.               *)
HaveListed(c) == {j \in Jobs : job[j].cal = c /\ Doing(j, "rows")}

Put(c, e) ==
    /\ e \notin events[c] /\ e \notin gone[c] /\ Deeds < MaxDeeds
    /\ events' = [events EXCEPT ![c] = @ \cup {e}]
    /\ overtaken' = IF HaveListed(c) = {} THEN overtaken ELSE overtaken \cup {e}
    /\ Announced(c)
    /\ UNCHANGED <<google, calendars, rows, calls, failures, gone, mixed, doubled,
                   broken, unasked, split>>

AddEvent(c, e) == e \in May[c] /\ Put(c, e) /\ UNCHANGED booked

(* A booking is written to the outbound calendar.  Its row is taken to have   *)
(* the iCalUID of the event; the code sets that after the row is saved, on    *)
(* the object alone, so that more bookings are cancelled here than there.     *)
Book(e, c) ==
    /\ e \in Bookings /\ booked[e] = "no"
    /\ Vendor[c] = "google" /\ IsRow(c) /\ calendars[c].outbound
    /\ Put(c, e)
    /\ booked' = [booked EXCEPT ![e] = "live"]

RemoveEvent(c, e) ==
    /\ e \in events[c] \ There[c] /\ Deeds < MaxDeeds
    /\ events' = [events EXCEPT ![c] = @ \ {e}]
    /\ gone' = [gone EXCEPT ![c] = @ \cup {e}]
    /\ Announced(c)
    /\ UNCHANGED <<store, google, calls, failures, overtaken, mixed, doubled, broken,
                   unasked, split>>

-----------------------------------------------------------------------------
(* What a handler does with one calendar.                                     *)
Cal(j) == job[j].cal

(* The listing has the first events only, and says nothing of the others.     *)
Page(page, all) ==
    \/ page = all /\ Cardinality(all) <= PageSize
    \/ page # all /\ Cardinality(page) = PageSize
List(j) ==
    /\ Doing(j, "list")
    /\ \E page \in SUBSET events[Cal(j)] :
          LET rest == events[Cal(j)] \ page IN
          /\ IF Vendor[Cal(j)] = "apple" THEN rest = {} ELSE Page(page, events[Cal(j)])
          /\ After(j, [job[j] EXCEPT
                 !.listed = page,
                 !.outdated = IF rest = {} THEN @ ELSE @ \cup {Cal(j)}])
          /\ overtaken' = overtaken \cup rest
    /\ UNCHANGED <<store, google, outside, calls, failures, gone, unseen, mixed,
                   doubled, broken, unasked, split>>

(* Faulty: every listed event is saved.                                       *)
FreshAll(j) == job[j].listed

(* The listed events without a row.  The rows of an unchecked calendar of     *)
(* Apple have been deleted by then, in the same transaction.                  *)
Fresh(j) ==
    LET deleted == job[j].op = "patch" /\ Cal(j) \in Asked(j, FALSE) IN
    {e \in job[j].listed : rows[Cal(j)][e] = 0 \/ deleted}

(* Faulty: the rows of events that are no longer listed are kept.             *)
ObsoleteNone(j) == {}

(* Faulty: the rows of the listed events are taken for obsolete.              *)
ObsoleteListed(j) == Stored(Cal(j)) \cap job[j].listed

Obsolete(j) ==
    IF Vendor[Cal(j)] = "apple" THEN {} ELSE Stored(Cal(j)) \ job[j].listed

Compare(j) ==
    /\ Doing(j, "rows")
    /\ After(j, [job[j] EXCEPT !.fresh = @ \cup ({Cal(j)} \X Fresh(j)),
                               !.obsolete = @ \cup ({Cal(j)} \X Obsolete(j))])
    /\ UNCHANGED <<store, google, outside, calls, failures, seen>>

(* The transaction commits: rows are saved and deleted, and the bookings      *)
(* whose rows are deleted are canceled, whatever calendar they were for.      *)
Synchronized(j, before) ==
    [c \in Calendars |-> [e \in Events |->
        IF <<c, e>> \in job[j].obsolete THEN 0
        ELSE IF <<c, e>> \in job[j].fresh /\ before[c][e] < 2 THEN before[c][e] + 1
        ELSE before[c][e]]]
Canceled(j) ==
    [e \in Events |->
        IF booked[e] = "live" /\ \E c \in Calendars : <<c, e>> \in job[j].obsolete
        THEN "canceled" ELSE booked[e]]

(* Observed when j commits.                                                   *)
Observe(j) ==
    LET q == job[j] IN
    /\ unseen' = (unseen \ q.touched) \cup (q.outdated \cap q.touched)
    /\ mixed' = (mixed \ q.touched) \cup q.shared
    /\ doubled' = doubled \cup q.shared
    /\ UNCHANGED <<gone, overtaken>>

-----------------------------------------------------------------------------
(* GoogleCalendarIntegrationsController.googleCalendarEventsNotification and   *)
(* synchronizeWithGoogleCalendarEvents: a notice is served.  Google sends it  *)
(* again when it fails.                                                       *)
Deliver(h, c) ==
    /\ job[h].todo = <<>> /\ c \in notices
    /\ notices' = notices \ {c}
    /\ job' = [job EXCEPT ![h] = Begin("notice", NoticeSteps, c)]
    /\ UNCHANGED <<store, google, events, calls, failures, seen>>

(* The notice is dropped: the channel is not known to be subscribed, or the   *)
(* calendar is not checked.                                                   *)
Skip(j) ==
    /\ job' = [Outdated(Cal(j)) EXCEPT ![j] = Idle]
    /\ unseen' = unseen \cup {Cal(j)}
    /\ UNCHANGED <<gone, overtaken, mixed, doubled, broken, unasked, split>>

CheckStatus(h) ==
    /\ Doing(h, "status")
    /\ IF Cal(h) \in status THEN Advance(h) /\ UNCHANGED seen ELSE Skip(h)
    /\ UNCHANGED <<store, google, outside, calls, failures>>

LoadCalendar(h) ==
    /\ Doing(h, "load")
    /\ IF IsRow(Cal(h)) /\ calendars[Cal(h)].check
       THEN Touch(h, job[h], {Cal(h)}) /\ UNCHANGED seen ELSE Skip(h)
    /\ UNCHANGED <<store, google, outside, calls, failures>>

(* Faulty: a notice that failed is not sent again.                            *)
RetryLost(j) == notices

(* The notice of j, to be sent again.                                         *)
Retry(j) == IF j \in Handlers THEN notices \cup {Cal(j)} ELSE notices

RollBack(j) ==
    /\ End(j)
    /\ notices' = Retry(j)
    /\ split' = (split \/ job[j].op = "patch")
    /\ UNCHANGED <<store, gone, overtaken, unseen, mixed, doubled, unasked>>

CommitNotice(h) ==
    /\ Doing(h, "commit") /\ job[h].op = "notice"
    /\ IF IsRow(Cal(h))
       THEN /\ rows' = Synchronized(h, rows) /\ booked' = Canceled(h)
            /\ Observe(h) /\ Advance(h)
            /\ UNCHANGED <<calendars, notices, unasked, split>>
       ELSE RollBack(h)
    /\ UNCHANGED <<google, events, calls, failures, broken>>
-----------------------------------------------------------------------------
(* Requests.  The endpoint of all calendars refuses two outbound ones, and    *)
(* leaves out a vendor there is nothing to say to.                            *)
Outbound(call) == {c \in DOMAIN call.want : call.want[c].outbound}
Branches(call) ==
    IF call.op # "patch" THEN {Vendor[c] : c \in CalendarsOf(call.on)}
    ELSE IF call.vendors # Vendors THEN call.vendors
    ELSE {v \in Vendors : Outbound(call) # {} \/ \E c \in DOMAIN call.want : Vendor[c] = v}
StepsOf(call, v) ==
    CASE call.op = "patch" -> PatchSteps
      [] call.op = "integrate" -> IntegrateSteps[v]
      [] call.op = "remove" -> RemoveSteps[v]

(* The calendars of an integration with Google have new uuids each time, which *)
(* nothing knows of yet; none is integrated by two requests.                  *)
Start(r, call) ==
    /\ calls[r] = NoCall /\ Deeds + 2 <= MaxDeeds
    /\ call.op = "patch" /\ call.vendors = Vendors => Cardinality(Outbound(call)) <= 1
    /\ call.op = "integrate" =>
          /\ \A o \in Requests : calls[o] # call
          /\ \A c \in CalendarsOf(call.on) :
                Vendor[c] = "google" =>
                   ~IsRow(c) /\ ~AtWork(c) /\ c \notin channels \cup detail \cup status
    /\ calls' = [calls EXCEPT ![r] = call]
    /\ job' = [j \in Jobs |->
          IF j \in {<<r, v>> : v \in Branches(call)}
          THEN Begin(call.op, StepsOf(call, j[2]), NoCalendar) ELSE job[j]]
    /\ split' = \/ split
                \/ InFlight \ Handlers # {}
                \/ call.op = "patch" /\ call.vendors # Vendors /\ Outbound(call) # {}
    /\ UNCHANGED <<store, google, outside, failures, gone, overtaken, unseen, mixed,
                   doubled, broken, unasked>>

(* patchAll: Google synchronises every calendar that is checked afterwards,    *)
(* Apple the named ones that were checked before.                             *)
Checked(j) ==
    IF VendorOf(j) = "apple" THEN {c \in Named(j) : calendars[c].check}
    ELSE {c \in Mine(j) : IF c \in Named(j) THEN Call(j).want[c].check
                          ELSE calendars[c].check}

Owner(j) ==
    /\ Doing(j, "owner")
    /\ IF Named(j) \subseteq Mine(j)
       THEN /\ Touch(j, [job[j] EXCEPT !.left = Checked(j)], Checked(j) \cup Named(j))
            /\ UNCHANGED <<store, notices, seen>>
       ELSE RollBack(j) /\ UNCHANGED broken
    /\ UNCHANGED <<google, events, calls, failures>>

NextCalendar(j) ==
    /\ Doing(j, "next")
    /\ \/ job[j].left = {} /\ Advance(j)
       \/ \E c \in job[j].left :
             job' = [job EXCEPT ![j].cal = c, ![j].left = @ \ {c},
                                ![j].todo = StepsOfCalendar(job[j], c) \o @]
    /\ UNCHANGED <<store, google, outside, calls, failures, seen>>

(* Faulty: the calendars that were outbound stay so.                          *)
SettingsKept(j) ==
    [c \in Calendars |->
        IF c \in Named(j)
        THEN Row(Call(j).want[c].check, Call(j).want[c].outbound) ELSE calendars[c]]

(* Faulty: the settings are saved as they were sent.                          *)
SettingsAsSent(j) ==
    [c \in Calendars |-> IF c \in Named(j) THEN Call(j).want[c] ELSE calendars[c]]

(* No calendar of the vendor is outbound but a named one.                     *)
Settings(j) ==
    [c \in Calendars |->
        IF c \in Named(j) THEN Row(Call(j).want[c].check, Call(j).want[c].outbound)
        ELSE IF c \in Mine(j) THEN Row(calendars[c].check, FALSE)
        ELSE calendars[c]]

RowsLeft(j) ==
    [c \in Calendars |-> IF c \in Asked(j, FALSE) THEN [e \in Events |-> 0] ELSE rows[c]]

CommitPatch(j) ==
    /\ Doing(j, "commit") /\ job[j].op = "patch"
    /\ IF \A c \in job[j].touched : IsRow(c)
       THEN /\ calendars' = Settings(j)
            /\ rows' = Synchronized(j, RowsLeft(j)) /\ booked' = Canceled(j)
            /\ unasked' = unasked \ Named(j)
            /\ Observe(j) /\ Advance(j)
            /\ UNCHANGED <<notices, split>>
       ELSE RollBack(j)
    /\ UNCHANGED <<google, events, calls, failures, broken>>

-----------------------------------------------------------------------------
(* resubscriptionCalendar, unsubscribeCalendar and subscribeCalendar.          *)
Known(j) ==
    /\ Doing(j, "known")
    /\ IF Cal(j) \in status \cap detail THEN Advance(j) ELSE SkipUnsubscribing(j)
    /\ UNCHANGED <<store, google, outside, calls, failures, seen>>

(* Observed when j ends: calendars whose subscriptions are in disorder.       *)
Lost(j) == IF job[j].op = "remove" THEN job[j].touched ELSE {Cal(j)}

(* Google knows no such channel: an error that ends all.                      *)
Stop(j) ==
    /\ Doing(j, "stop")
    /\ channels' = channels \ {Cal(j)}
    /\ IF Cal(j) \in channels
       THEN Advance(j) /\ UNCHANGED <<store, notices, seen>>
       ELSE RollBack(j) /\ broken' = broken \cup Lost(j)
    /\ UNCHANGED <<status, detail, events, calls, failures>>

(* The details and the status are deleted, in two calls seen as one.          *)
Forget(j) ==
    /\ Doing(j, "forget")
    /\ detail' = detail \ {Cal(j)} /\ status' = status \ {Cal(j)} /\ Advance(j)
    /\ UNCHANGED <<store, channels, outside, calls, failures, seen>>

SetStatus(j) ==
    /\ Doing(j, "set")
    /\ status' = status \cup {Cal(j)} /\ Advance(j)
    /\ UNCHANGED <<store, detail, channels, outside, calls, failures, seen>>

(* A channel of that id is open already: the error is logged.                 *)
Watch(j) ==
    /\ Doing(j, "watch")
    /\ IF Cal(j) \in channels
       THEN SkipSubscribing(j) /\ broken' = broken \cup {Cal(j)}
       ELSE Advance(j) /\ UNCHANGED broken
    /\ channels' = channels \cup {Cal(j)}
    /\ UNCHANGED <<store, status, detail, outside, calls, failures, gone, overtaken,
                   unseen, mixed, doubled, unasked, split>>

Note(j) ==
    /\ Doing(j, "note")
    /\ detail' = detail \cup {Cal(j)} /\ status' = status \cup {Cal(j)} /\ Advance(j)
    /\ broken' = IF Cal(j) \in job[j].shared THEN broken ELSE broken \ {Cal(j)}
    /\ UNCHANGED <<store, channels, outside, calls, failures, gone, overtaken, unseen,
                   mixed, doubled, unasked, split>>

-----------------------------------------------------------------------------
(* GoogleOAuth2TokenService.integrate and AppleIntegrationsService.create.     *)
Exists(j) ==
    /\ Doing(j, "exists")
    /\ IF \E c \in CalendarsOf(Call(j).on) : IsRow(c) THEN End(j) ELSE Advance(j)
    /\ UNCHANGED <<store, google, outside, calls, failures, seen>>

Fetched(j) == CalendarsOf(Call(j).on) \cap (Primary \cup {c \in Calendars : Vendor[c] = "apple"})

(* Google: the events of the primary calendar, read before anything else.     *)
Fetch(j) ==
    /\ Doing(j, "fetch")
    /\ \E c \in Fetched(j), page \in SUBSET Events :
          /\ page \subseteq events[c]
          /\ Vendor[c] = "apple" => page = events[c]
          /\ Vendor[c] = "google" => Page(page, events[c])
          /\ Touch(j, [job[j] EXCEPT !.cal = c, !.fresh = {c} \X page,
                         !.outdated = IF page = events[c] THEN {} ELSE {c}], {c})
    /\ UNCHANGED <<store, google, outside, calls, failures, seen>>

LookForOutbound(j) ==
    /\ Doing(j, "outbound")
    /\ After(j, [job[j] EXCEPT !.first = \A c \in Calendars : ~calendars[c].outbound])
    /\ UNCHANGED <<store, google, outside, calls, failures, seen>>

NewSetting(j, c) ==
    IF Vendor[c] = "apple" THEN Row(TRUE, FALSE)
    ELSE LET on == c \in Primary /\ job[j].first IN Row(on, on)

CommitIntegrate(j) ==
    /\ Doing(j, "commit") /\ job[j].op = "integrate"
    /\ calendars' = [c \in Calendars |->
          IF c \in CalendarsOf(Call(j).on) THEN NewSetting(j, c) ELSE calendars[c]]
    /\ rows' = Synchronized(j, rows)
    /\ unasked' = IF job[j].first THEN unasked ELSE unasked \cup Fetched(j)
    /\ Observe(j) /\ Advance(j)
    /\ UNCHANGED <<booked, google, outside, calls, failures, broken, split>>

(* GoogleIntegrationsService.remove and its counterpart.                       *)
LoadIntegration(j) ==
    /\ Doing(j, "integration")
    /\ IF \E c \in CalendarsOf(Call(j).on) : IsRow(c)
       THEN Touch(j, job[j], CalendarsOf(Call(j).on)) ELSE End(j)
    /\ UNCHANGED <<store, google, outside, calls, failures, seen>>

(* The statuses are deleted under the names of the calendars, which are not   *)
(* the keys they were set under.                                              *)
ForgetAll(j) ==
    /\ Doing(j, "forgetAll")
    /\ detail' = detail \ CalendarsOf(Call(j).on) /\ Advance(j)
    /\ UNCHANGED <<store, status, channels, outside, calls, failures, seen>>

LoadDetails(j) ==
    /\ Doing(j, "details")
    /\ After(j, [job[j] EXCEPT !.left = detail \cap CalendarsOf(Call(j).on)])
    /\ UNCHANGED <<store, google, outside, calls, failures, seen>>

CommitRemove(j) ==
    /\ Doing(j, "commit") /\ job[j].op = "remove"
    /\ calendars' = [c \in Calendars |->
          IF c \in CalendarsOf(Call(j).on) THEN NoRow ELSE calendars[c]]
    /\ rows' = [c \in Calendars |->
          IF c \in CalendarsOf(Call(j).on) THEN [e \in Events |-> 0] ELSE rows[c]]
    /\ Observe(j) /\ Advance(j)
    /\ UNCHANGED <<booked, google, outside, calls, failures, broken, unasked, split>>

-----------------------------------------------------------------------------
(* A call fails, of the database, Redis, Google or Apple.  Errors while a     *)
(* channel is opened are logged only.                                         *)
Fail(j) ==
    /\ job[j].todo # <<>> /\ failures < MaxFailures
    /\ failures' = failures + 1
    /\ IF \E step \in {"watch", "note"} : Doing(j, step)
       THEN /\ SkipSubscribing(j)
            /\ broken' = broken \cup {Cal(j)}
            /\ UNCHANGED <<store, notices, gone, overtaken, unseen, mixed, doubled,
                           unasked, split>>
       ELSE /\ RollBack(j)
            /\ broken' = IF \/ job[j].op = "remove"
                            \/ \E step \in {"forget", "set"} : Doing(j, step)
                         THEN broken \cup Lost(j) ELSE broken
    /\ UNCHANGED <<google, events, calls>>

Step(j) ==
    \/ List(j) \/ Compare(j)
    \/ CheckStatus(j) \/ LoadCalendar(j) \/ CommitNotice(j)
    \/ Owner(j) \/ NextCalendar(j) \/ CommitPatch(j)
    \/ Known(j) \/ Stop(j) \/ Forget(j)
    \/ SetStatus(j) \/ Watch(j) \/ Note(j)
    \/ Exists(j) \/ Fetch(j) \/ LookForOutbound(j) \/ CommitIntegrate(j)
    \/ LoadIntegration(j) \/ ForgetAll(j) \/ LoadDetails(j) \/ CommitRemove(j)

Next ==
    \/ \E c \in Calendars, e \in Events :
          AddEvent(c, e) \/ Book(e, c) \/ RemoveEvent(c, e)
    \/ \E h \in Handlers, c \in Calendars : Deliver(h, c)
    \/ \E r \in Requests, call \in Calls : Start(r, call)
    \/ \E j \in Jobs : Step(j) \/ Fail(j)

(* The process goes on with what it has begun, and Google sends its notices;  *)
(* none of the jobs is favoured.                                              *)
Fairness ==
    /\ WF_vars(\E j \in Jobs : Step(j))
    /\ WF_vars(\E h \in Handlers, c \in Calendars : Deliver(h, c))

Spec == Init /\ [][Next]_vars /\ Fairness

-----------------------------------------------------------------------------
ByGoogle == {c \in Calendars : Vendor[c] = "google" /\ IsRow(c)}

Mirrored(c) == Stored(c) = events[c]
Excused == unseen \cup mixed

(* No notice of c is under way and no handler works on it.                    *)
Quiet(c) == c \notin notices /\ ~AtWork(c)

(* When the notices of a checked calendar have been served, its rows are the  *)
(* events of the calendar, whatever the order of the changes, the listings,   *)
(* the settings and the failures: _synchronizeWithGoogleCalendarEvents        *)
(* compares everything each time.  Not so for changes that came without a     *)
(* notice that is served, nor after two handlers worked on it at once.        *)
CheckedAreMirrored ==
    \A c \in ByGoogle \ Excused : calendars[c].check /\ Quiet(c) => Mirrored(c)

(* A calendar that is not checked blocks no time: it has no rows, unless it   *)
(* is of a second integration and was never set, whose rows are saved anyway. *)
UncheckedHaveNoRows ==
    \A c \in ByGoogle \ (mixed \cup doubled \cup unasked) :
        ~calendars[c].check => Stored(c) = {}

(* Together: the rows that block times are those the settings ask for.        *)
RowsFollowCalendar == CheckedAreMirrored /\ UncheckedHaveNoRows

(* Notices that come twice, late or again leave one row of an event, unless   *)
(* two handlers worked on the calendar at once.                               *)
OneRowPerEvent ==
    \A c \in Calendars \ doubled, e \in Events : rows[c][e] <= 1

(* A booking is canceled only after its event was removed from a calendar, or *)
(* when a listing in use did not show it.                                     *)
BookingsStay ==
    \A e \in Events : booked[e] = "canceled" =>
        e \in overtaken \/ \E c \in Calendars : e \in gone[c]

(* When no settings are being saved, one calendar of all vendors takes the    *)
(* bookings: patchAll resets the others, vendor by vendor.  Not so when two   *)
(* requests crossed, one came about in part, or it was for one vendor only.   *)
OneOutbound ==
    \/ split \/ \E j \in InFlight : job[j].op = "patch"
    \/ Cardinality({c \in Calendars : calendars[c].outbound}) <= 1

(* Unless a subscription broke off, a checked calendar has an open channel,   *)
(* an open channel is known by its details and its status, and no details are *)
(* of a closed one: the next resubscription depends on it.                    *)
ChannelsKnown ==
    \A c \in ByGoogle \ broken : ~AtWork(c) =>
        /\ c \in channels <=> c \in detail
        /\ c \in channels => c \in status
        /\ calendars[c].check => c \in channels

(* A checked calendar that lost no notice is mirrored in the end and stays so. *)
EventuallyMirrored ==
    <>[](\A c \in ByGoogle \ Excused : calendars[c].check => Mirrored(c))
=============================================================================
