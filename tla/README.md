# Verification of syncday-api

syncday-api is the server of a scheduling product: the members of a team
publish event types with public links and hours at which they are available,
and invitees book times. It is a NestJS application on TypeORM over MySQL, a
Redis cluster, and the services of Google, Zoom, Apple, Kakao, Bootpay and
AWS SNS. `ecosystem.json` starts several worker processes behind one address.

This directory holds TLA+ models of what the server stores, what it calls and in
which order, the TLC runs that check them, and proofs for TLAPS. Paths below
are relative to `src/src/main/services` unless they start with `auth`.

    tlc -config booking_times.cfg MCBooking     a run
    tlapm Booking_proofs.tla                    the proofs of a module

`PROJECT.json` lists the runs, the mutants, the theorems, the source lines each
definition stands for, and the hazards with the properties that watch them.

## 1. Why this system is hard to get right

Almost every handler does the same thing: it reads rows from MySQL, decides,
and writes to two or three stores, with an `await` between any two calls.

* Nothing is locked. Reads that decide happen before, and mostly outside, the
  transaction that writes; the entities have no version column. Requests of
  other members, other workers and webhooks run between any two awaits.
* A MySQL transaction covers MySQL only. Redis writes, charges and vendor calls
  inside it are not taken back by a rollback, and those after it may never
  happen.
* Redis holds things that must agree with rows: bodies of availabilities,
  events and bookings, sets of links in use, workspace flags, invitations,
  member counts.
* Permissions come from the token of the requester (`auth/strategy/jwt`), which
  is not compared with the profile again.

The `@core` directory (entities, DTOs, enums) is an empty submodule. What the
models need of it is taken from how the code uses it and marked external:
foreign keys that refuse, ids that count up, no unique key on a booking's time
or on an event's link.

## 2. Inventory

| Component | State it keeps | Operations | Must hold | Module |
|---|---|---|---|---|
| Booking path (`bookings`, `scheduled-events`) | rows in `scheduled_events`, bodies in Redis, the vendor's events and meetings, SNS messages | `createScheduledEvent` | no two bookings of one time; what is visible outside stands on a row; CONFIRMED means complete | `Booking`, `BookingLedger` |
| Time rules (`util/time-util`, `validate`) | none | past, hours, overrides, conflict query | the query finds every overlap | `ScheduleRules` |
| Availabilities (`availability`, the links in `events`) | rows, bodies in a Redis hash, `event_profile.availabilityId` | create, update, patch, patchAll, remove, clone, link, unlink | one default per member; events use an availability of their host; every row has a body | `Availability`, `AvailabilityBook` |
| Membership (`profiles`, `team`, part of `users`) | profile rows, invitations, member count, plan | invite, join, accept, remove, withdraw, change roles, close the team | one owner; nobody paid for gets lost; the count is right | `Membership`, `TeamRoster` |
| Orders and payments (`orders`, `payments`) | orders with the profiles they paid for, payments, the gateway's answer in Redis | charge, refund | charges and refunds have their rows | `Membership` |
| Event types (`events`, `events/event-details`) | event and detail rows, the team's set of links, three keys per detail | create, clone, patch, update, remove | a link leads to one event; the set follows the rows; bodies are whole | `EventLinks` |
| Workspaces (`team/team-setting`, `TeamService.create`) | teams, `team_settings.workspace`, a flag per name in Redis, keys of a team, charges | make, rename, close | a name leads to one team and is flagged exactly then; a team is whole | `Workspaces`, `NameRegister` |
| Sign-up (`users`, `auth/verification`) | users, temporary users, codes, verified flags | ask for a code, verify, sign up by e-mail or phone, set or delete a phone, leave | no second user of an address that was looked for; addresses are proved; the newest code counts | `Accounts` (taking up invitations is in `Membership`) |
| OAuth2 (`oauth2`, `auth/token`) | OAuth2 accounts, signed tokens | sign up, sign in or link by what is found, refresh | as for sign-up; a token claims what its profile says | `Accounts`; tokens as they age in `Membership` |
| Google calendars (`integrations/google-integration`) | integrations, calendars, copies of events, channels, their status and details in Redis | integrate, patch settings, synchronise, (re)subscribe, remove | the copies follow the calendar; bookings stay; one calendar takes bookings; channels are known | `CalendarSync` (synchronisation with times, as a booking sees it, is in `Booking`) |
| Apple calendars | integration, calendar, copies of events | integrate, patch settings, remove | as above, without channels | `CalendarSync` |
| Zoom and Kakao integrations | one row each | integrate, remove | | not modelled: one row, calls to vendors; Zoom's meetings are in `Booking` |
| Payment methods, products, user settings, notifications, converters, guards, configuration | single rows or none | | | not modelled: a single write, a conversion, or wiring |

How they interact:

* A booking reads the event, the host's availability (a row joined with a Redis
  body), the outbound calendar and the rows of a synchronised calendar, and
  writes to the host's calendar. In `Booking` the host changes these settings,
  and a webhook synchronises the calendar, between any two steps.
* Events point to availabilities through `event_profile`; removing an
  availability re-points them. That is in `Availability`.
* A sign-up takes up invitations that another member's request may be making,
  and both write orders and the count. That is in `Membership`.
* A sign-up makes a team with its workspace in its own transaction, and leaving
  deletes its keys but not its row. `Accounts` extends `Workspaces` for that: the
  steps of a sign-up contain those that make a team, and requests of both kinds
  interleave.
* What `CalendarSync` keeps up, the rows of a calendar and the outbound calendar,
  is what a booking reads; a synchronisation in turn cancels bookings.
* Requests carry tokens issued earlier. `Membership` keeps the set of tokens
  that may be in use and takes every requester from it.

## 3. The modules

Every module describes the handlers the same way. `request[r]` is the local
state of the handler that serves request `r`: what it has read, and the step it
awaits. An action is one awaited call, or one transaction with everything in it,
since its statements take effect together. `Fail(r)` ends a handler at any
await; it stands for a store that does not answer, a rejected promise, and a
lost answer (taken after the step it follows). MySQL is assumed to run
transactions as if one after the other, Redis to be atomic per command. Each
request is served once; clients that retry are further requests.

### ScheduleRules, Booking, BookingLedger

`ScheduleRules` translates the rules of
`GlobalScheduledEventsService.validate` as pure operators: the past, date
overrides, weekly hours, and the conflict query with the bounds the code
computes. `SecondsPerMinute` is a parameter: 60 in the code, 4 in the runs,
anything above 1 in the proofs.

`Booking` is one run of `createScheduledEvent` per request. Points that are easy
to get wrong and are modelled as the code has them:

* the host's availability is read when the request arrives and judged later;
* the queries of rows and of the calendar answer in either order;
* the row is saved, then the body, then the vendor's event; a failure of the
  last becomes a warning in the body, a failure of a conference service an error
  that leaves what the other service did;
* the message is published before the row is CONFIRMED, and a rejected publish
  ends the worker with every request it serves (`Exit`);
* the host moves events about and removes that of a booking
  (`RemoveBookingEvent`), and a synchronisation keeps the old time of an event
  that was only moved (`Synchronize`);
* the synchronisation cancels and soft-deletes the bookings with the iCalUID of a
  deleted row (google-calendar-integrations.service.ts:193), but the booking path
  sets the iCalUID on the object in memory, after the row is saved
  (global-scheduled-events.service.ts:400, :424), and what it writes to the row
  later (links, then the status) leaves it out: the branch finds no booking that
  was made here. `RowsOnlyAdvance` says so; its mutant writes the whole object.

`BookingLedger` says what that promises about times: a request looks once, then
may hold its time if it shares nothing with what it saw. `Booking` implements it
under the mapping `held <- Rows`, `looked <- ` the requests whose query has
answered, `view <- seen`.

### Availability, AvailabilityBook

Every operation of `AvailabilityService`, its repository, and the linking
operations of `EventsService`. Bodies are keyed by `<<profile, id>>` like the
hash fields `profileId:uuid`; `Containing` gives the fields in which the digits
of a profile id occur, because `updateAll` selects by
`key.includes(String(profileId))`. `AvailabilityBook` is the promise to the
rest of the system: one default each, events use their host's own.

### Membership, TeamRoster

The three stores MySQL, Redis and the gateway, and seven requests whose steps
follow `ProfilesService`, `OrdersService`, `PaymentsService` and `TeamService`.
What a rollback takes back is only the MySQL part: `InviteCharge` and
`InviteCount` are steps of their own and stay. A removal goes on after any error
of its refund, a lost answer of the gateway included (profiles.service.ts:862), a
closing team only after one the gateway reports (`RefundRead`, `RefundSave`). `Proper(c)` lists what the code
leaves to its callers, for example that a person invited is not a member yet.
`orderly` remembers that all requests so far were proper, bore current tokens and
were served one at a time; only then is the roster claimed.

### EventLinks

The handlers of `EventsService` as sequences of steps (`CreateSteps`,
`PatchSteps`, ...), since all of them are made of the same calls in different
orders: look the link up, write the row, release the old link, reserve the new,
set or delete the keys of the body. The orders are the point: `patch` releases
and reserves before it writes the row, `update` after. Neither stops when the row
is gone: `update` compares the number of affected rows with `false`
(events.service.ts:512), so that it goes on to write the body of an event that
was removed meanwhile and to reserve a link that no event has, unless a foreign
key refuses its hosts (:503). Requests that overlapped on an event have left its
link suspect and its body torn, so the properties do not speak of these.

`suspect` and `torn` say where the code cannot be expected to be right: links
that two requests reserved at once or a generated number repeated, and links and
events of requests that broke off or overlapped on one event.

### NameRegister, Workspaces, Accounts

`Workspaces` has `TeamSettingService`, `TeamService.create` and `delete`. A team
is a row, a row of settings with the name, a flag in Redis, a few more keys in
Redis, and perhaps a charge; the two tables count up on their own. A request
keeps the list of steps it has still to make (`todo`), and the order of the list
is that of the code: `RenameSteps` writes the row, asks for the flag, drops the
old one and sets the new one; `NewTeamSteps` sets the flag before the
transaction commits; `CloseSteps` drops it before. A transaction's rows appear when it
commits, its flags and keys at once, and a rename is not in a transaction at all.

`Accounts` extends it with `VerificationService`, `TemporaryUsersService`,
`UserService` and the part of `TokenService` that signs people up. A code lives
until `Expire` and is sent before it is stored; a verified flag and a temporary
user live for ever. The code of a phone that has a user is emptied on the object
that is stored next (verification.service.ts:147), and a request with an empty
code matches it: `blank` has these phones, 0 in a request is the empty code, and
`mailbox` has what was really sent, the code of a known e-mail address included,
since the data of a message is made of the same object whatever its template.
Requests bring any code, guessed or sent. `SignUpSteps` makes a team as `NewTeamSteps` does. With an OAuth2 account the
user is looked up to choose a context (sign up, sign in, link, integrate) and
once more to act on it. Codes, addresses and names are members of small sets; a
default name is that of the address, or that name with one of `Numbers`.

Six variables are read by the properties only. `confirmed` has the addresses of
which a code that was sent was returned while it was stored, `waived` the phones
of which the empty one was. `suspect` has names that two
requests raced for, that a request which broke off had touched, or that a refused
rename had written; `torn` has teams that overlapping requests or a failure
touched; `skewed` says that the counters of teams and settings have drifted;
`met` says which users with an address were there when a sign-up came in.
Two requests on a team overlap (`Meets`) also when one of them closes a team
whose number is that of the other's settings: a team is closed by the settings
with its own number, whosever they are.

`NameRegister` is the promise about names: each leads to one team, which has no
other and gives it up for a free one or when it is closed; a mishap makes it `Disputed`, and nothing
is said of it from then on. `Workspaces` implements it with `holder` mapped to
the team of the name, and to `Disputed` for the suspect ones.

### CalendarSync

`job[j]` is the local state of a handler: `Handlers` serve notices of Google,
and a request has one job per vendor, since the endpoint runs the vendors'
`patchAll` side by side, each with its own transaction. The steps are the awaited calls:
reading settings, listing, comparing, stopping and opening channels, and
committing. These calls are merged, because no property tells the states between
them apart: a channel's status and details are read together (`Known`), and
deleted together (`Forget`); rows that are new and rows that are obsolete are
found by one query. The calendars of one patch are taken one after the other in
any order, where the code starts them together. An integration is of calendars
that are new to the server: Google gives them new uuids, so `Start` asks that
nothing is known of them.

Events come and go at Google (`AddEvent`, `Book`, `RemoveEvent`), each leaving a
notice if a channel is open. A notice is delivered to some worker, when the
calendar may have changed again, and comes once more if it was not answered
(`Retry`). A listing shows `PageSize` events and no more (1000 in the code).
Apple's patch of settings compares with the settings before it and deletes
nothing, as the code does.

Eight variables are read by the properties only, and say where nothing can be
promised: `unseen` (the calendar changed without a notice that is served: there
was no channel, or the notice came before the settings were committed), `mixed`
and `doubled` (two handlers worked on it at once, since the last undisturbed
synchronisation, or ever), `broken` (a subscription ended half way), `unasked`
(it came with a second integration), `split` (requests for the outbound calendar
crossed or came about in part), and `gone` and `overtaken` (events that were
removed, and events a listing in use does not show).

## 4. The runs

| Run | Shows | Bounds | Size |
|---|---|---|---|
| `booking_times` | `OverlapOnlyByRace`, `RespectsCalendar`, `JudgedInv`, refinement of `BookingLedger` | 2 requests, overlapping times with and without buffer, one calendar, 2 engagements the host moves freely | ~1 min |
| `booking_effects` | `ConfirmedIsComplete`, `RefusedLeavesNothing`, `EffectsHaveRows`, `LifecycleInv`, `RowsOnlyAdvance`, `EveryRequestEnds` | 2 requests on one worker, both conference services, calendar and Zoom switched on and off | ~1 min |
| `booking_double`, `booking_adjacent`, `booking_hours` | the violations of section 6 | as above | seconds |
| `availability` | `AtMostOneDefault`, `LinksOwn`, `BodiesAccounted`, `BodiesStay`, `SerialKeepsBook` | members 1 and 11, 3 rows and 2 more ids, 3 links, any two of about 60 requests | 124,000 states |
| `availability_default` | the violation of `DefaultExists` | two patches | seconds |
| `membership` | `MoneyAccounted`, `SeatsAccounted`, `Removable`, `OrderlyKeepsRoster` | two starting teams, any two of 40 requests, 7 people | 132,000 states |
| `membership_owner` | the violation of `OwnerStays` | two requests | seconds |
| `event_links` | `OneEventPerLink`, `FlagsFollowRows`, `BodiesFollowRows` | any three of 15 requests, 2 events and up to 3 more | 431,000 states |
| `accounts` | `FlagsFollowNames`, `TeamsWhole`, `NoTwins`, `AddressesProved`, `NewestCodeCounts`, refinement of `NameRegister` | two teams, one newcomer with an e-mail address and a phone, which may be that of a user who proved it or of one whose phone Kakao told; any two of 19 requests; 2 codes per address and the empty one | 148,000 states |
| `calendar_sync` | `RowsFollowCalendar`, `OneRowPerEvent`, `BookingsStay`, `OneOutbound`, `ChannelsKnown`, `EventuallyMirrored` | 2 calendars at Google, 1 at Apple, 2 events, pages of 1 event, 1 handler of notices and 2 requests, 1 failure, 4 deeds | 599,000 states, 2 to 3 min |

Why the bounds are enough. A handler keeps no state between requests, so what
goes wrong does so among the handlers in flight: two are enough for a
check-then-act, a lost update and a stale read. `event_links` needs three, for a
link that one request frees while the second takes it under a third that had
looked it up before. Profiles 1 and 11 are the smallest ids of which one
contains the other. Five ids leave room for every row three requests can make.
Four-second minutes keep the second before, at and after a boundary apart.
Two engagements suffice to move one and keep one. `MCWithNumber` lets a link
grow by three numbers, more than the requests can add. In `accounts` one of the names asked for
is that of a team, one is free, and one is the default name of the newcomer,
whose second choice is another name; three teams can be made besides the two.
In `calendar_sync` a change at a calendar is one deed and a request two, so that
there are up to four changes with no request, two with one, or two requests that
overlap; a handler that synchronises overlaps with a patch, an integration or a
removal that does as well. With two handlers of notices the invariants hold too
(1.75 million states, too long for the liveness). A page of one event makes a
second event the one that is not listed. Symmetry is over
requests only, which are interchangeable, and is not used in a run that checks
liveness.

`CHECK_DEADLOCK FALSE` in every run: a run of a model is over when every request
has been answered.

Liveness. `EveryRequestEnds` (a received request is confirmed, refused or
failed) holds under weak fairness of `Serve(r)` and `Deliver(r)`: every client
library in use ends each call with an answer or an error, and Node runs the
callback. Nothing forces an invitee to ask, the host to change settings, a
calendar to synchronise, or anything to fail.

`EventuallyMirrored` (a checked calendar that lost no notice has the right rows in
the end, and keeps them) holds under weak fairness of two actions as a whole:
some job goes on, and some notice is delivered. The first is Node resuming a
handler whose call has been answered; the second is Google, which sends a notice
again until it is answered with success. No particular handler or calendar is
favoured. People stop changing the calendar after `MaxDeeds`, and without that
nothing would ever be mirrored.

Each property of a passing run has a mutant in `PROJECT.json`: a plausible slip
in a modelled definition (it stands above the definition, marked Faulty) with
which TLC finds the property violated.

## 5. What is proved

`Booking_proofs` first proves `QueryFindsOverlaps` of `ScheduleRules`: for schedules on whole
minutes the conflict query matches every stored row that shares time with the
request, for every length of a minute. It rests on a lemma about `setSeconds`
and one about the bounds it yields. Alignment is needed: the query's upper bound
takes its seconds from the start.

It proves further, for any sets of requests, workers, events, calendars
and times:

* `TypeCorrect` and `LifecycleCorrect`. Neither is inductive alone. Which links
  a row has, and that a message implies a body, depend on where the handler is;
  so `LifecycleInv` says for every point of the run which stores it has reached,
  and what they still say after it has ended. It needs types, and the types need
  from it that a handler past `SaveRow` has a row. The two are proved together,
  one step per action.
* From it, `RefusalIsClean`, `EffectsAreSaved`, `ConfirmationIsComplete`, and the
  action property `RowsAdvance`: a row has no iCalUID at any point of the run, so
  that `ToCancel` is empty whatever the host removes.
* `JudgedCorrect`: what a request has seen matches no query of its own, from the
  first answer to its row, and those rows stay. With `QueryFindsOverlaps` and the
  assumption `WholeMinutes` this gives `OnlyRacesOverlap`, `CalendarRespected`,
  and `BookingImplementsLedger`: initial states map to initial states and each
  action to `Look`, `Hold`, `ConfirmHeld` or a stutter.

`Availability_proofs` proves, for any members, rows, links and requests:

* `TypeCorrect` and `HandlersCorrect`, which are inductive only together: what a
  handler will write is of its type because of what it has read, and
  `HandlersInv` says of each step what has been read by then, and that the
  default row, the row to delete and the new row stay what they were.
* `OneDefaultEach` and `LinksStayOwn`, for members who ask for rows of their own
  (`Disciplined`; the property leaves out PUT and the linking of several events,
  which break it). They need `GivenCorrect`: a row a member was given stays his.
  The transaction of `patch` is the heart of it: it takes the flag from the other
  rows whatever was read before.
* `BodiesNeverVanish`, an action property, one case per action that writes a
  body, and `BodilessRowsExplained`.
* `SerialServiceIsBook`, the refinement of `AvailabilityBook` by requests served
  one at a time. Its invariant `SerialInv` says that a lone handler acts on rows
  that are still as it read them; each action then maps to one step of the book
  or to a stutter.

`Membership_proofs` proves, for any people, ids, orders and requests:

* `TypeCorrect` and `HandlersCorrect`, with `OrdersInv`: an order that a handler
  has made and not yet saved is no other handler's, so that what one charges
  another does not book.
* `MoneyCorrect`. From `Grows` (charges, answers, orders and refunds are never
  taken back) and `RefundsInv`: what the gateway gave back is booked, or its
  handler has yet to or has failed.
* `SeatsCorrect`, by `SeatsInv`: whoever a finished invitation was for is invited,
  a member, withdrawn, or in the hands of a sign-up that took it up.
* `RemovableCorrect`: with one sign-up at most, every member but the owners is in
  the list of an order. It rests on `ListingAssumption`, the same of the members
  there are at the start, which two people who sign up at once break.
* `RosterCorrect`, the refinement of `TeamRoster` while one proper request is
  served at a time. `OrderlyInv` says what the one handler there may be is about
  (`Serves`: it invites, signs up, removes, changes roles or closes), what of it
  the tables have by then, and by how much the stored count is `Ahead` of the
  members; each action maps to a step of the roster or to a stutter. The attempt
  showed two assumptions missing, which `MembershipAssumption` has now: a
  withdrawal names one person, and who has a profile has an account.

`EventLinks_proofs` proves, for any events, links and requests:

* `TypeCorrect` and `HandlersCorrect`. `HandlersInv` says of each handler which
  rest of its steps it has ahead, whether it has written, which event it is on,
  that the row is as it left it when it is alone there, and that a link it has
  found free is free or was taken meanwhile.
* `LinksStayApart` and `ReservationsCorrect`. The set of links and the rows agree
  only between requests, so the invariant (`LinksInv`) counts by claims: an event
  claims the link of its row, or, while a handler that is alone on it has written,
  the link its steps have left in the set. A link that is not `Dirty` is in the
  set exactly when one event claims it. Dirty are the suspect links, and those of
  handlers that overlap on an event and have written: they become suspect when
  the handler ends. The proof classes the actions by what they change
  (`NextWorks`) and follows one link through each class.
* `BodiesComplete`, in the same way: `BodiesInv` says how much of the body each
  step has left.

`Accounts_proofs` proves, for any people, teams, names, codes and requests:

* `TypeCorrect` and `HandlersCorrect`. Both handlers of teams and of people run
  through lists of steps. `Follows` says which step comes after which in each
  call, and one lemma per call (`NewTeamGoing` and so on) that its list keeps to
  it; `Works` says what any step does to the handlers: the others stay where they
  are, its own goes on to the next step, with all that step works with
  (`WellFormed`), or is done.
* `AddressesCorrect`. By `SentInv` a stored code that is not empty was sent to its
  address, as was the code a handler is about to store. By `ProofsInv` a verified
  address has therefore been confirmed or, if its stored code was empty, waived,
  and so has the address of every handler past its comparison.
* `NoTwinsCorrect`. By `TwinsInv` whoever was there when a sign-up came in has the
  address still, while the sign-up looks, or has gone. The look-up that lets a
  sign-up go on has found nobody, so that all of them have gone by then.
* `NewestCodeCorrect`. By `CodesInv` codes only count up, one handler at most asks
  for codes of an address that is not `muddled`, and a code that is newer than
  the stored one is in the hands of a handler about to store it.

  They rest on `Spoken` in `AccountsAssumption`: an endpoint is called with an
  address of its kind, as its DTO and token demand.

`Workspaces_proofs` continues `Accounts_proofs` for the teams, since sign-ups make
teams and leaving gives them up:

* `TeamsWholeCorrect`. By `NumbersInv` numbers only count up, so that the number a
  handler has drawn is its own until it commits (`ApartInv`); by `DriftInv` a team
  and its settings have one number unless `skewed`, which gives `TeamsHaveNames`.
  `WroteInv` and `LeaveInv` say what a handler has written for good. `KeysInv`
  says for each call and step which keys and charge its team has by then, as the
  rest of the steps will add to them (`Stage`, `Rest`).
* `FlagsCorrect`. A name that is not suspect is in the flags exactly if somebody
  claims it (`NamesInv`): a row, or a rename at work on the row by the name it has
  not dropped yet (`RowClaims`); or a handler that has set the flag of a team it
  makes and not yet committed the row (`MakerClaims`). `NameInv` says what
  handlers know of the names. Each action keeps the flags and claims of a name,
  hands the claim on, gives flag and claim up, or takes both (`FlagsSame`,
  `FlagPasses`, `FlagGone`, `RowTakesFlag`, `MakerTakesFlag`). Two who claim one
  name have raced for it, and each knows it (`Overlap`), so that it becomes
  suspect when either ends.

  The attempt to prove these two properties showed both to be false beyond the
  instance TLC checks: a rename of one team while another is closed whose number
  is that of the first one's settings, and people who leave a team that is closed
  but kept its settings. `Meets` and the exception of a closed, `skewed` team
  were added for these.

* `RegisterCorrect`, the refinement of `NameRegister`. The same claims say what
  the register says: a name that is not suspect leads to the team of the row that
  claims it (`ClaimsAre`, `InForce`; of renames that overlap the names are in
  doubt). Each action leaves all claims of rows as they are, or has one name given
  up by its row or taken by one of a team that has no other (`NamesMove`), and so
  is a step of the register or a stutter (`LeadsMove`). It rests on
  `RegisterAssumption`: the two marks of the register are no numbers of teams.
* `OneNameCorrect`, which follows from it and from the register alone: no team
  ever has two names that are not suspect.

`CalendarSync_proofs` proves, for any calendars, integrations, events, handlers
and calls:

* `Core`, on which everything rests, and `TypeCorrect`. `CoreInv` says of each
  handler that the list of steps it has ahead is the rest of one of the seven
  lists there are (`Rests`, by operation and vendor), and that the calendars it
  has touched, those it has left and what it has read fit to its next step
  (`Placed`, `Kept`). `Follows` has the pairs of steps that come after one
  another, so that each action is a move along one of them (`Moved`).
* `BookingsSafe`. By `BookInv` what a handler has listed or taken for new was once
  in the calendar, and what it takes for obsolete was removed or is in
  `overtaken`.
* `OneRow`, by `RowInv`: handlers on one calendar know it (`PairsInv`), an
  integration is the only one of its calendars and they have no row until it
  commits, and an event a handler takes for new has no row yet, unless the
  calendar is shared.
* `OutboundAlone`, by `OutInv`. Between the two commits of one request there may
  be two outbound calendars; `Settled` says that each is one the request asks
  for, or of a vendor it has still to save.
* `ChannelsInOrder`, by `ChannelInv`. Channel, details and status agree only
  between handlers, so `InOrder` allows each disagreement while some handler is
  at a step that mends it; an integration has its calendars to itself
  (`OwnInv`), and a patch that is past a calendar owes it a channel (`Owes`).

`CalendarMirror_proofs` continues it with `RowsFollow`: the rows of a calendar at
Google are its events once its notices are served, and there are none if it is
not checked. `RowsFollowCalendar` is about calendars no handler works on, so
`MirrorsInv` says what a handler has in its hands. `ListInv` and `CompareInv`: a
listing in use, and the rows as they will be when the handler commits
(`AfterIt`), are the events of the calendar, or there is an `Excuse`: the handler
is observed to be out of date or to share the calendar, or a notice is under
way. An excuse is not lost while the handler works on (`ExcuseStays`), since a
notice that is delivered is in the hands of another handler (`NoticesLost`),
which keeps it, sends it back, drops it for all to see, or commits
(`HandlerGoes`). So who commits without an excuse leaves the calendar mirrored
(`MirrorCommits`), and who commits with one leaves it in `unseen` or `mixed`, or
with a notice. `WantInv` and `CheckInv` are for the calendars that are not
checked: a patch lists none that it turns off, and what a handler works on is
checked or named.

The assumptions are those of the modules (`BookingAssumption`,
`AvailabilityAssumption`, `ListingAssumption` and so on), which TLC evaluates in
every run, and `WholeMinutes` where named. They speak of parameters only: that
ids count up, that what earlier requests have left is in order, that a link with
a number is another link.

Only model-checked: `EveryRequestEnds` and `EventuallyMirrored`, since liveness is
beyond the prover. Every other property of a passing run is a theorem.

## 6. Where code and documentation disagree

Shown by a run:

* `NoDoubleBooking` (`booking_double`): two requests that both query before
  either saves are both booked for overlapping times.
  `validate`'s comment promises the check (global-scheduled-events.service.ts:493).
* `RefusedForCause` (`booking_adjacent`): a request that ends when a stored one
  begins is refused; "for exclusive query, reduce 1 second" (:520) says
  otherwise. The other side is exclusive.
* `BookedWithinHours` (`booking_hours`): the end of a request is never compared
  with the hours (time-util.service.ts:517), against a unit test's title
  (time-util.service.spec.ts:1022); its start is compared twice.
* `DefaultExists` (`availability_default`): a rename writes back the default flag
  it read before another patch set it (availability.service.ts:297), against
  events.service.ts:686, "Default availabilty should exist".
* `OwnerStays` (`membership_owner`): a member who becomes the owner after he was
  looked up is deleted (profiles.service.ts:918), against "Owner cannot be
  deleted" (:1041).

Seen while modelling, in the models as the code has them, without a run of their
own:

* Availability: PUT may set a second default or clear the only one (:225), which
  patch refuses (:276); a removal may delete what has become the default
  meanwhile (:362); the body of a removed availability stays if no event used it
  (:383); linking several events takes event ids for ids of `event_profile`
  (events.service.ts:766) and moves links of others; patchAll stores weekly
  hours as overrides if none are given (redis repository:184), writes back
  bodies it read earlier (:153, :197) and reaches members whose field contains
  the digits of the id (:178).
* Membership: an owner who names himself owner, or a person who has left, ends
  up without an owner in the team (profiles.service.ts:764); old tokens allow
  two owners; a manager may demote the owner; withdrawing twice lowers the count
  twice (:971); somebody who signs up between the look-up of accounts (:346) and
  the saving of invitations is invited for good; two people invited with one
  order who sign up at once overwrite each other's entry in it (:627), and the
  one left out, like a former owner, cannot be removed; a negative payment is
  saved even if the gateway refused (:848), and a refund cancels the whole order
  (TODO #703); completing an invitation deletes the wrong hash field
  (profiles.redis-repository.ts:154).
* Events: `SADD` tells whether a link was free and nobody reads its answer; the
  number put on a link is the clock in 32 bits, repeats within 25 ms, and the
  result is not looked up; `remove` leaves the setting of an event in Redis; a
  row is compared with itself when hosts are recreated (events.service.ts:681);
  a clone is saved with the host rows of its source, ids included (:596).
* Workspaces: a rename that is refused has written its row already
  (team-setting.service.ts:112), and renaming away from there drops the flag of
  the team that does have the name; the flag is read and set by two calls
  (:129); a team is closed by the settings whose id is the team's (:151); a
  deleted user's team keeps its settings row while the name is free again
  (user.service.ts:1088).
* Sign-up: the code of a phone that has a user is stored empty, and an empty code
  returned for it is taken for right (verification.service.ts:147, :191), so that
  whoever sets his phone to that number need not have been sent a code; by e-mail nobody looks whether the address has a user
  (user.service.ts:522) and the code stays valid (:320), so that two sign-ups with
  one code make two users; a verified status has no lifetime; a second OAuth2
  provider is never linked, since the search ignores the type
  (oauth2-accounts.service.ts:42); the events whose reminders change when a phone
  is deleted are those of all users (:961), and the endpoint does not ask whether
  another way to sign in is left; a token without a team cannot be refreshed
  (token.service.ts:305), and a refreshed one copies old roles (:350).
* Calendars: Apple's patch decides by the settings before it, so that unchecking
  a calendar adds its rows and checking it adds none; a second integration of
  Google stores rows of calendars that are not checked
  (google-integrations.service.ts:265); removing one deletes the details of the
  channels before it reads them to stop the channels (:379), and deletes statuses
  under other names than they are set (:361); the endpoint of one vendor does not
  see to the outbound calendar of the other; an Apple error of invalid
  credentials is answered as success (calendar-integrations.controller.ts:136);
  after a failure between `stopWatch` and the deletion of its details, later
  patches stop it again and fail (google-calendar-integrations.service.ts:573);
  a channel expires and nothing renews it; a booking is cancelled by the
  iCalUID in whatever calendar it stood (:194), if its row has one, which the
  booking path never writes (global-scheduled-events.service.ts:400); a listing
  is compared with rows that are newer, and a booking saved meanwhile would be
  cancelled (:181).

## 7. What is not modelled, and why

* Wording, formatting, pagination, DTO mapping, logging, and reads that change
  nothing and decide nothing.
* Timezones in `ScheduleRules`: times lie within one date of the host.
  Intersections of several members' availabilities are planned (`TimeRanges`).
* The apple and outlook sides of calendars: the booking path takes the first
  vendor's calendar, Google's.
* In `Membership`, issuing a billing key and PayPal's validation; in
  `EventLinks`, hosts and descriptions of events.
* In `Accounts`, passwords and names (one UPDATE each), deleting a phone (it
  rewrites bodies of events), the greeting and the logo of a team, and Redis
  losing a key before its time. The uuid of a verification: what the code refuses
  for another uuid may go on in the model, or break off, so that the model has
  more behaviours than the code. Two codes are never equal by chance.
* In `Membership`, errors of single commands of a Redis pipeline, which the code
  does not look at, and a team that is closed again with an old token in
  `Workspaces`.
* In `Booking`, the message that tells an invitee of a cancellation. In
  `CalendarSync` a booking's row has the iCalUID of its event, which the code
  never writes: the model cancels more bookings than the code, and `BookingsStay`
  holds of the code all the more.
* In `CalendarSync`, `patchCalendarEvent` (a description at Google), the contacts
  a removal resets, the credentials of Apple, the limit on the number of
  integrations, the expiry of a channel, and conversions of vendor data; one host.
* Guards, decorators, filters and start-up hold no state; payment methods,
  products and notifications are one row or one call each.
* Components marked so in section 2; `PROJECT.json` gives each its reason.

## 8. Plan

1. `TimeRanges`: intersections of overrides and weekly hours as folds, against a
   reference definition over instants, and the times offered by
   `BookingsService.getHostAvailability`.
2. Deleting a phone, composed with the bodies of `EventLinks`; refreshing a token,
   composed with `Membership`.
