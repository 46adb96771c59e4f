---------------------------- MODULE Availability ----------------------------
(***************************************************************************)
(* The availabilities of the members of one team: AvailabilityService, its  *)
(* Redis repository, and the operations of EventsService that say which     *)
(* availability an event of a member uses.                                  *)
(*                                                                         *)
(* An availability is a row in MySQL (its owner and whether it is his       *)
(* default) and a body in a Redis hash of the team (its weekly times and    *)
(* the overrides of single dates).  Every member is meant to have exactly   *)
(* one default, which new events use and which replaces an availability     *)
(* that is removed.  Each operation reads, decides and writes in separate   *)
(* calls; only the writes of one transaction happen together.  Requests     *)
(* interleave between the calls and any of them may end half way.           *)
(***************************************************************************)
EXTENDS FiniteSets

CONSTANTS
    Profiles,        \* the members of the team
    Ids,             \* availability ids, in one-to-one relation to the uuids
    Hours,           \* entries of availableTimes
    EventIds,        \* the events of the team
    LinkIds,         \* the ids of event_profile rows
    LinkEvent,       \* LinkIds -> the event of the row
    LinkProfile,     \* LinkIds -> the member who hosts it
    Containing,      \* profile -> the hash fields whose text contains its id
    Unused, Gone,    \* an id not yet assigned, an id whose row is deleted
    NoBody, NoRow, NoId, NoCall,
    Absent,          \* a property the request body does not have
    GivenRows,       \* the rows at the start
    GivenLinks,      \* the availability each event_profile row uses then
    Requests,        \* HTTP requests
    Calls            \* what they may ask for

Days == {"past", "today", "coming"}   \* target dates of overrides
Keys == Profiles \X Ids               \* hash fields, `${profileId}:${uuid}`
RowType == [profile : Profiles, default : BOOLEAN]

(* updateAll can store entries of availableTimes as overrides.              *)
BodyType == [availableTimes : SUBSET Hours, overrides : SUBSET (Days \cup Hours)]

CallType ==
    [op : {"create", "update", "patch", "patchAll", "remove", "clone",
           "linkEvents", "linkEvent", "unlink"},
     profile : Profiles, id : Ids,
     default : BOOLEAN \cup {Absent},
     details : BOOLEAN,               \* a name, a timezone or a priority
     availableTimes : (SUBSET Hours) \cup {Absent},
     overrides : (SUBSET Days) \cup {Absent},
     events : SUBSET EventIds]

ASSUME AvailabilityAssumption ==
    /\ LinkEvent \in [LinkIds -> EventIds]
    /\ LinkProfile \in [LinkIds -> Profiles]
    /\ Containing \in [Profiles -> SUBSET Keys]
    /\ \A p \in Profiles : {p} \X Ids \subseteq Containing[p]
    /\ Unused \notin RowType /\ Gone \notin RowType /\ Unused # Gone
    /\ NoRow \notin RowType
    /\ NoBody \notin BodyType
    /\ NoId \notin Ids
    /\ Calls \subseteq CallType
    /\ \A c \in Calls : c.op \in {"create", "update"} =>
          c.availableTimes # Absent /\ c.overrides # Absent
    /\ NoCall \notin CallType
    /\ GivenRows \in [Ids -> RowType \cup {Unused}]
    /\ GivenLinks \in [LinkIds -> Ids]
    /\ \A p \in Profiles : \E i \in Ids : GivenRows[i] = [profile |-> p, default |-> TRUE]
    /\ \A i, j \in Ids :
          /\ GivenRows[i] \in RowType /\ GivenRows[i].default
          /\ GivenRows[j] \in RowType /\ GivenRows[j].default
          /\ GivenRows[i].profile = GivenRows[j].profile
          => i = j
    /\ \A l \in LinkIds :
          /\ GivenRows[GivenLinks[l]] \in RowType
          /\ GivenRows[GivenLinks[l]].profile = LinkProfile[l]

VARIABLES
    rows,      \* MySQL: the availability rows
    links,     \* MySQL: the availability of each event_profile row
    bodies,    \* Redis: the fields of the team's availability hash
    request,   \* the local state of the handler of each request
    overlapped \* observed only by the properties: two requests were served
               \* at the same time

vars == <<rows, links, bodies, request, overlapped>>

-----------------------------------------------------------------------------
IsRow(i) == rows[i] \in RowType
Defaults(p) == {i \in Ids : IsRow(i) /\ rows[i].profile = p /\ rows[i].default}

Steps ==
    {"createRow", "createBody", "updateFind", "updateRow", "updateBody",
     "patchFind", "patchRow", "patchBody", "patchAllRead", "patchAllWrite",
     "removeFind", "removeDefault", "removeRow", "removeBody", "cloneFind",
     "cloneRow", "cloneRead", "cloneBody", "linkEventsDefault",
     "linkEventsRow", "linkEventRow", "unlinkDefault", "unlinkRow"}

First ==
    [create |-> "createRow", update |-> "updateFind", patch |-> "patchFind",
     patchAll |-> "patchAllRead", remove |-> "removeFind",
     clone |-> "cloneFind", linkEvents |-> "linkEventsDefault",
     linkEvent |-> "linkEventRow", unlink |-> "unlinkDefault"]

RequestType ==
    [step : {"idle", "done", "failed"} \cup Steps,
     call : Calls \cup {NoCall},
     new : Ids \cup {NoId},                 \* the row it has created
     loaded : RowType \cup {NoRow},         \* the row it has read
     fallback : Ids \cup {NoId},            \* the default it has read
     read : [Keys -> BodyType \cup {NoBody}]] \* the bodies it has read

TypeOK ==
    /\ rows \in [Ids -> RowType \cup {Unused, Gone}]
    /\ links \in [LinkIds -> Ids]
    /\ bodies \in [Keys -> BodyType \cup {NoBody}]
    /\ request \in [Requests -> RequestType]
    /\ overlapped \in BOOLEAN

NoBodies == [k \in Keys |-> NoBody]

Init ==
    /\ rows = GivenRows
    /\ links = GivenLinks
    /\ bodies = [k \in Keys |->
          IF GivenRows[k[2]] \in RowType /\ GivenRows[k[2]].profile = k[1]
          THEN [availableTimes |-> Hours, overrides |-> {"coming"}]
          ELSE NoBody]
    /\ request = [r \in Requests |->
          [step |-> "idle", call |-> NoCall, new |-> NoId, loaded |-> NoRow,
           fallback |-> NoId, read |-> NoBodies]]
    /\ overlapped = FALSE

-----------------------------------------------------------------------------
At(r, step) == request[r].step = step
Call(r) == request[r].call
Goes(r, step) == request' = [request EXCEPT ![r].step = step]
Stores == <<rows, links, bodies, overlapped>>
Key(r) == <<Call(r).profile, Call(r).id>>

InFlight == {r \in Requests : request[r].step \in Steps}

Receive(r) ==
    /\ At(r, "idle")
    /\ \E c \in Calls :
          request' = [request EXCEPT ![r].call = c, ![r].step = First[c.op]]
    /\ overlapped' = (overlapped \/ InFlight # {})
    /\ UNCHANGED <<rows, links, bodies>>

(* The store does not answer, or the worker ends.                           *)
Fail(r) ==
    /\ r \in InFlight
    /\ Goes(r, "failed")
    /\ UNCHANGED Stores

(* AvailabilityRedisRepository.set: overrides of days gone by are dropped,  *)
(* and so is whatever has no target date.                                   *)
Kept(overrides) == overrides \cap {"today", "coming"}
Set(key, availableTimes, overrides) ==
    bodies' = [bodies EXCEPT ![key] =
        [availableTimes |-> availableTimes, overrides |-> Kept(overrides)]]

(* save requires that the field is new, update that it is not; both have    *)
(* written it when they find out.                                           *)
Saves(r, key, availableTimes, overrides) ==
    /\ Set(key, availableTimes, overrides)
    /\ Goes(r, IF bodies[key] = NoBody THEN "done" ELSE "failed")

-----------------------------------------------------------------------------
(* create: the row, then the body.                                          *)
Insert(r, row, next) ==
    \E i \in Ids :
        /\ rows[i] = Unused
        /\ rows' = [rows EXCEPT ![i] = row]
        /\ request' = [request EXCEPT ![r].new = i, ![r].step = next]

(* Faulty: the default flag is left to the database.                        *)
CreateRowUnflagged(r) ==
    /\ At(r, "createRow")
    /\ Insert(r, [profile |-> Call(r).profile, default |-> Absent], "createBody")
    /\ UNCHANGED <<links, bodies, overlapped>>

CreateRow(r) ==
    /\ At(r, "createRow")
    /\ Insert(r, [profile |-> Call(r).profile, default |-> FALSE], "createBody")
    /\ UNCHANGED <<links, bodies, overlapped>>

CreateBody(r) ==
    /\ At(r, "createBody")
    /\ Saves(r, <<Call(r).profile, request[r].new>>,
             Call(r).availableTimes, Call(r).overrides)
    /\ UNCHANGED <<rows, links, overlapped>>

(* update (PUT) writes the flag it is given, if any, and leaves the others  *)
(* alone.                                                                   *)
UpdateFind(r) ==
    /\ At(r, "updateFind")
    /\ Goes(r, IF IsRow(Call(r).id) /\ rows[Call(r).id].profile = Call(r).profile
               THEN "updateRow" ELSE "failed")
    /\ UNCHANGED Stores

UpdateRow(r) ==
    /\ At(r, "updateRow")
    /\ IF IsRow(Call(r).id)
       THEN /\ rows' = [rows EXCEPT ![Call(r).id].default =
                           IF Call(r).default = Absent THEN @ ELSE Call(r).default]
            /\ Goes(r, "updateBody")
       ELSE /\ Goes(r, "failed")
            /\ UNCHANGED rows
    /\ UNCHANGED <<links, bodies, overlapped>>

UpdateBody(r) ==
    /\ At(r, "updateBody")
    /\ Set(Key(r), Call(r).availableTimes, Call(r).overrides)
    /\ Goes(r, "done")
    /\ UNCHANGED <<rows, links, overlapped>>

-----------------------------------------------------------------------------
(* patch finds the row by id alone and merges the request into what it read. *)
PatchesRow(c) == c.default # Absent \/ c.details
PatchesBody(c) == c.availableTimes # Absent /\ c.overrides # Absent
AfterPatchRow(c) == IF PatchesBody(c) THEN "patchBody" ELSE "done"

PatchFind(r) ==
    LET c == Call(r) IN
    /\ At(r, "patchFind")
    /\ IF ~ IsRow(c.id) \/ (rows[c.id].default /\ c.default = FALSE)
       THEN Goes(r, "failed")
       ELSE request' = [request EXCEPT
                ![r].loaded = rows[c.id],
                ![r].step = IF PatchesRow(c) THEN "patchRow" ELSE AfterPatchRow(c)]
    /\ UNCHANGED Stores

Merged(r) ==
    IF Call(r).default = Absent THEN request[r].loaded.default ELSE Call(r).default

(* Faulty: the other rows are only cleared when this one was the default.   *)
PatchedAlone(r) ==
    [i \in Ids |->
        CASE IsRow(i) /\ i = Call(r).id -> [rows[i] EXCEPT !.default = Merged(r)]
          [] /\ IsRow(i) /\ i # Call(r).id
             /\ request[r].loaded.default /\ rows[i].profile = Call(r).profile ->
                [rows[i] EXCEPT !.default = FALSE]
          [] OTHER -> rows[i]]

(* The transaction: no default but this one, then the merged row.           *)
Patched(r) ==
    [i \in Ids |->
        CASE IsRow(i) /\ i = Call(r).id -> [rows[i] EXCEPT !.default = Merged(r)]
          [] IsRow(i) /\ i # Call(r).id /\ Merged(r) /\ rows[i].profile = Call(r).profile ->
                [rows[i] EXCEPT !.default = FALSE]
          [] OTHER -> rows[i]]

PatchRow(r) ==
    /\ At(r, "patchRow")
    /\ rows' = Patched(r)
    /\ Goes(r, AfterPatchRow(Call(r)))
    /\ UNCHANGED <<links, bodies, overlapped>>

PatchBody(r) ==
    /\ At(r, "patchBody")
    /\ Set(Key(r), Call(r).availableTimes, Call(r).overrides)
    /\ Goes(r, IF bodies[Key(r)] = NoBody THEN "failed" ELSE "done")
    /\ UNCHANGED <<rows, links, overlapped>>

-----------------------------------------------------------------------------
(* patchAll reads the bodies of the team and writes those whose field       *)
(* contains the digits of the profile id.                                   *)
PatchAllRead(r) ==
    LET c == Call(r) IN
    /\ At(r, "patchAllRead")
    /\ IF c.availableTimes = Absent /\ c.overrides = Absent
       THEN Goes(r, "done")
       ELSE request' = [request EXCEPT ![r].read = bodies, ![r].step = "patchAllWrite"]
    /\ UNCHANGED Stores

UpdatedBody(c, previous) ==
    [availableTimes |->
        IF c.availableTimes # Absent THEN c.availableTimes ELSE previous.availableTimes,
     overrides |->
        IF c.overrides # Absent THEN c.overrides \cap {"coming"}
        ELSE previous.availableTimes]

(* HSET without fields is an error of Redis.                                *)
PatchAllWrite(r) ==
    LET read == request[r].read
        fields == {k \in Containing[Call(r).profile] : read[k] # NoBody}
    IN
    /\ At(r, "patchAllWrite")
    /\ bodies' = [k \in Keys |->
          IF k \in fields THEN UpdatedBody(Call(r), read[k]) ELSE bodies[k]]
    /\ Goes(r, IF fields # {} /\ \A k \in fields : bodies[k] # NoBody
               THEN "done" ELSE "failed")
    /\ UNCHANGED <<rows, links, overlapped>>

-----------------------------------------------------------------------------
(* event_profile.availabilityId refers to an availability row: a statement *)
(* that would leave it without one is an error and ends its transaction.    *)
Relinked(chosen, i) == [l \in LinkIds |-> IF l \in chosen THEN i ELSE links[l]]
ReferenceHolds(chosen, i) == chosen = {} \/ IsRow(i)
LinkedTo(i) == {l \in LinkIds : links[l] = i}

(* Faulty: the query does not say whose default.                            *)
FindAnyDefault(r, next) ==
    \E p \in Profiles : \E i \in Defaults(p) :
        request' = [request EXCEPT ![r].fallback = i, ![r].step = next]

(* findOneByOrFail of the member's default.                                 *)
FindDefault(r, next) ==
    IF Defaults(Call(r).profile) = {}
    THEN Goes(r, "failed")
    ELSE \E i \in Defaults(Call(r).profile) :
            request' = [request EXCEPT ![r].fallback = i, ![r].step = next]

(* Faulty: the default is not refused.                                      *)
RemoveFindAny(r) ==
    LET i == Call(r).id
        own == IsRow(i) /\ rows[i].profile = Call(r).profile
    IN
    /\ At(r, "removeFind")
    /\ request' = [request EXCEPT
            ![r].loaded = IF own THEN rows[i] ELSE NoRow,
            ![r].step = "removeDefault"]
    /\ UNCHANGED Stores

(* remove refuses the default, if it is one when it is read.                *)
RemoveFind(r) ==
    LET i == Call(r).id
        own == IsRow(i) /\ rows[i].profile = Call(r).profile
    IN
    /\ At(r, "removeFind")
    /\ IF own /\ rows[i].default
       THEN Goes(r, "failed")
       ELSE request' = [request EXCEPT
                ![r].loaded = IF own THEN rows[i] ELSE NoRow,
                ![r].step = "removeDefault"]
    /\ UNCHANGED Stores

(* Faulty: the body is deleted before the row.                              *)
RemoveDefaultAndBody(r) ==
    /\ At(r, "removeDefault")
    /\ FindDefault(r, "removeRow")
    /\ bodies' = [bodies EXCEPT ![Key(r)] = NoBody]
    /\ UNCHANGED <<rows, links, overlapped>>

RemoveDefault(r) ==
    /\ At(r, "removeDefault")
    /\ FindDefault(r, "removeRow")
    /\ UNCHANGED Stores

(* The transaction re-links and deletes.  The body is only deleted when     *)
(* there was something to re-link.                                          *)
RemoveRow(r) ==
    LET i == Call(r).id
        linked == LinkedTo(i)
    IN
    /\ At(r, "removeRow")
    /\ IF linked = {} \/ (request[r].fallback # i /\ IsRow(request[r].fallback))
       THEN /\ links' = Relinked(linked, request[r].fallback)
            /\ rows' = [rows EXCEPT ![i] = IF IsRow(i) THEN Gone ELSE @]
            /\ Goes(r, IF request[r].loaded # NoRow /\ linked # {} /\ IsRow(i)
                       THEN "removeBody" ELSE "done")
       ELSE /\ Goes(r, "failed")
            /\ UNCHANGED <<rows, links, overlapped>>
    /\ UNCHANGED <<bodies, overlapped>>

RemoveBody(r) ==
    /\ At(r, "removeBody")
    /\ bodies' = [bodies EXCEPT ![Key(r)] = NoBody]
    /\ Goes(r, "done")
    /\ UNCHANGED <<rows, links, overlapped>>

-----------------------------------------------------------------------------
(* clone copies the row with its owner and reads the body under the         *)
(* requester's field.                                                       *)
CloneFind(r) ==
    /\ At(r, "cloneFind")
    /\ IF IsRow(Call(r).id)
       THEN request' = [request EXCEPT
                ![r].loaded = rows[Call(r).id], ![r].step = "cloneRow"]
       ELSE Goes(r, "failed")
    /\ UNCHANGED Stores

CloneRow(r) ==
    /\ At(r, "cloneRow")
    /\ Insert(r, [request[r].loaded EXCEPT !.default = FALSE], "cloneRead")
    /\ UNCHANGED <<links, bodies, overlapped>>

CloneRead(r) ==
    /\ At(r, "cloneRead")
    /\ IF bodies[Key(r)] = NoBody
       THEN Goes(r, "failed")
       ELSE request' = [request EXCEPT ![r].read = bodies, ![r].step = "cloneBody"]
    /\ UNCHANGED Stores

CloneBody(r) ==
    LET source == request[r].read[Key(r)] IN
    /\ At(r, "cloneBody")
    /\ Saves(r, <<Call(r).profile, request[r].new>>,
             source.availableTimes, source.overrides)
    /\ UNCHANGED <<rows, links, overlapped>>

-----------------------------------------------------------------------------
(* linkToEvents.  The search for the events linked so far ignores the       *)
(* availability and yields all events of the team; those the request does   *)
(* not name are taken for ids of event_profile rows and get the default.    *)
LinkEventsDefault(r) ==
    /\ At(r, "linkEventsDefault")
    /\ FindDefault(r, "linkEventsRow")
    /\ UNCHANGED Stores

LinkEventsRow(r) ==
    LET c == Call(r)
        fallback == request[r].fallback
        exclusive == IF c.id = fallback THEN {} ELSE LinkIds \cap (EventIds \ c.events)
        chosen == {l \in LinkIds : LinkEvent[l] \in c.events /\ LinkProfile[l] = c.profile}
    IN
    /\ At(r, "linkEventsRow")
    /\ IF ReferenceHolds(exclusive, fallback) /\ ReferenceHolds(chosen, c.id)
       THEN /\ links' = [l \in LinkIds |->
                  IF l \in chosen THEN c.id ELSE Relinked(exclusive, fallback)[l]]
            /\ Goes(r, "done")
       ELSE /\ Goes(r, "failed")
            /\ UNCHANGED links
    /\ UNCHANGED <<rows, bodies, overlapped>>

(* EventsService.linkToAvailability: one event of the member.               *)
LinkEventRow(r) ==
    LET c == Call(r)
        chosen == {l \in LinkIds : LinkEvent[l] \in c.events /\ LinkProfile[l] = c.profile}
    IN
    /\ At(r, "linkEventRow")
    /\ IF ReferenceHolds(chosen, c.id)
       THEN links' = Relinked(chosen, c.id) /\ Goes(r, "done")
       ELSE UNCHANGED links /\ Goes(r, "failed")
    /\ UNCHANGED <<rows, bodies, overlapped>>

(* unlinkToEvents gives the default to whatever uses the availability.      *)
UnlinkDefault(r) ==
    /\ At(r, "unlinkDefault")
    /\ \/ FindDefault(r, "unlinkRow") /\ request'[r].fallback # Call(r).id
       \/ Call(r).id \in Defaults(Call(r).profile) /\ Goes(r, "failed")
    /\ UNCHANGED Stores

UnlinkRow(r) ==
    LET linked == LinkedTo(Call(r).id) IN
    /\ At(r, "unlinkRow")
    /\ IF ReferenceHolds(linked, request[r].fallback)
       THEN links' = Relinked(linked, request[r].fallback) /\ Goes(r, "done")
       ELSE UNCHANGED links /\ Goes(r, "failed")
    /\ UNCHANGED <<rows, bodies, overlapped>>

-----------------------------------------------------------------------------
Serve(r) ==
    \/ CreateRow(r) \/ CreateBody(r)
    \/ UpdateFind(r) \/ UpdateRow(r) \/ UpdateBody(r)
    \/ PatchFind(r) \/ PatchRow(r) \/ PatchBody(r)
    \/ PatchAllRead(r) \/ PatchAllWrite(r)
    \/ RemoveFind(r) \/ RemoveDefault(r) \/ RemoveRow(r) \/ RemoveBody(r)
    \/ CloneFind(r) \/ CloneRow(r) \/ CloneRead(r) \/ CloneBody(r)
    \/ LinkEventsDefault(r) \/ LinkEventsRow(r) \/ LinkEventRow(r)
    \/ UnlinkDefault(r) \/ UnlinkRow(r)

Next == \E r \in Requests : Receive(r) \/ Serve(r) \/ Fail(r)

Spec == Init /\ [][Next]_vars

-----------------------------------------------------------------------------
(* What holds at every point of a handler, and the proofs rest on: it serves *)
(* a call with such steps, has read what the step uses, and the rows it has  *)
(* made, deleted or read have not become anybody else's.                     *)
StepsOf ==
    [create |-> {"createRow", "createBody"},
     update |-> {"updateFind", "updateRow", "updateBody"},
     patch |-> {"patchFind", "patchRow", "patchBody"},
     patchAll |-> {"patchAllRead", "patchAllWrite"},
     remove |-> {"removeFind", "removeDefault", "removeRow", "removeBody"},
     clone |-> {"cloneFind", "cloneRow", "cloneRead", "cloneBody"},
     linkEvents |-> {"linkEventsDefault", "linkEventsRow"},
     linkEvent |-> {"linkEventRow"},
     unlink |-> {"unlinkDefault", "unlinkRow"}]

HandlerInv(r) ==
    LET local == request[r] IN
    /\ r \in InFlight => Call(r) \in Calls /\ local.step \in StepsOf[Call(r).op]
    /\ local.step \in {"patchRow", "cloneRow"} => local.loaded \in RowType
    /\ local.step \in {"removeRow", "linkEventsRow", "unlinkRow"} =>
          /\ local.fallback \in Ids /\ rows[local.fallback] # Unused
          /\ IsRow(local.fallback) => rows[local.fallback].profile = Call(r).profile
    /\ At(r, "patchBody") => PatchesBody(Call(r))
    /\ At(r, "cloneBody") => local.read[Key(r)] # NoBody
    /\ At(r, "removeBody") => rows[Call(r).id] = Gone
    /\ local.new # NoId =>
          local.step \in {"createBody", "cloneRead", "cloneBody", "done", "failed"}
HandlersInv == \A r \in Requests : HandlerInv(r)

(* The availabilities given at the start stay with their owners.            *)
GivenInv ==
    \A i \in Ids : GivenRows[i] \in RowType =>
        /\ rows[i] # Unused
        /\ IsRow(i) => rows[i].profile = GivenRows[i].profile

-----------------------------------------------------------------------------
(* Safety                                                                   *)

(* So far every request was about an availability its member was given,     *)
(* and none was a PUT, which sets the flag of one row without regard to the *)
(* others, or a linking of several events, which takes the ids of events    *)
(* for those of event_profile rows.                                         *)
Own(c) ==
    /\ c.op \notin {"update", "linkEvents"}
    /\ c.op \notin {"create", "patchAll"} =>
          GivenRows[c.id] \in RowType /\ GivenRows[c.id].profile = c.profile
Disciplined == \A r \in Requests : Call(r) # NoCall => Own(Call(r))

(* However such requests interleave, no member gets two defaults: the       *)
(* transaction of patch takes the flag from every other row of the member   *)
(* before it sets one.                                                      *)
AtMostOneDefault == Disciplined => \A p \in Profiles : \A i, j \in Defaults(p) : i = j

(* And the event_profile rows of a member use an availability that exists   *)
(* and is his, also when it is removed under a request that links it.       *)
LinksOwn ==
    Disciplined => \A l \in LinkIds :
        IsRow(links[l]) /\ rows[links[l]].profile = LinkProfile[l]

(* A row without a body makes every search of its owner fail.  The only way *)
(* to such a row is a create or clone that is not done with it, or a clone  *)
(* made for somebody else's row.                                            *)
BodiesAccounted ==
    \A i \in Ids : IsRow(i) /\ bodies[<<rows[i].profile, i>>] = NoBody =>
        \E r \in Requests :
            /\ request[r].new = i
            /\ request[r].step # "done" \/ Call(r).profile # rows[i].profile

(* A body that an owner's row has had is never taken away while the row is  *)
(* there, by no request whatever.                                           *)
BodiesStay ==
    [][\A i \in Ids :
          /\ IsRow(i) /\ IsRow(i)'
          /\ bodies[<<rows[i].profile, i>>] # NoBody
          => bodies'[<<rows[i].profile, i>>] # NoBody]_vars

(* While they are served one at a time, what the request at work has read   *)
(* is still so, and every member has a default.                             *)
ReadInv(r) ==
    /\ At(r, "patchRow") =>
          /\ IsRow(Call(r).id) /\ request[r].loaded = rows[Call(r).id]
          /\ ~ (request[r].loaded.default /\ Call(r).default = FALSE)
    /\ At(r, "removeDefault") \/ At(r, "removeRow") =>
          ~ (IsRow(Call(r).id) /\ rows[Call(r).id].default)
    /\ At(r, "removeRow") \/ At(r, "unlinkRow") =>
          request[r].fallback \in Defaults(Call(r).profile)
Alone == \A q, r \in InFlight : q = r
EachDefault == \A p \in Profiles : Defaults(p) # {}
SerialInv ==
    ~ overlapped /\ Disciplined => Alone /\ EachDefault /\ \A r \in Requests : ReadInv(r)

(* Requests served one at a time keep the book of availabilities: until two *)
(* overlap, each step of the service is a step of the book.                 *)
Book == INSTANCE AvailabilityBook WITH
    Nobody <- NoId,
    owner <- [i \in Ids |-> IF IsRow(i) THEN rows[i].profile ELSE NoId],
    default <- [p \in Profiles |->
        IF Defaults(p) = {} THEN NoId ELSE CHOOSE i \in Ids : i \in Defaults(p)],
    used <- links

SerialKeepsBook ==
    [][~ overlapped' /\ Disciplined' =>
          Book!HasDefaults' /\ Book!UsesOwn' /\ (Book!Next \/ UNCHANGED Book!vars)]_vars

-----------------------------------------------------------------------------
(* "Default availabilty should exist.  So this variable is not optional     *)
(* type", says EventsService.                                               *)
DefaultExists == Disciplined => \A p \in Profiles : Defaults(p) # {}
=============================================================================
