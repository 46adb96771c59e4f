----------------------------- MODULE EventLinks -----------------------------
(***************************************************************************)
(* The event types of one team and their public links: EventsService,       *)
(* EventDetailsService and EventsRedisRepository.                           *)
(*                                                                         *)
(* An event is a row in MySQL (its detail row comes and goes with it), a    *)
(* member of the team's set of links in Redis, and three keys in Redis that *)
(* hold the body of its detail.  No handler locks anything: each asks Redis *)
(* whether the link is in use, and writes the row, the set and the keys in  *)
(* an order of its own, so that the requests of several members interleave  *)
(* and a failure leaves what was written before it.                         *)
(*                                                                         *)
(* MySQL is taken to accept two rows with one link; the set in Redis is     *)
(* what the code relies on.                                                 *)
(***************************************************************************)
EXTENDS Integers, Sequences, FiniteSets

CONSTANTS
    Ids,             \* event ids, counted up; a detail has its event's id
    Links,
    Numbers,         \* what generateUniqueNumber may return
    WithNumber,      \* Links \X Numbers -> Links: the link with "-number"
    NewEventType,    \* the link "new-event-type"
    NoLink,          \* the request names no link
    Unused, Gone,    \* an id not yet assigned, one of a deleted row
    NoId, NoCall,
    Given,           \* Ids -> Links or Unused: the events made earlier
    Requests, Calls

Parts == {"hostQuestions", "notificationInfo", "eventSetting"}

CallType ==
    [op : {"create", "clone", "patch", "update", "remove", "details"},
     id : Ids \cup {NoId},
     link : Links \cup {NoLink},
     parts : SUBSET Parts]

ASSUME EventLinksAssumption ==
    /\ Ids \subseteq Nat /\ IsFiniteSet(Ids)
    /\ WithNumber \in [Links \X Numbers -> Links]
    /\ NewEventType \in Links
    /\ \A n \in Numbers : WithNumber[NewEventType, n] # NewEventType
    /\ NoLink \notin Links /\ NoId \notin Ids
    /\ Unused \notin Links /\ Gone \notin Links /\ Unused # Gone
    /\ Given \in [Ids -> Links \cup {Unused}]
    /\ \A i, j \in Ids : Given[i] = Given[j] /\ Given[i] # Unused => i = j
    /\ Calls \subseteq CallType /\ NoCall \notin CallType
    /\ \A c \in Calls :
          /\ c.id = NoId <=> c.op = "create"
          /\ c.op = "update" => c.link # NoLink

VARIABLES
    rows,      \* MySQL: the link of each event
    used,      \* Redis: the team's set of links
    bodies,    \* Redis: the keys of each event detail
    request,   \* the local state of the handler of each request
    (* observed only by the properties *)
    suspect,   \* links that a race, a failure or a repeated number touched
    torn       \* events that overlapping requests or a failure touched

vars == <<rows, used, bodies, request, suspect, torn>>

-----------------------------------------------------------------------------
(* What each handler still has to do after it has found its event, in the   *)
(* order of the code.  A key of the body is set ("hostQuestions", ...) or    *)
(* deleted ("dropQuestions", "dropNotification"); an event's setting is     *)
(* never deleted.                                                           *)
CreateSteps ==
    <<"choose", "insert", "reserve", "hostQuestions", "notificationInfo", "eventSetting">>

(* Faulty: the body of a clone is forgotten.                                *)
CloneStepsUnsaved == <<"reread", "insert", "reserve">>

CloneSteps ==
    <<"reread", "insert", "hostQuestions", "notificationInfo", "eventSetting", "reserve">>
PatchSteps == <<"check", "release", "reserve", "write">>
UpdateSteps ==
    <<"check", "write", "hostQuestions", "notificationInfo", "eventSetting",
      "release", "reserve">>

(* Faulty: the link of a removed event is not released.                     *)
RemoveStepsForget == <<"delete", "dropQuestions", "dropNotification">>

RemoveSteps == <<"delete", "dropQuestions", "dropNotification", "release">>
DetailsSteps == <<"writeDetail", "writeBody">>

Steps ==
    {"choose", "insert", "reserve", "reread", "check", "release", "write", "delete",
     "dropQuestions", "dropNotification", "writeDetail", "writeBody"} \cup Parts
StepsOf ==
    [create |-> CreateSteps, clone |-> CloneSteps, patch |-> PatchSteps,
     update |-> UpdateSteps, remove |-> RemoveSteps, details |-> DetailsSteps]

(* patch leaves the set of links alone unless it is given another link.     *)
StepsFor(call, found) ==
    IF call.op = "patch" /\ call.link \in {NoLink, found}
    THEN <<"write">> ELSE StepsOf[call.op]

RequestType ==
    [call : Calls \cup {NoCall},
     todo : Seq(Steps),
     id : Ids \cup {NoId},            \* the event it writes
     old : Links \cup {NoLink},       \* the link it has found
     link : Links \cup {NoLink},      \* the link it sets
     wrote : BOOLEAN,                 \* observed: it has written something,
     alone : BOOLEAN,                 \*   no other wrote its event meanwhile,
     raced : SUBSET Links]            \*   links others reserved meanwhile

TypeOK ==
    /\ rows \in [Ids -> Links \cup {Unused, Gone}]
    /\ used \subseteq Links
    /\ bodies \in [Ids -> SUBSET Parts]
    /\ request \in [Requests -> RequestType]
    /\ suspect \subseteq Links
    /\ torn \subseteq Ids

IsRow(i) == rows[i] \in Links
HasLink(l) == {i \in Ids : rows[i] = l}
InFlight == {r \in Requests : request[r].todo # <<>>}

(* The links whose reservation a request changes.                           *)
LinksOf(q) ==
    ({q.link} \cup IF q.call.op \in {"clone", "details"} THEN {} ELSE {q.old}) \ {NoLink}

(* Before it is asked, and once it has answered, nothing is known of it.     *)
Idle(call) ==
    [call |-> call, todo |-> <<>>, id |-> NoId, old |-> NoLink,
     link |-> NoLink, wrote |-> FALSE, alone |-> TRUE, raced |-> {}]

Init ==
    /\ rows = Given
    /\ used = {Given[i] : i \in {j \in Ids : Given[j] # Unused}}
    /\ bodies = [i \in Ids |-> IF Given[i] = Unused THEN {} ELSE Parts]
    /\ request = [r \in Requests |-> Idle(NoCall)]
    /\ suspect = {}
    /\ torn = {}

-----------------------------------------------------------------------------
Doing(r, step) == request[r].todo # <<>> /\ Head(request[r].todo) = step

(* A request whose handler ends after overlapping with another on the same  *)
(* event casts doubt on what it has written, as does one that breaks off.   *)
Doubts(q) ==
    /\ suspect' = suspect \cup LinksOf(q)
    /\ torn' = torn \cup ({q.id} \ {NoId})
NoDoubt == UNCHANGED <<suspect, torn>>

(* The handler has done a step that leaves it with local state q.           *)
IsLast(q) == Tail(q.todo) = <<>>
After(q) == IF IsLast(q) THEN Idle(q.call) ELSE [q EXCEPT !.todo = Tail(@)]
Advance(r, q) ==
    /\ request' = [request EXCEPT ![r] = After(q)]
    /\ IF IsLast(q) /\ ~q.alone THEN Doubts(q) ELSE NoDoubt

Wrote(r) == [request[r] EXCEPT !.wrote = TRUE]

(* The handler refuses, or throws without having written.                   *)
Refuse(r) ==
    /\ request' = [request EXCEPT ![r] = Idle(@.call)]
    /\ NoDoubt
    /\ UNCHANGED <<rows, used, bodies>>

(* Each handler first loads the event and its detail, for its team's        *)
(* members only; create looks for the member's default availability.        *)
Receive(r, call) ==
    LET others == {s \in InFlight : request[s].id = call.id /\ call.op # "clone"}
        found == IF call.id = NoId THEN NoLink ELSE rows[call.id] IN
    /\ request[r].call = NoCall
    /\ call.op # "create" => IsRow(call.id)
    /\ request' = [s \in Requests |->
          IF s = r
          THEN [call |-> call, todo |-> StepsFor(call, found),
                id |-> IF call.op = "clone" THEN NoId ELSE call.id,
                old |-> found, link |-> call.link, wrote |-> FALSE,
                alone |-> others \ {r} = {} \/ call.id = NoId, raced |-> {}]
          ELSE IF s \in others /\ call.id # NoId
               THEN [request[s] EXCEPT !.alone = FALSE] ELSE request[s]]
    /\ NoDoubt
    /\ UNCHANGED <<rows, used, bodies>>

(* create: "new-event-type", or with a number if that is in use; the link   *)
(* with the number is not looked up.                                        *)
ChooseLink(r) ==
    /\ Doing(r, "choose")
    /\ \E n \in Numbers :
          Advance(r, [request[r] EXCEPT !.link =
              IF NewEventType \in used
              THEN WithNumber[NewEventType, n] ELSE NewEventType])
    /\ UNCHANGED <<rows, used, bodies>>

(* create, clone: the row with its detail.  A clone has the link it found,  *)
(* with a number, which is not looked up either.                            *)
LinkOfClone(r, n) == WithNumber[request[r].old, n]
InsertRow(r) ==
    /\ Doing(r, "insert")
    /\ \E i \in Ids, n \in Numbers :
          LET link == IF request[r].call.op = "create"
                      THEN request[r].link ELSE LinkOfClone(r, n) IN
          /\ rows[i] = Unused /\ \A j \in Ids : j < i => rows[j] # Unused
          /\ rows' = [rows EXCEPT ![i] = link]
          /\ Advance(r, [Wrote(r) EXCEPT !.id = i, !.link = link])
    /\ UNCHANGED <<used, bodies>>

(* clone loads the event again; if it is gone by now, findOneOrFail throws. *)
RereadForClone(r) ==
    /\ Doing(r, "reread")
    /\ IF IsRow(request[r].call.id)
       THEN Advance(r, request[r]) /\ UNCHANGED <<rows, used, bodies>>
       ELSE Refuse(r)

(* Faulty: the look-up is left out.                                         *)
TakenNever(r) == FALSE

Taken(r) ==
    request[r].link \in used /\ request[r].link # request[r].old
(* patch and update refuse a link that is in use, unless update keeps it.   *)
CheckLink(r) ==
    /\ Doing(r, "check")
    /\ IF Taken(r)
       THEN Refuse(r)
       ELSE Advance(r, request[r]) /\ UNCHANGED <<rows, used, bodies>>

(* Faulty: a link that is not given is written all the same.                *)
NewLinkAlways(r) == request[r].link

(* patch and update: the row if it is still there, and no error if it is    *)
(* not: update compares the number of rows written, 0, with false, and goes *)
(* on to the body and the links of a removed event, unless the foreign key  *)
(* of the members it names refuses them.  A link that patch is not given    *)
(* stays.                                                                   *)
NewLink(r) ==
    LET q == request[r] IN IF q.link = NoLink THEN rows[q.id] ELSE q.link
WriteRow(r) ==
    /\ Doing(r, "write")
    /\ \/ /\ IsRow(request[r].id)
          /\ rows' = [rows EXCEPT ![request[r].id] = NewLink(r)]
          /\ Advance(r, Wrote(r))
          /\ UNCHANGED <<used, bodies>>
       \/ /\ ~IsRow(request[r].id)
          /\ Advance(r, IF request[r].call.op = "patch" THEN request[r] ELSE Wrote(r))
          /\ UNCHANGED <<rows, used, bodies>>
       \/ /\ ~IsRow(request[r].id)
          /\ request[r].call.op = "update"
          /\ Refuse(r)

(* remove: the rows of the event and its detail, or an error if either is   *)
(* gone by now.                                                             *)
DeleteRow(r) ==
    /\ Doing(r, "delete")
    /\ IF IsRow(request[r].id)
       THEN /\ rows' = [rows EXCEPT ![request[r].id] = Gone]
            /\ Advance(r, Wrote(r))
            /\ UNCHANGED <<used, bodies>>
       ELSE Refuse(r)

(* SREM: the link that was found, whoever has it now.                       *)
ReleaseLink(r) ==
    /\ Doing(r, "release")
    /\ used' = used \ {request[r].old}
    /\ Advance(r, Wrote(r))
    /\ UNCHANGED <<rows, bodies>>

(* SADD, whose answer (was the link there already?) nobody reads.  It is a  *)
(* link to suspect if another request reserved it meanwhile, or if it has   *)
(* a number that was not looked up.                                         *)
NotLookedUp(q) ==
    \/ q.call.op = "clone"
    \/ q.call.op = "create" /\ q.link # NewEventType
ReserveLink(r) ==
    LET q == Wrote(r)
        l == q.link
        collides == l \in used /\ (l \in q.raced \/ NotLookedUp(q))
        breaks == IsLast(q) /\ ~q.alone IN
    /\ Doing(r, "reserve")
    /\ used' = used \cup {l}
    /\ request' = [s \in Requests |->
          IF s = r THEN After(q)
          ELSE IF s \in InFlight
               THEN [request[s] EXCEPT !.raced = @ \cup {l}] ELSE request[s]]
    /\ suspect' = suspect \cup (IF collides THEN {l} ELSE {})
                          \cup (IF breaks THEN LinksOf(q) ELSE {})
    /\ torn' = torn \cup (IF breaks THEN {q.id} ELSE {})
    /\ UNCHANGED <<rows, bodies>>

(* EventsRedisRepository.save and remove, key by key.                       *)
SetKey(r) ==
    /\ \E part \in Parts :
          /\ Doing(r, part)
          /\ bodies' = [bodies EXCEPT ![request[r].id] = @ \cup {part}]
    /\ Advance(r, Wrote(r))
    /\ UNCHANGED <<rows, used>>

DropKey(r) ==
    /\ \/ /\ Doing(r, "dropQuestions")
          /\ bodies' = [bodies EXCEPT ![request[r].id] = @ \ {"hostQuestions"}]
       \/ /\ Doing(r, "dropNotification")
          /\ bodies' = [bodies EXCEPT ![request[r].id] = @ \ {"notificationInfo"}]
    /\ Advance(r, Wrote(r))
    /\ UNCHANGED <<rows, used>>

(* EventDetailsService.patch: the detail row, of which nothing matters      *)
(* here, and after the answer the keys that were given, in a pipeline that  *)
(* is not awaited; it does not matter to it if the rows are gone.           *)
WriteDetail(r) ==
    /\ Doing(r, "writeDetail")
    /\ Advance(r, request[r])
    /\ UNCHANGED <<rows, used, bodies>>

WriteBody(r) ==
    /\ Doing(r, "writeBody")
    /\ bodies' = [bodies EXCEPT ![request[r].id] = @ \cup request[r].call.parts]
    /\ Advance(r, Wrote(r))
    /\ UNCHANGED <<rows, used>>

(* A store does not answer, or the worker ends: what is written stays.      *)
Fail(r) ==
    /\ r \in InFlight
    /\ request' = [request EXCEPT ![r] = Idle(@.call)]
    /\ IF request[r].wrote THEN Doubts(request[r]) ELSE NoDoubt
    /\ UNCHANGED <<rows, used, bodies>>

Next ==
    \E r \in Requests :
        \/ \E call \in Calls : Receive(r, call)
        \/ ChooseLink(r)
        \/ InsertRow(r)
        \/ RereadForClone(r)
        \/ CheckLink(r)
        \/ WriteRow(r)
        \/ DeleteRow(r)
        \/ ReleaseLink(r)
        \/ ReserveLink(r)
        \/ SetKey(r)
        \/ DropKey(r)
        \/ WriteDetail(r)
        \/ WriteBody(r)
        \/ Fail(r)

Spec == Init /\ [][Next]_vars

-----------------------------------------------------------------------------
(* What the proofs rest on.  A handler goes through the steps of its call;  *)
(* if it is alone on its event, the row is as it has found or written it.   *)
Step(q) == IF q.todo = <<>> THEN "none" ELSE Head(q.todo)
Makes(q) == q.call.op \in {"create", "clone"}

Rests ==
    [create |-> {CreateSteps,
                 <<"insert", "reserve", "hostQuestions", "notificationInfo", "eventSetting">>,
                 <<"reserve", "hostQuestions", "notificationInfo", "eventSetting">>,
                 <<"hostQuestions", "notificationInfo", "eventSetting">>,
                 <<"notificationInfo", "eventSetting">>, <<"eventSetting">>},
     clone |-> {CloneSteps,
                <<"insert", "hostQuestions", "notificationInfo", "eventSetting", "reserve">>,
                <<"hostQuestions", "notificationInfo", "eventSetting", "reserve">>,
                <<"notificationInfo", "eventSetting", "reserve">>,
                <<"eventSetting", "reserve">>, <<"reserve">>},
     patch |-> {PatchSteps, <<"release", "reserve", "write">>, <<"reserve", "write">>,
                <<"write">>},
     update |-> {UpdateSteps,
                 <<"write", "hostQuestions", "notificationInfo", "eventSetting", "release",
                   "reserve">>,
                 <<"hostQuestions", "notificationInfo", "eventSetting", "release", "reserve">>,
                 <<"notificationInfo", "eventSetting", "release", "reserve">>,
                 <<"eventSetting", "release", "reserve">>, <<"release", "reserve">>,
                 <<"reserve">>},
     remove |-> {RemoveSteps, <<"dropQuestions", "dropNotification", "release">>,
                 <<"dropNotification", "release">>, <<"release">>},
     details |-> {DetailsSteps, <<"writeBody">>}]

(* Whether a handler has written something by now: all but the first write. *)
HasWritten(q) ==
    CASE q.call.op \in {"create", "clone"} -> Step(q) \notin {"choose", "reread", "insert"}
      [] q.call.op = "patch" ->
            Step(q) = "reserve" \/ (Step(q) = "write" /\ q.link \notin {NoLink, q.old})
      [] q.call.op = "update" -> Step(q) \notin {"check", "write"}
      [] q.call.op = "remove" -> Step(q) # "delete"
      [] OTHER -> FALSE

(* The row of the event of a handler that is alone on it.                   *)
RowDue(q) ==
    CASE Makes(q) -> q.link
      [] q.call.op = "update" -> IF q.wrote THEN q.link ELSE q.old
      [] q.call.op = "remove" -> IF q.wrote THEN Gone ELSE q.old
      [] OTHER -> q.old

(* A link that was free when the handler looked it up is free, or another   *)
(* has reserved it meanwhile.                                               *)
LookedUp(q) ==
    \/ q.call.op = "patch" /\ Step(q) \in {"release", "reserve"}
    \/ q.call.op = "update" /\ Step(q) # "check" /\ (q.link # q.old \/ Step(q) = "reserve")
    \/ /\ q.call.op = "create" /\ Step(q) \in {"insert", "reserve"}
       /\ q.link = NewEventType

WellFormed(q) ==
    /\ q.call \in Calls /\ q.todo \in Rests[q.call.op]
    /\ q.wrote = HasWritten(q)
    /\ q.call.op # "create" => q.old \in Links
    /\ q.call.op = "create" => q.old = NoLink
    /\ Step(q) \in {"check", "release", "reserve"} /\ q.call.op # "remove" => q.link \in Links
    /\ q.call.op = "update" => q.link \in Links
    /\ q.call.op = "patch" /\ Step(q) # "write" => q.link # q.old
    /\ q.call.op = "create" /\ Step(q) = "insert" => q.link \in Links
    /\ Makes(q) /\ q.wrote => q.link \in Links
HasEvent(q) ==
    IF Makes(q) /\ ~ q.wrote THEN q.id = NoId /\ q.alone
    ELSE q.id \in Ids /\ rows[q.id] # Unused
AloneThere(r) ==
    request[r].alone /\ request[r].id # NoId =>
        /\ rows[request[r].id] = RowDue(request[r])
        /\ \A s \in InFlight \ {r} : request[s].id # request[r].id
LinkFree(q) == LookedUp(q) => q.link \notin used \/ q.link \in q.raced

HandlerInv(r) ==
    r \in InFlight => /\ WellFormed(request[r]) /\ HasEvent(request[r])
                     /\ AloneThere(r) /\ LinkFree(request[r])
HandlersInv == \A r \in Requests : HandlerInv(r)

(* The link an event claims in the set: that of its row, or what the steps  *)
(* of a handler that is alone on it have left.                              *)
Writers(i) == {r \in InFlight : request[r].id = i /\ request[r].wrote}
ClaimOf(q) ==
    CASE q.call.op \in {"patch", "create"} /\ Step(q) # "reserve" -> q.link
      [] q.call.op \in {"update", "remove"} /\ Step(q) # "reserve" -> q.old
      [] OTHER -> NoLink
Claims(i, l) ==
    IF Writers(i) = {} THEN rows[i] = l
    ELSE \E r \in Writers(i) : request[r].alone /\ ClaimOf(request[r]) = l

(* Links whose count is lost, or will be once an overlapping handler ends.  *)
Dirty(l) ==
    \/ l \in suspect
    \/ \E r \in InFlight : /\ ~ request[r].alone /\ request[r].wrote
                          /\ l \in LinksOf(request[r])
LinksInv ==
    /\ \A l \in Links : ~ Dirty(l) =>
          /\ l \in used <=> \E i \in Ids : Claims(i, l)
          /\ \A i, j \in Ids : Claims(i, l) /\ Claims(j, l) => i = j
    /\ \A r \in InFlight : ~ request[r].alone /\ IsRow(request[r].id) =>
          \/ ~ request[r].wrote /\ rows[request[r].id] = request[r].old
          \/ Dirty(rows[request[r].id])

(* The same of the bodies.                                                  *)
Spoiled(i) ==
    i \in torn \/ \E r \in Writers(i) : ~ request[r].alone
BodyOf(q, body) ==
    CASE Makes(q) ->
            /\ Step(q) \in {"notificationInfo", "eventSetting"} => "hostQuestions" \in body
            /\ Step(q) = "eventSetting" => "notificationInfo" \in body
            /\ q.call.op = "clone" /\ Step(q) = "reserve" => body = Parts
      [] q.call.op = "remove" ->
            /\ Step(q) \in {"dropNotification", "release"} => "hostQuestions" \notin body
            /\ Step(q) = "release" => "notificationInfo" \notin body
      [] OTHER -> body = Parts
BodiesInv ==
    \A i \in Ids : ~ Spoiled(i) =>
        IF Writers(i) = {}
        THEN /\ IsRow(i) => bodies[i] = Parts
             /\ ~ IsRow(i) => bodies[i] \subseteq {"eventSetting"}
        ELSE \A r \in Writers(i) : BodyOf(request[r], bodies[i])

-----------------------------------------------------------------------------
(* Links that no request in flight is changing and no mishap has touched.   *)
Settled ==
    (Links \ suspect) \ UNION {LinksOf(request[r]) : r \in InFlight}

(* An invitee's link leads to one event: two events of the team share a     *)
(* link only if the requests that gave it to them raced, one broke off, or  *)
(* a generated number repeated.                                             *)
OneEventPerLink ==
    \A l \in Settled : Cardinality(HasLink(l)) <= 1

(* The set of links follows the rows: a link is reserved if and only if an  *)
(* event has it, so links are neither taken twice nor refused for ever.     *)
FlagsFollowRows ==
    \A l \in Settled : l \in used <=> HasLink(l) # {}

(* The body of every event is complete, and of a removed event nothing but  *)
(* the setting is left, except where requests overlapped or broke off.      *)
BodiesFollowRows ==
    \A i \in Ids \ (torn \cup {request[r].id : r \in InFlight}) :
        /\ IsRow(i) => bodies[i] = Parts
        /\ ~IsRow(i) => bodies[i] \subseteq {"eventSetting"}

=============================================================================
