------------------------- MODULE EventLinks_proofs -------------------------
(***************************************************************************)
(* Theorems about EventLinks, for any team, links, events and requests.     *)
(***************************************************************************)
EXTENDS EventLinks, FiniteSetTheorems, TLAPS

-----------------------------------------------------------------------------
(* The steps of a handler: after s comes n, or "none".                      *)
Follows ==
    [create |-> {<<"choose", "insert">>, <<"insert", "reserve">>,
                 <<"reserve", "hostQuestions">>, <<"hostQuestions",
                 "notificationInfo">>, <<"notificationInfo", "eventSetting">>,
                 <<"eventSetting", "none">>},
     clone |-> {<<"reread", "insert">>, <<"insert", "hostQuestions">>,
                <<"hostQuestions", "notificationInfo">>, <<"notificationInfo",
                "eventSetting">>, <<"eventSetting", "reserve">>, <<"reserve", "none">>},
     patch |-> {<<"check", "release">>, <<"release", "reserve">>,
                <<"reserve", "write">>, <<"write", "none">>},
     update |-> {<<"check", "write">>, <<"write", "hostQuestions">>,
                 <<"hostQuestions", "notificationInfo">>, <<"notificationInfo",
                 "eventSetting">>, <<"eventSetting", "release">>, <<"release",
                 "reserve">>, <<"reserve", "none">>},
     remove |-> {<<"delete", "dropQuestions">>, <<"dropQuestions",
                 "dropNotification">>, <<"dropNotification", "release">>, <<"release",
                 "none">>},
     details |-> {<<"writeDetail", "writeBody">>, <<"writeBody", "none">>}]
NextStep(t) == IF t = <<>> THEN "none" ELSE Head(t)
Going(op, t) ==
    /\ t # <<>> /\ t \in Seq(Steps)
    /\ Tail(t) = <<>> \/ Tail(t) \in Rests[op]
    /\ <<Head(t), NextStep(Tail(t))>> \in Follows[op]

LEMMA CreateGoing == \A t \in Rests["create"] : Going("create", t)
<1> USE DEF Rests, Going, NextStep, Follows, CreateSteps, Steps, Parts
<1>1. Going("create", <<"choose", "insert", "reserve", "hostQuestions", "notificationInfo",
                "eventSetting">>)
  OBVIOUS
<1>2. Going("create", <<"insert", "reserve", "hostQuestions", "notificationInfo",
                "eventSetting">>)
  OBVIOUS
<1>3. Going("create", <<"reserve", "hostQuestions", "notificationInfo", "eventSetting">>)
  OBVIOUS
<1>4. Going("create", <<"hostQuestions", "notificationInfo", "eventSetting">>)
  OBVIOUS
<1>5. Going("create", <<"notificationInfo", "eventSetting">>)
  OBVIOUS
<1>6. Going("create", <<"eventSetting">>)
  OBVIOUS
<1> HIDE DEF Going
<1> QED  BY <1>1, <1>2, <1>3, <1>4, <1>5, <1>6

LEMMA CloneGoing == \A t \in Rests["clone"] : Going("clone", t)
<1> USE DEF Rests, Going, NextStep, Follows, CloneSteps, Steps, Parts
<1>1. Going("clone", <<"reread", "insert", "hostQuestions", "notificationInfo",
                "eventSetting", "reserve">>)
  OBVIOUS
<1>2. Going("clone", <<"insert", "hostQuestions", "notificationInfo", "eventSetting",
                "reserve">>)
  OBVIOUS
<1>3. Going("clone", <<"hostQuestions", "notificationInfo", "eventSetting", "reserve">>)
  OBVIOUS
<1>4. Going("clone", <<"notificationInfo", "eventSetting", "reserve">>)
  OBVIOUS
<1>5. Going("clone", <<"eventSetting", "reserve">>)
  OBVIOUS
<1>6. Going("clone", <<"reserve">>)
  OBVIOUS
<1> HIDE DEF Going
<1> QED  BY <1>1, <1>2, <1>3, <1>4, <1>5, <1>6

LEMMA PatchGoing == \A t \in Rests["patch"] : Going("patch", t)
<1> USE DEF Rests, Going, NextStep, Follows, PatchSteps, Steps, Parts
<1>1. Going("patch", <<"check", "release", "reserve", "write">>)
  OBVIOUS
<1>2. Going("patch", <<"release", "reserve", "write">>)
  OBVIOUS
<1>3. Going("patch", <<"reserve", "write">>)
  OBVIOUS
<1>4. Going("patch", <<"write">>)
  OBVIOUS
<1> HIDE DEF Going
<1> QED  BY <1>1, <1>2, <1>3, <1>4

LEMMA UpdateGoing == \A t \in Rests["update"] : Going("update", t)
<1> USE DEF Rests, Going, NextStep, Follows, UpdateSteps, Steps, Parts
<1>1. Going("update", <<"check", "write", "hostQuestions", "notificationInfo", "eventSetting",
                "release", "reserve">>)
  OBVIOUS
<1>2. Going("update", <<"write", "hostQuestions", "notificationInfo", "eventSetting",
                "release", "reserve">>)
  OBVIOUS
<1>3. Going("update", <<"hostQuestions", "notificationInfo", "eventSetting", "release",
                "reserve">>)
  OBVIOUS
<1>4. Going("update", <<"notificationInfo", "eventSetting", "release", "reserve">>)
  OBVIOUS
<1>5. Going("update", <<"eventSetting", "release", "reserve">>)
  OBVIOUS
<1>6. Going("update", <<"release", "reserve">>)
  OBVIOUS
<1>7. Going("update", <<"reserve">>)
  OBVIOUS
<1> HIDE DEF Going
<1> QED  BY <1>1, <1>2, <1>3, <1>4, <1>5, <1>6, <1>7

LEMMA RemoveGoing == \A t \in Rests["remove"] : Going("remove", t)
<1> USE DEF Rests, Going, NextStep, Follows, RemoveSteps, Steps, Parts
<1>1. Going("remove", <<"delete", "dropQuestions", "dropNotification", "release">>)
  OBVIOUS
<1>2. Going("remove", <<"dropQuestions", "dropNotification", "release">>)
  OBVIOUS
<1>3. Going("remove", <<"dropNotification", "release">>)
  OBVIOUS
<1>4. Going("remove", <<"release">>)
  OBVIOUS
<1> HIDE DEF Going
<1> QED  BY <1>1, <1>2, <1>3, <1>4

LEMMA DetailsGoing == \A t \in Rests["details"] : Going("details", t)
<1> USE DEF Rests, Going, NextStep, Follows, DetailsSteps, Steps, Parts
<1>1. Going("details", <<"writeDetail", "writeBody">>)
  OBVIOUS
<1>2. Going("details", <<"writeBody">>)
  OBVIOUS
<1> HIDE DEF Going
<1> QED  BY <1>1, <1>2

-----------------------------------------------------------------------------
(* What a step of Next does, in terms of the steps of the handlers.          *)
Ops == {"create", "clone", "patch", "update", "remove", "details"}
CoreInv == TypeOK /\ HandlersInv

LEMMA Table ==
    ASSUME NEW op \in Ops, NEW s, NEW n, <<s, n>> \in Follows[op]
    PROVE  /\ s = "choose" => op = "create" /\ n = "insert"
           /\ s = "reread" => op = "clone" /\ n = "insert"
           /\ s = "insert" => \/ op = "create" /\ n = "reserve"
                              \/ op = "clone" /\ n = "hostQuestions"
           /\ s = "check" => \/ op = "patch" /\ n = "release"
                             \/ op = "update" /\ n = "write"
           /\ s = "write" => \/ op = "patch" /\ n = "none"
                             \/ op = "update" /\ n = "hostQuestions"
           /\ s = "release" => \/ op = "patch" /\ n = "reserve"
                               \/ op = "update" /\ n = "reserve"
                               \/ op = "remove" /\ n = "none"
           /\ s = "reserve" => \/ op = "create" /\ n = "hostQuestions"
                               \/ op = "clone" /\ n = "none"
                               \/ op = "patch" /\ n = "write"
                               \/ op = "update" /\ n = "none"
           /\ s = "delete" => op = "remove" /\ n = "dropQuestions"
           /\ s = "dropQuestions" => op = "remove" /\ n = "dropNotification"
           /\ s = "dropNotification" => op = "remove" /\ n = "release"
           /\ s = "writeDetail" => op = "details" /\ n = "writeBody"
           /\ s = "writeBody" => op = "details" /\ n = "none"
           /\ s = "hostQuestions" =>
                 op \in {"create", "clone", "update"} /\ n = "notificationInfo"
           /\ s = "notificationInfo" =>
                 op \in {"create", "clone", "update"} /\ n = "eventSetting"
           /\ s = "eventSetting" => \/ op = "create" /\ n = "none"
                                    \/ op = "clone" /\ n = "reserve"
                                    \/ op = "update" /\ n = "release"
           /\ s # "none"
<1>1. CASE op = "create"  BY <1>1 DEF Follows
<1>2. CASE op = "clone"  BY <1>2 DEF Follows
<1>3. CASE op = "patch"  BY <1>3 DEF Follows
<1>4. CASE op = "update"  BY <1>4 DEF Follows
<1>5. CASE op = "remove"  BY <1>5 DEF Follows
<1>6. CASE op = "details"  BY <1>6 DEF Follows
<1> QED  BY <1>1, <1>2, <1>3, <1>4, <1>5, <1>6 DEF Ops

LEMMA AllGoing == \A op \in Ops : \A t \in Rests[op] : Going(op, t)
BY CreateGoing, CloneGoing, PatchGoing, UpdateGoing, RemoveGoing, DetailsGoing DEF Ops

LEMMA CallOps == \A c \in Calls : c \in CallType /\ c.op \in Ops
BY EventLinksAssumption DEF CallType, Ops

(* A handler in flight, and what it has ahead.                              *)
LEMMA Flying ==
    ASSUME CoreInv, NEW r \in InFlight
    PROVE  /\ r \in Requests /\ request[r] \in RequestType
           /\ request[r].call \in Calls /\ request[r].call \in CallType
           /\ request[r].call.op \in Ops
           /\ request[r].todo # <<>> /\ request[r].todo \in Rests[request[r].call.op]
           /\ Going(request[r].call.op, request[r].todo)
           /\ Step(request[r]) = Head(request[r].todo)
           /\ HandlerInv(r)
<1>1. r \in Requests /\ HandlerInv(r) /\ request[r] \in RequestType /\ request[r].todo # <<>>
  BY DEF CoreInv, HandlersInv, InFlight, TypeOK
<1>2. request[r].call \in Calls /\ request[r].todo \in Rests[request[r].call.op]
  BY <1>1 DEF HandlerInv, WellFormed
<1> QED  BY <1>1, <1>2, AllGoing, CallOps DEF Step

(* Every other handler is where it was.                                     *)
Kept(s) ==
    /\ request'[s].call = request[s].call /\ request'[s].todo = request[s].todo
    /\ request'[s].id = request[s].id /\ request'[s].old = request[s].old
    /\ request'[s].link = request[s].link /\ request'[s].wrote = request[s].wrote
    /\ request'[s].alone = request[s].alone /\ request[s].raced \subseteq request'[s].raced
Marking ==
    /\ suspect \subseteq suspect' /\ torn \subseteq torn'
    /\ suspect' \subseteq Links /\ torn' \subseteq Ids
OthersKept(r) == \A s \in Requests \ {r} : Kept(s)

(* r has done a step, and has the next one ahead or has answered.           *)
Goes(r, id, link, wrote) ==
    LET q == request[r]
        p == request'[r] IN
    /\ <<Step(q), Step(p)>> \in Follows[q.call.op]
    /\ p.todo # <<>> =>
          /\ p.call = q.call /\ p.todo \in Rests[q.call.op]
          /\ p.id = id /\ p.old = q.old /\ p.link = link /\ p.wrote = wrote
          /\ p.alone = q.alone /\ p.raced = q.raced
    /\ p.todo = <<>> =>
          /\ p = Idle(q.call)
          /\ ~ q.alone => LinksOf(q) \subseteq suspect' /\ {q.id} \ {NoId} \subseteq torn'
Moving(r, id, link, wrote) ==
    /\ r \in InFlight /\ Goes(r, id, link, wrote) /\ OthersKept(r) /\ Marking
    /\ request' \in [Requests -> RequestType]

LEMMA LinksOfLinks == \A q \in RequestType : LinksOf(q) \subseteq Links
BY DEF LinksOf, RequestType

LEMMA IdleType == \A c \in Calls \cup {NoCall} : Idle(c) \in RequestType
BY DEF Idle, RequestType

Now(r, id, link, wrote) ==
    [request[r] EXCEPT !.id = id, !.link = link, !.wrote = wrote]

LEMMA AdvanceMoves ==
    ASSUME CoreInv, NEW r \in InFlight, NEW id \in Ids \cup {NoId},
           NEW link \in Links \cup {NoLink}, NEW wrote \in BOOLEAN, NEW q,
           Advance(r, q), q = Now(r, id, link, wrote),
           Tail(request[r].todo) = <<>> => id = request[r].id /\ link = request[r].link
    PROVE  Moving(r, id, link, wrote)
<1> DEFINE o == request[r]
<1>1. /\ r \in Requests /\ o \in RequestType /\ o.call \in Calls /\ o.call.op \in Ops
      /\ Going(o.call.op, o.todo) /\ Step(o) = Head(o.todo)
  BY Flying
<1>2. /\ Tail(o.todo) = <<>> \/ Tail(o.todo) \in Rests[o.call.op]
      /\ o.todo # <<>> /\ o.todo \in Seq(Steps)
      /\ <<Step(o), NextStep(Tail(o.todo))>> \in Follows[o.call.op]
  BY <1>1 DEF Going
<1>3. /\ q.call = o.call /\ q.todo = o.todo /\ q.id = id /\ q.old = o.old /\ q.link = link
      /\ q.wrote = wrote /\ q.alone = o.alone /\ q.raced = o.raced /\ q \in RequestType
  BY <1>1 DEF RequestType, Now
<1>4. Tail(o.todo) \in Seq(Steps)
  BY <1>2
<1>5. request' = [request EXCEPT ![r] = After(q)]
  BY DEF Advance
<1>6. request'[r] = After(q) /\ \A s \in Requests \ {r} : request'[s] = request[s]
  BY <1>5, <1>1 DEF CoreInv, TypeOK
<1>7. OthersKept(r)
  BY <1>6 DEF OthersKept, Kept
<1>8. CASE Tail(o.todo) = <<>>
  <2>1. IsLast(q) /\ request'[r] = Idle(o.call) /\ request'[r].todo = <<>>
    BY <1>3, <1>6, <1>8 DEF IsLast, After, Idle
  <2>2. LinksOf(q) = LinksOf(o)
    BY <1>3, <1>8 DEF LinksOf
  <2>3. ~ o.alone => suspect' = suspect \cup LinksOf(o) /\ torn' = torn \cup ({o.id} \ {NoId})
    BY <2>1, <2>2, <1>3, <1>8 DEF Advance, Doubts
  <2>4. o.alone => UNCHANGED <<suspect, torn>>
    BY <2>1, <1>3 DEF Advance, NoDoubt
  <2>5. Marking
    <3>1. suspect \subseteq Links /\ torn \subseteq Ids
      BY DEF CoreInv, TypeOK
    <3>2. LinksOf(o) \subseteq Links /\ {o.id} \ {NoId} \subseteq Ids
      BY <1>1, LinksOfLinks DEF RequestType
    <3> QED  BY <2>3, <2>4, <3>1, <3>2 DEF Marking
  <2>6. Step(request'[r]) = NextStep(Tail(o.todo))
    BY <2>1, <1>8 DEF Step, NextStep
  <2>7. request' \in [Requests -> RequestType]
    BY <1>5, <2>1, <1>6, <1>1, IdleType DEF CoreInv, TypeOK
  <2> HIDE DEF o
  <2>8. Goes(r, id, link, wrote)
    BY <2>1, <2>3, <2>6, <1>2 DEF Goes, o
  <2> QED  BY <2>8, <2>5, <2>7, <1>7 DEF Moving
<1>9. CASE Tail(o.todo) # <<>>
  <2>1. ~ IsLast(q) /\ request'[r] = [q EXCEPT !.todo = Tail(q.todo)]
    BY <1>3, <1>6, <1>9 DEF IsLast, After
  <2>2. /\ request'[r].call = o.call /\ request'[r].todo = Tail(o.todo)
        /\ request'[r].id = id /\ request'[r].old = o.old /\ request'[r].link = link
        /\ request'[r].wrote = wrote /\ request'[r].alone = o.alone
        /\ request'[r].raced = o.raced /\ request'[r] \in RequestType
    BY <2>1, <1>3, <1>4 DEF RequestType
  <2>3. Marking
    BY <2>1 DEF Advance, NoDoubt, Marking, CoreInv, TypeOK
  <2>6. Step(request'[r]) = NextStep(Tail(o.todo))
    BY <2>2, <1>9 DEF Step, NextStep
  <2>7. request' \in [Requests -> RequestType]
    BY <1>5, <2>2, <1>6, <1>1 DEF CoreInv, TypeOK
  <2> HIDE DEF o
  <2>8. Goes(r, id, link, wrote)
    BY <2>2, <2>6, <1>2, <1>9 DEF Goes, o
  <2> QED  BY <2>8, <2>3, <2>7, <1>7 DEF Moving
<1> QED  BY <1>8, <1>9
-----------------------------------------------------------------------------
(* The steps, by what they change.                                          *)
Stores == <<rows, used, bodies>>
Ended(r) ==
    /\ r \in InFlight /\ request'[r] = Idle(request[r].call) /\ OthersKept(r)
    /\ Marking /\ request' \in [Requests -> RequestType]
Refusing(r) == Ended(r) /\ ~ request[r].wrote /\ UNCHANGED Stores
Breaking(r) ==
    /\ Ended(r) /\ request[r].wrote /\ UNCHANGED Stores
    /\ LinksOf(request[r]) \subseteq suspect' /\ {request[r].id} \ {NoId} \subseteq torn'
MovingOn(r, wrote) == Moving(r, request[r].id, request[r].link, wrote)
Passing(r) ==
    /\ MovingOn(r, request[r].wrote) /\ UNCHANGED Stores
    /\ \/ Step(request[r]) = "check" /\ ~ Taken(r)
       \/ Step(request[r]) \in {"reread", "writeDetail"}
       \/ Step(request[r]) = "write" /\ request[r].call.op = "patch" /\ ~ IsRow(request[r].id)
Skipping(r) ==
    /\ Step(request[r]) = "write" /\ request[r].call.op = "update"
    /\ ~ IsRow(request[r].id) /\ MovingOn(r, TRUE) /\ UNCHANGED Stores
Choosing(r, l) ==
    /\ Step(request[r]) = "choose" /\ l \in Links
    /\ l = NewEventType => NewEventType \notin used
    /\ Moving(r, request[r].id, l, request[r].wrote) /\ UNCHANGED Stores
Inserting(r, i, l) ==
    /\ Step(request[r]) = "insert" /\ i \in Ids /\ l \in Links /\ rows[i] = Unused
    /\ request[r].call.op = "create" => l = request[r].link
    /\ Moving(r, i, l, TRUE) /\ rows' = [rows EXCEPT ![i] = l] /\ UNCHANGED <<used, bodies>>
Writing(r) ==
    /\ Step(request[r]) = "write" /\ IsRow(request[r].id) /\ MovingOn(r, TRUE)
    /\ rows' = [rows EXCEPT ![request[r].id] = NewLink(r)] /\ UNCHANGED <<used, bodies>>
Deleting(r) ==
    /\ Step(request[r]) = "delete" /\ IsRow(request[r].id) /\ MovingOn(r, TRUE)
    /\ rows' = [rows EXCEPT ![request[r].id] = Gone] /\ UNCHANGED <<used, bodies>>
Releasing(r) ==
    /\ Step(request[r]) = "release" /\ MovingOn(r, TRUE)
    /\ used' = used \ {request[r].old} /\ UNCHANGED <<rows, bodies>>
Reserving(r) ==
    /\ Step(request[r]) = "reserve" /\ MovingOn(r, TRUE)
    /\ request[r].link \in Links /\ used' = used \cup {request[r].link}
    /\ request[r].link \in used /\ (request[r].link \in request[r].raced
          \/ NotLookedUp(request[r])) => request[r].link \in suspect'
    /\ \A s \in InFlight \ {r} : request[r].link \in request'[s].raced
    /\ UNCHANGED <<rows, bodies>>
Filled(q, body) ==
    IF Step(q) \in Parts THEN body \cup {Step(q)}
    ELSE IF Step(q) = "dropQuestions" THEN body \ {"hostQuestions"}
    ELSE IF Step(q) = "dropNotification" THEN body \ {"notificationInfo"}
    ELSE body \cup q.call.parts
Filling(r) ==
    /\ Step(request[r]) \in Parts \cup {"dropQuestions", "dropNotification", "writeBody"}
    /\ MovingOn(r, TRUE) /\ UNCHANGED <<rows, used>>
    /\ bodies' = [bodies EXCEPT ![request[r].id] = Filled(request[r], @)]
Working(r) ==
    \/ Refusing(r) \/ Breaking(r) \/ Passing(r) \/ Skipping(r)
    \/ \E l \in Links : Choosing(r, l)
    \/ \E i \in Ids, l \in Links : Inserting(r, i, l)
    \/ Writing(r) \/ Deleting(r) \/ Releasing(r) \/ Reserving(r) \/ Filling(r)

LEMMA DoingStep ==
    ASSUME CoreInv, NEW r \in Requests, NEW step, Doing(r, step)
    PROVE  r \in InFlight /\ Step(request[r]) = step
BY DEF Doing, InFlight, Step

LEMMA RefuseWorks ==
    ASSUME CoreInv, NEW r \in InFlight, Refuse(r), ~ request[r].wrote
    PROVE  Refusing(r)
<1>1. r \in Requests /\ request[r].call \in Calls
  BY Flying
<1>2. /\ request' = [request EXCEPT ![r] = Idle(request[r].call)] /\ UNCHANGED Stores
      /\ UNCHANGED <<suspect, torn>>
  BY DEF Refuse, NoDoubt, Stores
<1>3. /\ request'[r] = Idle(request[r].call)
      /\ \A s \in Requests \ {r} : request'[s] = request[s]
      /\ request' \in [Requests -> RequestType]
  BY <1>1, <1>2, IdleType DEF CoreInv, TypeOK
<1>4. Marking
  BY <1>2 DEF Marking, CoreInv, TypeOK
<1> QED  BY <1>2, <1>3, <1>4 DEF Refusing, Ended, OthersKept, Kept

LEMMA FailWorks ==
    ASSUME CoreInv, NEW r \in Requests, Fail(r)
    PROVE  Refusing(r) \/ Breaking(r)
<1>1. r \in InFlight
  BY DEF Fail
<1>2. request[r] \in RequestType /\ request[r].call \in Calls
  BY <1>1, Flying
<1>3. request' = [request EXCEPT ![r] = Idle(request[r].call)] /\ UNCHANGED Stores
  BY DEF Fail, Stores
<1>4. /\ request'[r] = Idle(request[r].call)
      /\ \A s \in Requests \ {r} : request'[s] = request[s]
      /\ request' \in [Requests -> RequestType]
  BY <1>2, <1>3, IdleType DEF CoreInv, TypeOK
<1>5. Marking
  <2>1. LinksOf(request[r]) \subseteq Links /\ {request[r].id} \ {NoId} \subseteq Ids
    BY <1>2, LinksOfLinks DEF RequestType
  <2>2. suspect \subseteq Links /\ torn \subseteq Ids
    BY DEF CoreInv, TypeOK
  <2> QED  BY <2>1, <2>2 DEF Fail, Doubts, NoDoubt, Marking
<1>6. Ended(r)
  BY <1>1, <1>4, <1>5 DEF Ended, OthersKept, Kept
<1>7. CASE request[r].wrote
  BY <1>3, <1>6, <1>7 DEF Breaking, Fail, Doubts
<1>8. CASE ~ request[r].wrote
  BY <1>3, <1>6, <1>8 DEF Refusing
<1> QED  BY <1>7, <1>8

(* A step that leaves the local state as it is, but for wrote.              *)
LEMMA WroteMoves ==
    ASSUME CoreInv, NEW r \in InFlight
    PROVE  /\ Advance(r, request[r]) => MovingOn(r, request[r].wrote)
           /\ Advance(r, Wrote(r)) => MovingOn(r, TRUE)
<1> DEFINE o == request[r]
<1>1. o \in RequestType
  BY Flying
<1>2. o = Now(r, o.id, o.link, o.wrote) /\ Wrote(r) = Now(r, o.id, o.link, TRUE)
  BY <1>1 DEF RequestType, Now, Wrote
<1>3. o.id \in Ids \cup {NoId} /\ o.link \in Links \cup {NoLink} /\ o.wrote \in BOOLEAN
  BY <1>1 DEF RequestType
<1>4. Tail(request[r].todo) = <<>> => o.id = request[r].id /\ o.link = request[r].link
  OBVIOUS
<1>5. /\ MovingOn(r, request[r].wrote) <=> Moving(r, o.id, o.link, o.wrote)
      /\ MovingOn(r, TRUE) <=> Moving(r, o.id, o.link, TRUE)
      /\ Advance(r, request[r]) <=> Advance(r, o)
  BY DEF MovingOn
<1> HIDE DEF o
<1>6. Advance(r, o) => Moving(r, o.id, o.link, o.wrote)
  BY <1>2, <1>3, <1>4, AdvanceMoves
<1>7. Advance(r, Wrote(r)) => Moving(r, o.id, o.link, TRUE)
  BY <1>2, <1>3, <1>4, AdvanceMoves
<1> QED  BY <1>5, <1>6, <1>7

(* What the invariant of the handlers says at each step.                    *)
LEMMA AtStep ==
    ASSUME CoreInv, NEW r \in InFlight
    PROVE  LET q == request[r]
               s == Step(q) IN
           /\ s \in {"choose", "reread", "insert", "check", "delete", "writeDetail",
                     "writeBody"} => ~ q.wrote
           /\ s = "write" /\ q.call.op = "update" => ~ q.wrote
           /\ s = "insert" => /\ q.call.op = "create" => q.link \in Links
                              /\ q.call.op = "clone" => q.old \in Links
           /\ s = "reserve" => q.link \in Links
           /\ s \notin {"choose", "reread", "insert"} => q.id \in Ids /\ rows[q.id] # Unused
<1> DEFINE q == request[r]
<1>1. /\ q.call.op \in Ops /\ HandlerInv(r) /\ q \in RequestType
      /\ <<Step(q), NextStep(Tail(q.todo))>> \in Follows[q.call.op]
  BY Flying DEF Going
<1>2. /\ q.wrote = HasWritten(q)
      /\ Step(q) \in {"check", "release", "reserve"} /\ q.call.op # "remove" =>
              q.link \in Links
      /\ q.call.op = "create" /\ Step(q) = "insert" => q.link \in Links
      /\ q.call.op # "create" => q.old \in Links
      /\ IF Makes(q) /\ ~ q.wrote THEN q.id = NoId /\ q.alone
           ELSE q.id \in Ids /\ rows[q.id] # Unused
  BY <1>1 DEF HandlerInv, WellFormed, HasEvent
<1> HIDE DEF q
<1>3. Step(q) = "reserve" => q.call.op # "remove"
  BY <1>1, Table
<1>4. Step(q) \in {"choose", "reread", "insert"} => Makes(q)
  BY <1>1, Table DEF Makes
<1>5. Step(q) \notin {"choose", "reread", "insert"} => ~ (Makes(q) /\ ~ q.wrote)
  BY <1>2 DEF Makes, HasWritten
<1>6. Step(q) \in {"choose", "reread", "insert", "check", "delete", "writeDetail",
                     "writeBody"} => ~ q.wrote
  <2>1. CASE Step(q) \in {"choose", "reread", "insert"}
    BY <2>1, <1>2, <1>4 DEF HasWritten, Makes
  <2>2. CASE Step(q) = "check"
    <3>1. q.call.op \in {"patch", "update"}
      BY <2>2, <1>1, Table
    <3> QED  BY <2>2, <3>1, <1>2 DEF HasWritten
  <2>3. CASE Step(q) = "delete"
    <3>1. q.call.op = "remove"
      BY <2>3, <1>1, Table
    <3> QED  BY <2>3, <3>1, <1>2 DEF HasWritten
  <2>4. CASE Step(q) \in {"writeDetail", "writeBody"}
    <3>1. q.call.op = "details"
      BY <2>4, <1>1, Table
    <3> QED  BY <3>1, <1>2 DEF HasWritten
  <2> QED  BY <2>1, <2>2, <2>3, <2>4
<1>7. Step(q) = "write" /\ q.call.op = "update" => ~ q.wrote
  BY <1>2 DEF HasWritten
<1>8. Step(q) \notin {"choose", "reread", "insert"} => q.id \in Ids /\ rows[q.id] # Unused
  BY <1>2, <1>5
<1> QED  BY <1>2, <1>3, <1>6, <1>7, <1>8 DEF q

LEMMA NextWorks ==
    ASSUME CoreInv, NEW r \in Requests, Next
    PROVE  \E s \in Requests : (\E call \in Calls : Receive(s, call)) \/ Working(s)
<1> SUFFICES ASSUME NEW s \in Requests
             PROVE  \/ ChooseLink(s) \/ InsertRow(s) \/ RereadForClone(s) \/ CheckLink(s)
                    \/ WriteRow(s) \/ DeleteRow(s) \/ ReleaseLink(s) \/ ReserveLink(s)
                    \/ SetKey(s) \/ DropKey(s) \/ WriteDetail(s) \/ WriteBody(s) \/ Fail(s)
                    => Working(s)
  BY DEF Next
<1> DEFINE q == request[s]
<1>1. ASSUME ChooseLink(s)  PROVE Working(s)
  <2>1. s \in InFlight /\ Step(q) = "choose" /\ UNCHANGED Stores
    BY <1>1, DoingStep DEF ChooseLink, Stores
  <2>2. PICK n \in Numbers : Advance(s, [q EXCEPT !.link =
              IF NewEventType \in used THEN WithNumber[NewEventType, n] ELSE NewEventType])
    BY <1>1 DEF ChooseLink
  <2>3. PICK l : l = IF NewEventType \in used THEN WithNumber[NewEventType, n]
                     ELSE NewEventType
    OBVIOUS
  <2>4. l \in Links /\ (l = NewEventType => NewEventType \notin used)
    BY <2>3, EventLinksAssumption
  <2>5. q \in RequestType /\ q.call.op \in Ops /\ Going(q.call.op, q.todo)
    BY <2>1, Flying
  <2>6. [q EXCEPT !.link = l] = Now(s, q.id, l, q.wrote)
    BY <2>5 DEF Now, RequestType
  <2>7. Tail(q.todo) # <<>>
    BY <2>1, <2>5, Table DEF Going, NextStep, Step
  <2>8. Advance(s, Now(s, q.id, l, q.wrote)) /\ q.id \in Ids \cup {NoId} /\ q.wrote \in BOOLEAN
    BY <2>2, <2>3, <2>5, <2>6 DEF RequestType
  <2> HIDE DEF q
  <2>9. Moving(s, q.id, l, q.wrote)
    BY <2>1, <2>4, <2>7, <2>8, AdvanceMoves DEF q
  <2> QED  BY <2>1, <2>4, <2>9 DEF Working, Choosing, q
<1>2. ASSUME InsertRow(s)  PROVE Working(s)
  <2>1. s \in InFlight /\ Step(q) = "insert" /\ UNCHANGED <<used, bodies>>
    BY <1>2, DoingStep DEF InsertRow
  <2>2. PICK i \in Ids, n \in Numbers :
          LET link == IF q.call.op = "create" THEN q.link ELSE LinkOfClone(s, n) IN
          /\ rows[i] = Unused /\ rows' = [rows EXCEPT ![i] = link]
          /\ Advance(s, [Wrote(s) EXCEPT !.id = i, !.link = link])
    BY <1>2 DEF InsertRow
  <2>3. PICK l : l = IF q.call.op = "create" THEN q.link ELSE LinkOfClone(s, n)
    OBVIOUS
  <2>4. /\ rows[i] = Unused /\ rows' = [rows EXCEPT ![i] = l]
        /\ Advance(s, [Wrote(s) EXCEPT !.id = i, !.link = l])
    BY <2>2, <2>3
  <2>5. q \in RequestType /\ q.call.op \in Ops /\ Going(q.call.op, q.todo)
    BY <2>1, Flying
  <2>6. q.call.op \in {"create", "clone"} /\ Tail(q.todo) # <<>>
    BY <2>1, <2>5, Table DEF Going, NextStep, Step
  <2>7. l \in Links /\ (q.call.op = "create" => l = q.link)
    BY <2>1, <2>3, <2>6, AtStep, EventLinksAssumption DEF LinkOfClone
  <2>8. [Wrote(s) EXCEPT !.id = i, !.link = l] = Now(s, i, l, TRUE)
    BY <2>5 DEF Now, Wrote, RequestType
  <2>9. Advance(s, Now(s, i, l, TRUE))
    BY <2>4, <2>8
  <2> HIDE DEF q
  <2>10. Moving(s, i, l, TRUE)
    BY <2>1, <2>6, <2>7, <2>9, AdvanceMoves DEF q
  <2>11. Inserting(s, i, l)
    BY <2>1, <2>4, <2>7, <2>10 DEF Inserting, q
  <2> QED  BY <2>7, <2>11 DEF Working
<1>3. ASSUME RereadForClone(s)  PROVE Working(s)
  <2>1. s \in InFlight /\ Step(q) = "reread"
    BY <1>3, DoingStep DEF RereadForClone
  <2>2. CASE IsRow(q.call.id)
    BY <2>1, <2>2, <1>3, WroteMoves DEF RereadForClone, Working, Passing, Stores
  <2>3. CASE ~ IsRow(q.call.id)
    BY <2>1, <2>3, <1>3, RefuseWorks, AtStep DEF RereadForClone, Working
  <2> QED  BY <2>2, <2>3
<1>4. ASSUME CheckLink(s)  PROVE Working(s)
  <2>1. s \in InFlight /\ Step(q) = "check"
    BY <1>4, DoingStep DEF CheckLink
  <2>2. CASE Taken(s)
    BY <2>1, <2>2, <1>4, RefuseWorks, AtStep DEF CheckLink, Working
  <2>3. CASE ~ Taken(s)
    BY <2>1, <2>3, <1>4, WroteMoves DEF CheckLink, Working, Passing, Stores
  <2> QED  BY <2>2, <2>3
<1>5. ASSUME WriteRow(s)  PROVE Working(s)
  <2>1. s \in InFlight /\ Step(q) = "write"
    BY <1>5, DoingStep DEF WriteRow
  <2>2. CASE /\ IsRow(q.id) /\ rows' = [rows EXCEPT ![q.id] = NewLink(s)]
             /\ Advance(s, Wrote(s)) /\ UNCHANGED <<used, bodies>>
    BY <2>1, <2>2, WroteMoves DEF Working, Writing
  <2>3. CASE /\ ~ IsRow(q.id) /\ UNCHANGED <<rows, used, bodies>>
             /\ Advance(s, IF q.call.op = "patch" THEN q ELSE Wrote(s))
    <3>1. CASE q.call.op = "patch"
      BY <2>1, <2>3, <3>1, WroteMoves DEF Working, Passing, Stores
    <3>2. CASE q.call.op # "patch"
      <4>1. q.call.op \in Ops /\ Going(q.call.op, q.todo)
        BY <2>1, Flying
      <4>2. q.call.op = "update"
        BY <2>1, <3>2, <4>1, Table DEF Going, Step
      <4> QED  BY <2>1, <2>3, <3>2, <4>2, WroteMoves DEF Working, Skipping, Stores
    <3> QED  BY <3>1, <3>2
  <2>4. CASE ~ IsRow(q.id) /\ q.call.op = "update" /\ Refuse(s)
    BY <2>1, <2>4, RefuseWorks, AtStep DEF Working
  <2> QED  BY <1>5, <2>2, <2>3, <2>4 DEF WriteRow
<1>6. ASSUME DeleteRow(s)  PROVE Working(s)
  <2>1. s \in InFlight /\ Step(q) = "delete"
    BY <1>6, DoingStep DEF DeleteRow
  <2>2. CASE IsRow(q.id)
    BY <2>1, <2>2, <1>6, WroteMoves DEF DeleteRow, Working, Deleting
  <2>3. CASE ~ IsRow(q.id)
    BY <2>1, <2>3, <1>6, RefuseWorks, AtStep DEF DeleteRow, Working
  <2> QED  BY <2>2, <2>3
<1>7. ASSUME ReleaseLink(s)  PROVE Working(s)
  BY <1>7, DoingStep, WroteMoves DEF ReleaseLink, Working, Releasing
<1>9. ASSUME SetKey(s)  PROVE Working(s)
  <2>1. PICK part \in Parts :
          Doing(s, part) /\ bodies' = [bodies EXCEPT ![q.id] = @ \cup {part}]
    BY <1>9 DEF SetKey
  <2>2. s \in InFlight /\ Step(q) = part
    BY <2>1, DoingStep
  <2>3. Filled(q, bodies[q.id]) = bodies[q.id] \cup {part}
    BY <2>2 DEF Filled
  <2>4. Advance(s, Wrote(s)) /\ UNCHANGED <<rows, used>>
    BY <1>9 DEF SetKey
  <2>5. Filling(s)
    BY <2>1, <2>2, <2>3, <2>4, WroteMoves DEF Filling
  <2> QED  BY <2>5 DEF Working
<1>10. ASSUME DropKey(s)  PROVE Working(s)
  <2>1. Advance(s, Wrote(s)) /\ UNCHANGED <<rows, used>>
    BY <1>10 DEF DropKey
  <2>2. CASE /\ Doing(s, "dropQuestions")
             /\ bodies' = [bodies EXCEPT ![q.id] = @ \ {"hostQuestions"}]
    <3>1. s \in InFlight /\ Step(q) = "dropQuestions"
      BY <2>2, DoingStep
    <3>2. Filled(q, bodies[q.id]) = bodies[q.id] \ {"hostQuestions"}
      BY <3>1 DEF Filled, Parts
    <3>3. Filling(s)
      BY <3>1, <3>2, <2>1, <2>2, WroteMoves DEF Filling
    <3> QED  BY <3>3 DEF Working
  <2>3. CASE /\ Doing(s, "dropNotification")
             /\ bodies' = [bodies EXCEPT ![q.id] = @ \ {"notificationInfo"}]
    <3>1. s \in InFlight /\ Step(q) = "dropNotification"
      BY <2>3, DoingStep
    <3>2. Filled(q, bodies[q.id]) = bodies[q.id] \ {"notificationInfo"}
      BY <3>1 DEF Filled, Parts
    <3>3. Filling(s)
      BY <3>1, <3>2, <2>1, <2>3, WroteMoves DEF Filling
    <3> QED  BY <3>3 DEF Working
  <2> QED  BY <1>10, <2>2, <2>3 DEF DropKey
<1>11. ASSUME WriteDetail(s)  PROVE Working(s)
  BY <1>11, DoingStep, WroteMoves DEF WriteDetail, Working, Passing, Stores
<1>12. ASSUME WriteBody(s)  PROVE Working(s)
  <2>1. s \in InFlight /\ Step(q) = "writeBody"
    BY <1>12, DoingStep DEF WriteBody
  <2>2. Filled(q, bodies[q.id]) = bodies[q.id] \cup q.call.parts
    BY <2>1 DEF Filled, Parts
  <2>3. Filling(s)
    BY <2>1, <2>2, <1>12, WroteMoves DEF Filling, WriteBody
  <2> QED  BY <2>3 DEF Working
<1>13. ASSUME Fail(s)  PROVE Working(s)
  BY <1>13, FailWorks DEF Working
<1>8. ASSUME ReserveLink(s)  PROVE Working(s)
  <2> DEFINE w == Wrote(s)
             l == w.link
             collides == l \in used /\ (l \in w.raced \/ NotLookedUp(w))
             breaks == IsLast(w) /\ ~ w.alone
  <2>1. s \in InFlight /\ Step(q) = "reserve" /\ UNCHANGED <<rows, bodies>>
    BY <1>8, DoingStep DEF ReserveLink
  <2>2. /\ q \in RequestType /\ q.call \in Calls /\ q.call.op \in Ops
        /\ Going(q.call.op, q.todo) /\ Step(q) = Head(q.todo)
    BY <2>1, Flying
  <2>3. q.link \in Links /\ q.id \in Ids
    BY <2>1, AtStep
  <2>4. /\ w.call = q.call /\ w.todo = q.todo /\ w.id = q.id /\ w.old = q.old
        /\ w.link = q.link /\ w.wrote = TRUE /\ w.alone = q.alone /\ w.raced = q.raced
        /\ w \in RequestType
    BY <2>2 DEF Wrote, RequestType
  <2>5. /\ used' = used \cup {l}
        /\ request' = [t \in Requests |->
              IF t = s THEN After(w)
              ELSE IF t \in InFlight
                   THEN [request[t] EXCEPT !.raced = @ \cup {l}] ELSE request[t]]
        /\ suspect' = suspect \cup (IF collides THEN {l} ELSE {})
                              \cup (IF breaks THEN LinksOf(w) ELSE {})
        /\ torn' = torn \cup (IF breaks THEN {w.id} ELSE {})
    BY <1>8 DEF ReserveLink
  <2>6. LinksOf(w) = LinksOf(q) /\ (NotLookedUp(w) <=> NotLookedUp(q))
    BY <2>4 DEF LinksOf, NotLookedUp
  <2>7. /\ Tail(q.todo) = <<>> \/ Tail(q.todo) \in Rests[q.call.op]
        /\ q.todo # <<>> /\ q.todo \in Seq(Steps) /\ Tail(q.todo) \in Seq(Steps)
        /\ <<Step(q), NextStep(Tail(q.todo))>> \in Follows[q.call.op]
    BY <2>2 DEF Going
  <2> HIDE DEF w, q
  <2>8. l = q.link /\ l \in Links
    BY <2>3, <2>4
  <2>9. request'[s] = After(w) /\ \A t \in Requests \ {s} :
            request'[t] = IF t \in InFlight
                   THEN [request[t] EXCEPT !.raced = @ \cup {l}] ELSE request[t]
    BY <2>5
  <2>10. ASSUME NEW t \in Requests \ {s}
         PROVE  /\ Kept(t) /\ request'[t] \in RequestType
                /\ t \in InFlight => l \in request'[t].raced
    <3>1. request[t] \in RequestType
      BY DEF CoreInv, TypeOK
    <3>2. CASE t \in InFlight
      <4>1. request'[t] = [request[t] EXCEPT !.raced = @ \cup {l}]
        BY <2>9, <3>2
      <4> HIDE DEF l
      <4> QED  BY <4>1, <3>1, <2>8 DEF Kept, RequestType
    <3>3. CASE t \notin InFlight
      BY <2>9, <3>1, <3>3 DEF Kept
    <3> QED  BY <3>2, <3>3
  <2>11. Marking
    <3>1. suspect \subseteq Links /\ torn \subseteq Ids
      BY DEF CoreInv, TypeOK
    <3>2. LinksOf(w) \subseteq Links /\ w.id \in Ids
      BY <2>3, <2>4, LinksOfLinks
    <3> QED  BY <2>5, <2>8, <3>1, <3>2 DEF Marking
  <2>12. After(w) \in RequestType
    <3>1. CASE IsLast(w)
      BY <3>1, <2>2, <2>4, IdleType DEF After
    <3>2. CASE ~ IsLast(w)
      <4>1. After(w) = [w EXCEPT !.todo = Tail(q.todo)]
        BY <3>2, <2>4 DEF After
      <4> QED  BY <4>1, <2>4, <2>7 DEF RequestType
    <3> QED  BY <3>1, <3>2
  <2>13. request' \in [Requests -> RequestType]
    <3>1. request' = [t \in Requests |-> request'[t]]
      BY <2>5
    <3>2. \A t \in Requests : request'[t] \in RequestType
      BY <2>9, <2>10, <2>12
    <3> QED  BY <3>1, <3>2
  <2>14. Goes(s, q.id, q.link, TRUE)
    <3>1. CASE Tail(q.todo) = <<>>
      <4>1. IsLast(w) /\ request'[s] = Idle(q.call) /\ request'[s].todo = <<>>
        BY <3>1, <2>4, <2>9 DEF IsLast, After, Idle
      <4>2. Step(request'[s]) = NextStep(Tail(q.todo))
        BY <4>1, <3>1 DEF Step, NextStep
      <4>3. ~ q.alone => breaks
        BY <4>1, <2>4
      <4>4. ~ q.alone => LinksOf(q) \subseteq suspect' /\ {q.id} \ {NoId} \subseteq torn'
        BY <4>3, <2>4, <2>5, <2>6
      <4> QED  BY <4>1, <4>2, <4>4, <2>7 DEF Goes, q
    <3>2. CASE Tail(q.todo) # <<>>
      <4>1. request'[s] = [w EXCEPT !.todo = Tail(q.todo)]
        BY <3>2, <2>4, <2>9 DEF IsLast, After
      <4>2. /\ request'[s].call = q.call /\ request'[s].todo = Tail(q.todo)
            /\ request'[s].id = q.id /\ request'[s].old = q.old
            /\ request'[s].link = q.link /\ request'[s].wrote = TRUE
            /\ request'[s].alone = q.alone /\ request'[s].raced = q.raced
        BY <4>1, <2>4 DEF RequestType
      <4>3. Step(request'[s]) = NextStep(Tail(q.todo))
        BY <4>2, <3>2 DEF Step, NextStep
      <4> QED  BY <4>2, <4>3, <3>2, <2>7 DEF Goes, q
    <3> QED  BY <3>1, <3>2
  <2>15. MovingOn(s, TRUE)
    BY <2>1, <2>10, <2>11, <2>13, <2>14 DEF MovingOn, Moving, OthersKept, q
  <2>16. l \in used /\ (l \in q.raced \/ NotLookedUp(q)) => l \in suspect'
    BY <2>4, <2>5, <2>6
  <2>17. Reserving(s)
    <3>1. used' = used \cup {l} /\ \A t \in InFlight \ {s} : l \in request'[t].raced
      BY <2>5, <2>10 DEF InFlight
    <3> HIDE DEF l
    <3> QED  BY <3>1, <2>1, <2>8, <2>15, <2>16 DEF Reserving, q
  <2> QED  BY <2>17 DEF Working
<1> QED
  BY <1>1, <1>2, <1>3, <1>4, <1>5, <1>6, <1>7, <1>8, <1>9, <1>10, <1>11, <1>12, <1>13

(* A request that is asked, and those it overlaps with.                     *)
Overlaps(s, call) ==
    s \in InFlight /\ request[s].id = call.id /\ call.op # "clone" /\ call.id # NoId
Asked(r, call) ==
    LET p == request'[r]
        found == IF call.id = NoId THEN NoLink ELSE rows[call.id] IN
    /\ r \in Requests /\ r \notin InFlight /\ call \in Calls
    /\ call.op # "create" => call.id \in Ids /\ IsRow(call.id)
    /\ call.op = "create" => call.id = NoId
    /\ p \in RequestType /\ p.call = call /\ p.todo \in Rests[call.op] /\ p.todo # <<>>
    /\ CASE call.op = "create" -> Step(p) = "choose"
         [] call.op = "clone" -> Step(p) = "reread"
         [] call.op = "patch" -> \/ Step(p) = "check" /\ call.link \in Links \ {found}
                                 \/ Step(p) = "write" /\ call.link \in {NoLink, found}
         [] call.op = "update" -> Step(p) = "check"
         [] call.op = "remove" -> Step(p) = "delete"
         [] OTHER -> Step(p) = "writeDetail"
    /\ p.id = (IF call.op = "clone" THEN NoId ELSE call.id)
    /\ p.old = found /\ p.link = call.link /\ ~ p.wrote
    /\ p.alone <=> \A s \in Requests : ~ Overlaps(s, call)
    /\ \A s \in Requests \ {r} :
          /\ request'[s].call = request[s].call /\ request'[s].todo = request[s].todo
          /\ request'[s].id = request[s].id /\ request'[s].old = request[s].old
          /\ request'[s].link = request[s].link /\ request'[s].wrote = request[s].wrote
          /\ request'[s].raced = request[s].raced
          /\ request'[s].alone <=> request[s].alone /\ ~ Overlaps(s, call)
    /\ request' \in [Requests -> RequestType]
    /\ UNCHANGED <<rows, used, bodies, suspect, torn>>

LEMMA FirstSteps ==
    ASSUME NEW call \in CallType, NEW found
    PROVE  LET t == StepsFor(call, found) IN
           /\ t \in Rests[call.op]
           /\ CASE call.op = "create" -> Head(t) = "choose"
                [] call.op = "clone" -> Head(t) = "reread"
                [] call.op = "patch" -> \/ Head(t) = "check" /\ call.link \in Links \ {found}
                                        \/ Head(t) = "write" /\ call.link \in {NoLink, found}
                [] call.op = "update" -> Head(t) = "check"
                [] call.op = "remove" -> Head(t) = "delete"
                [] OTHER -> Head(t) = "writeDetail"
<1>1. CASE call.op = "patch" /\ call.link \in {NoLink, found}
  <2>1. StepsFor(call, found) = <<"write">>
    BY <1>1 DEF StepsFor
  <2> QED  BY <1>1, <2>1 DEF Rests
<1>2. CASE ~ (call.op = "patch" /\ call.link \in {NoLink, found})
  <2>1. StepsFor(call, found) = StepsOf[call.op]
    BY <1>2 DEF StepsFor
  <2>2. CASE call.op = "create"
    BY <2>1, <2>2 DEF StepsOf, CreateSteps, Rests
  <2>3. CASE call.op = "clone"
    BY <2>1, <2>3 DEF StepsOf, CloneSteps, Rests
  <2>4. CASE call.op = "patch"
    <3>1. call.link \in Links \ {found}
      BY <2>4, <1>2 DEF CallType
    <3> QED  BY <3>1, <2>1, <2>4 DEF StepsOf, PatchSteps, Rests
  <2>5. CASE call.op = "update"
    BY <2>1, <2>5 DEF StepsOf, UpdateSteps, Rests
  <2>6. CASE call.op = "remove"
    BY <2>1, <2>6 DEF StepsOf, RemoveSteps, Rests
  <2>7. CASE call.op = "details"
    BY <2>1, <2>7 DEF StepsOf, DetailsSteps, Rests
  <2> QED  BY <2>2, <2>3, <2>4, <2>5, <2>6, <2>7 DEF CallType
<1> QED  BY <1>1, <1>2

LEMMA ReceiveAsks ==
    ASSUME CoreInv, NEW r \in Requests, NEW call \in Calls, Receive(r, call)
    PROVE  Asked(r, call)
<1> DEFINE found == IF call.id = NoId THEN NoLink ELSE rows[call.id]
           others == {s \in InFlight : request[s].id = call.id /\ call.op # "clone"}
           p == request'[r]
           t == StepsFor(call, found)
<1>1. r \notin InFlight
  <2>1. request[r].call = NoCall
    BY DEF Receive
  <2> QED  BY <2>1, Flying, EventLinksAssumption
<1>2. call \in CallType /\ call.op \in Ops /\ (call.id = NoId <=> call.op = "create")
  BY CallOps, EventLinksAssumption
<1>3. call.op # "create" => call.id \in Ids /\ IsRow(call.id)
  BY <1>2 DEF Receive, CallType
<1>4. call.op # "create" => found \in Links
  BY <1>2, <1>3 DEF IsRow
<1>5. request' = [s \in Requests |->
          IF s = r
          THEN [call |-> call, todo |-> t, id |-> IF call.op = "clone" THEN NoId ELSE call.id,
                old |-> found, link |-> call.link, wrote |-> FALSE,
                alone |-> others \ {r} = {} \/ call.id = NoId, raced |-> {}]
          ELSE IF s \in others /\ call.id # NoId
               THEN [request[s] EXCEPT !.alone = FALSE] ELSE request[s]]
  BY DEF Receive
<1>6. t \in Rests[call.op]
  BY <1>2, FirstSteps
<1>7. t # <<>> /\ t \in Seq(Steps)
  BY <1>2, <1>6, AllGoing DEF Going
<1>8. /\ CASE call.op = "create" -> Head(t) = "choose"
           [] call.op = "clone" -> Head(t) = "reread"
           [] call.op = "patch" -> \/ Head(t) = "check" /\ call.link \in Links \ {found}
                                   \/ Head(t) = "write" /\ call.link \in {NoLink, found}
           [] call.op = "update" -> Head(t) = "check"
           [] call.op = "remove" -> Head(t) = "delete"
           [] OTHER -> Head(t) = "writeDetail"
  BY <1>2, FirstSteps
<1>9. \A s \in Requests : Overlaps(s, call) <=> s \in others /\ call.id # NoId
  BY DEF Overlaps
<1>10. found \in Links \cup {NoLink}
  BY <1>2, <1>4
<1>11. /\ p.call = call /\ p.todo = t /\ p.id = (IF call.op = "clone" THEN NoId ELSE call.id)
       /\ p.old = found /\ p.link = call.link /\ p.wrote = FALSE
       /\ p.alone <=> others \ {r} = {} \/ call.id = NoId
       /\ p.raced = {} /\ p \in RequestType
  <2> HIDE DEF t, found, others
  <2>1. p = [call |-> call, todo |-> t, id |-> IF call.op = "clone" THEN NoId ELSE call.id,
                old |-> found, link |-> call.link, wrote |-> FALSE,
                alone |-> others \ {r} = {} \/ call.id = NoId, raced |-> {}]
    BY <1>5
  <2>2. PICK i : i = IF call.op = "clone" THEN NoId ELSE call.id
    OBVIOUS
  <2>3. PICK b \in BOOLEAN : b <=> others \ {r} = {} \/ call.id = NoId
    OBVIOUS
  <2>4. p = [call |-> call, todo |-> t, id |-> i, old |-> found, link |-> call.link,
             wrote |-> FALSE, alone |-> b, raced |-> {}]
    BY <2>1, <2>2, <2>3
  <2>5. i \in Ids \cup {NoId}
    BY <1>2, <2>2 DEF CallType
  <2>6. /\ p.call = call /\ p.todo = t /\ p.id = i /\ p.old = found /\ p.link = call.link
        /\ p.wrote = FALSE /\ p.alone = b /\ p.raced = {}
    BY <2>4
  <2>7. p \in RequestType
    BY <2>4, <2>5, <1>2, <1>7, <1>10 DEF RequestType, CallType
  <2> HIDE DEF p
  <2> QED  BY <2>2, <2>3, <2>6, <2>7
<1>12. Step(p) = Head(t)
  BY <1>7, <1>11 DEF Step
<1>13. p.alone <=> \A s \in Requests : ~ Overlaps(s, call)
  BY <1>1, <1>9, <1>11 DEF InFlight
<1>14. ASSUME NEW s \in Requests \ {r}
       PROVE  /\ request'[s].call = request[s].call /\ request'[s].todo = request[s].todo
              /\ request'[s].id = request[s].id /\ request'[s].old = request[s].old
              /\ request'[s].link = request[s].link /\ request'[s].wrote = request[s].wrote
              /\ request'[s].raced = request[s].raced
              /\ request'[s].alone <=> request[s].alone /\ ~ Overlaps(s, call)
              /\ request'[s] \in RequestType
  <2> HIDE DEF t, found, others
  <2>1. request[s] \in RequestType
    BY DEF CoreInv, TypeOK
  <2>2. request'[s] = IF Overlaps(s, call) THEN [request[s] EXCEPT !.alone = FALSE]
                      ELSE request[s]
    BY <1>5, <1>9
  <2>3. CASE Overlaps(s, call)
    BY <2>1, <2>2, <2>3 DEF RequestType
  <2>4. CASE ~ Overlaps(s, call)
    BY <2>1, <2>2, <2>4
  <2> QED  BY <2>3, <2>4
<1>15. request' \in [Requests -> RequestType]
  <2>1. \A s \in Requests : request'[s] \in RequestType
    BY <1>11, <1>14
  <2>2. request' = [s \in Requests |-> request'[s]]
    BY <1>5
  <2> QED  BY <2>1, <2>2
<1>16. UNCHANGED <<rows, used, bodies, suspect, torn>>
  BY DEF Receive, NoDoubt
<1> HIDE DEF t, others
<1> QED
  BY <1>1, <1>2, <1>3, <1>6, <1>7, <1>8, <1>11, <1>12, <1>13, <1>14, <1>15, <1>16 DEF Asked

-----------------------------------------------------------------------------
(* Type correctness, and the invariant of the handlers.                     *)
LEMMA CoreInit == Init => CoreInv
<1> SUFFICES ASSUME Init PROVE CoreInv
  OBVIOUS
<1>1. InFlight = {}
  BY DEF Init, InFlight, Idle
<1>2. HandlersInv
  BY <1>1 DEF HandlersInv, HandlerInv
<1>3. request \in [Requests -> RequestType]
  BY IdleType DEF Init
<1>4. /\ rows \in [Ids -> Links \cup {Unused, Gone}] /\ used \subseteq Links
      /\ bodies \in [Ids -> SUBSET Parts] /\ suspect \subseteq Links /\ torn \subseteq Ids
  BY EventLinksAssumption DEF Init
<1> QED  BY <1>2, <1>3, <1>4 DEF CoreInv, TypeOK

(* A handler that is kept, its step and what follows from it.               *)
LEMMA KeptSame ==
    ASSUME NEW s, request'[s].call = request[s].call, request'[s].todo = request[s].todo,
           request'[s].id = request[s].id, request'[s].old = request[s].old,
           request'[s].link = request[s].link, request'[s].wrote = request[s].wrote
    PROVE  /\ Step(request'[s]) = Step(request[s])
           /\ Makes(request'[s]) = Makes(request[s])
           /\ WellFormed(request'[s]) = WellFormed(request[s])
           /\ RowDue(request'[s]) = RowDue(request[s])
           /\ LookedUp(request'[s]) = LookedUp(request[s])
           /\ LinksOf(request'[s]) = LinksOf(request[s])
           /\ ClaimOf(request'[s]) = ClaimOf(request[s])
           /\ \A body : BodyOf(request'[s], body) = BodyOf(request[s], body)
<1>1. PICK p : p = request'[s]
  OBVIOUS
<1>2. PICK q : q = request[s]
  OBVIOUS
<1>3. /\ p.call = q.call /\ p.todo = q.todo /\ p.id = q.id /\ p.old = q.old
      /\ p.link = q.link /\ p.wrote = q.wrote
  BY <1>1, <1>2
<1>4. Step(p) = Step(q) /\ Makes(p) = Makes(q)
  BY <1>3 DEF Step, Makes
<1>5. HasWritten(p) = HasWritten(q)
  BY <1>3, <1>4 DEF HasWritten
<1>6. WellFormed(p) = WellFormed(q)
  BY <1>3, <1>4, <1>5 DEF WellFormed
<1>7. RowDue(p) = RowDue(q)
  BY <1>3, <1>4 DEF RowDue
<1>8. LookedUp(p) = LookedUp(q)
  BY <1>3, <1>4 DEF LookedUp
<1>9. LinksOf(p) = LinksOf(q)
  BY <1>3 DEF LinksOf
<1>10. ClaimOf(p) = ClaimOf(q)
  BY <1>3, <1>4 DEF ClaimOf
<1>11. \A body : BodyOf(p, body) = BodyOf(q, body)
  BY <1>3, <1>4 DEF BodyOf
<1> QED
  BY <1>1, <1>2, <1>4, <1>6, <1>7, <1>8, <1>9, <1>10, <1>11

(* What a step by one handler does to the rows and the links, as the others *)
(* see it.                                                                  *)
LEMMA WorkDoes ==
    ASSUME CoreInv, NEW r \in Requests, Working(r)
    PROVE  /\ r \in InFlight /\ OthersKept(r) /\ Marking
           /\ request' \in [Requests -> RequestType]
           /\ rows' \in [Ids -> Links \cup {Unused, Gone}]
           /\ \A i \in Ids : rows'[i] # rows[i] =>
                 rows'[i] # Unused /\ (rows[i] = Unused \/ i = request[r].id)
           /\ used' \subseteq Links /\ bodies' \in [Ids -> SUBSET Parts]
           /\ \A l \in used' \ used : /\ Reserving(r) /\ l = request[r].link
                                      /\ \A s \in InFlight \ {r} : l \in request'[s].raced
           /\ request'[r].todo # <<>> =>
                 \/ request'[r].id = request[r].id
                 \/ request'[r].id \in Ids /\ rows[request'[r].id] = Unused
<1>1. /\ rows \in [Ids -> Links \cup {Unused, Gone}] /\ used \subseteq Links
      /\ bodies \in [Ids -> SUBSET Parts]
  BY DEF CoreInv, TypeOK
<1>2. CASE Refusing(r)
  BY <1>1, <1>2 DEF Refusing, Ended, Stores, Idle
<1>3. CASE Breaking(r)
  BY <1>1, <1>3 DEF Breaking, Ended, Stores, Idle
<1>4. CASE Passing(r)
  BY <1>1, <1>4 DEF Passing, MovingOn, Moving, Goes, Stores
<1>16. CASE Skipping(r)
  BY <1>1, <1>16 DEF Skipping, MovingOn, Moving, Goes, Stores
<1>5. ASSUME NEW l \in Links, Choosing(r, l)
      PROVE  Moving(r, request[r].id, l, request[r].wrote) /\ UNCHANGED Stores
  BY <1>5 DEF Choosing
<1>6. ASSUME NEW l \in Links, Choosing(r, l)
      PROVE  /\ r \in InFlight /\ OthersKept(r) /\ Marking /\ UNCHANGED Stores
             /\ request' \in [Requests -> RequestType]
             /\ request'[r].todo # <<>> => request'[r].id = request[r].id
  BY <1>6 DEF Choosing, Moving, Goes
<1>7. CASE \E l \in Links : Choosing(r, l)
  BY <1>1, <1>6, <1>7 DEF Stores
<1>8. ASSUME NEW i \in Ids, NEW l \in Links, Inserting(r, i, l)
      PROVE  /\ r \in InFlight /\ OthersKept(r) /\ Marking /\ UNCHANGED <<used, bodies>>
             /\ request' \in [Requests -> RequestType]
             /\ request'[r].todo # <<>> => request'[r].id = i
             /\ rows[i] = Unused /\ rows' = [rows EXCEPT ![i] = l]
  BY <1>8 DEF Inserting, Moving, Goes
<1>9. CASE \E i \in Ids, l \in Links : Inserting(r, i, l)
  <2>1. PICK i \in Ids, l \in Links : Inserting(r, i, l)
    BY <1>9
  <2>2. l # Unused
    BY EventLinksAssumption
  <2> QED  BY <1>1, <1>8, <2>1, <2>2
<1>10. ASSUME MovingOn(r, TRUE)
       PROVE  /\ r \in InFlight /\ OthersKept(r) /\ Marking
              /\ request' \in [Requests -> RequestType]
              /\ request'[r].todo # <<>> => request'[r].id = request[r].id
  BY <1>10 DEF MovingOn, Moving, Goes
<1>11. CASE Writing(r)
  <2>1. MovingOn(r, TRUE) /\ UNCHANGED <<used, bodies>>
        /\ rows' = [rows EXCEPT ![request[r].id] = NewLink(r)]
        /\ IsRow(request[r].id) /\ Step(request[r]) = "write"
    BY <1>11 DEF Writing
  <2>2. request[r].id \in Ids /\ request[r] \in RequestType
    BY <1>10, <2>1, AtStep, Flying
  <2>3. NewLink(r) \in Links /\ NewLink(r) # Unused
    BY <2>1, <2>2, EventLinksAssumption DEF NewLink, RequestType, IsRow
  <2> QED  BY <1>1, <1>10, <2>1, <2>2, <2>3
<1>12. CASE Deleting(r)
  <2>1. MovingOn(r, TRUE) /\ UNCHANGED <<used, bodies>>
        /\ rows' = [rows EXCEPT ![request[r].id] = Gone]
    BY <1>12 DEF Deleting
  <2> QED  BY <1>1, <1>10, <2>1, EventLinksAssumption
<1>13. CASE Releasing(r)
  BY <1>1, <1>10, <1>13 DEF Releasing
<1>14. CASE Reserving(r)
  BY <1>1, <1>10, <1>14 DEF Reserving
<1>15. CASE Filling(r)
  <2>1. MovingOn(r, TRUE) /\ UNCHANGED <<rows, used>>
        /\ bodies' = [bodies EXCEPT ![request[r].id] = Filled(request[r], bodies[request[r].id])]
    BY <1>15 DEF Filling
  <2>2. request[r].call.parts \in SUBSET Parts
    BY <1>10, <2>1, Flying DEF CallType
  <2>3. request[r].id \in Ids => Filled(request[r], bodies[request[r].id]) \in SUBSET Parts
    BY <1>1, <2>2 DEF Filled
  <2> QED  BY <1>1, <1>10, <2>1, <2>3
<1> QED
  BY <1>2, <1>3, <1>4, <1>7, <1>9, <1>11, <1>12, <1>13, <1>14, <1>15, <1>16 DEF Working

LEMMA TypeStep ==
    ASSUME CoreInv, NEW r \in Requests, Working(r) \/ \E call \in Calls : Asked(r, call)
    PROVE  TypeOK'
<1>1. CASE Working(r)
  BY <1>1, WorkDoes DEF TypeOK, Marking
<1>2. ASSUME NEW call \in Calls, Asked(r, call)  PROVE TypeOK'
  BY <1>2 DEF Asked, CoreInv, TypeOK
<1> QED  BY <1>1, <1>2

(* The handlers that do not do the step.                                    *)
LEMMA OthersStep ==
    ASSUME CoreInv, NEW r \in Requests, Working(r), NEW s \in Requests \ {r}
    PROVE  HandlerInv(s)'
<1> SUFFICES ASSUME request'[s].todo # <<>>
             PROVE  /\ WellFormed(request'[s]) /\ HasEvent(request[s])'
                    /\ AloneThere(s)' /\ LinkFree(request[s])'
  BY DEF HandlerInv, InFlight
<1> DEFINE q == request[s]
           p == request'[s]
<1>1. /\ r \in InFlight /\ OthersKept(r) /\ Kept(s)
      /\ \A i \in Ids : rows'[i] # rows[i] =>
                 rows'[i] # Unused /\ (rows[i] = Unused \/ i = request[r].id)
      /\ \A l \in used' \ used : /\ l = request[r].link
                                 /\ \A t \in InFlight \ {r} : l \in request'[t].raced
      /\ request'[r].todo # <<>> =>
                 \/ request'[r].id = request[r].id
                 \/ request'[r].id \in Ids /\ rows[request'[r].id] = Unused
  BY WorkDoes DEF OthersKept
<1>2. s \in InFlight
  BY <1>1 DEF Kept, InFlight
<1>3. WellFormed(q) /\ HasEvent(q) /\ AloneThere(s) /\ LinkFree(q)
  BY <1>2 DEF CoreInv, HandlersInv, HandlerInv
<1>4. /\ Step(p) = Step(q) /\ Makes(p) = Makes(q) /\ WellFormed(p) = WellFormed(q)
      /\ RowDue(p) = RowDue(q) /\ LookedUp(p) = LookedUp(q)
  BY <1>1, KeptSame DEF Kept
<1>5. HasEvent(request[s])'
  BY <1>1, <1>3, <1>4 DEF HasEvent, Kept
<1>6. LinkFree(request[s])'
  BY <1>1, <1>2, <1>3, <1>4 DEF LinkFree, Kept
<1>7. AloneThere(s)'
  <2> SUFFICES ASSUME q.alone, q.id # NoId
               PROVE  /\ rows'[q.id] = RowDue(q)
                      /\ \A t \in InFlight' \ {s} : request'[t].id # q.id
    BY <1>1, <1>4 DEF AloneThere, Kept
  <2>1. rows[q.id] = RowDue(q) /\ \A t \in InFlight \ {s} : request[t].id # q.id
    BY <1>3 DEF AloneThere
  <2>2. q.id \in Ids /\ rows[q.id] # Unused
    BY <1>3 DEF HasEvent
  <2>3. request[r].id # q.id
    BY <1>1, <2>1
  <2>4. rows'[q.id] = rows[q.id]
    BY <1>1, <2>2, <2>3
  <2>5. ASSUME NEW t \in InFlight' \ {s}  PROVE request'[t].id # q.id
    <3>1. CASE t = r
      BY <1>1, <2>2, <2>3, <2>5, <3>1 DEF InFlight
    <3>2. CASE t # r
      <4>1. t \in Requests \ {r} /\ Kept(t)
        BY <1>1, <2>5, <3>2 DEF InFlight, OthersKept
      <4>2. t \in InFlight
        BY <4>1, <2>5 DEF InFlight, Kept
      <4> QED  BY <4>1, <4>2, <2>1, <2>5 DEF Kept
    <3> QED  BY <3>1, <3>2
  <2> QED  BY <2>1, <2>4, <2>5
<1> QED  BY <1>3, <1>4, <1>5, <1>6, <1>7

(* The handler that does the step, if it has another ahead.                 *)
LEMMA Ahead ==
    ASSUME CoreInv, NEW r \in InFlight, NEW id, NEW link, NEW wrote,
           Moving(r, id, link, wrote), request'[r].todo # <<>>
    PROVE  /\ <<Step(request[r]), Step(request'[r])>> \in Follows[request[r].call.op]
           /\ Step(request'[r]) # "none"
           /\ request'[r].call = request[r].call
           /\ request'[r].todo \in Rests[request[r].call.op]
           /\ request'[r].id = id /\ request'[r].old = request[r].old
           /\ request'[r].link = link /\ request'[r].wrote = wrote
           /\ request'[r].alone = request[r].alone /\ request'[r].raced = request[r].raced
<1>1. request[r].call.op \in Ops /\ Goes(r, id, link, wrote)
  BY Flying DEF Moving
<1>2. /\ <<Step(request[r]), Step(request'[r])>> \in Follows[request[r].call.op]
      /\ request'[r].todo \in Rests[request[r].call.op]
  BY <1>1 DEF Goes
<1>3. Step(request'[r]) # "none"
  <2>1. Going(request[r].call.op, request'[r].todo)
    BY <1>1, <1>2, AllGoing
  <2>2. <<Head(request'[r].todo), NextStep(Tail(request'[r].todo))>>
            \in Follows[request[r].call.op]
    BY <2>1 DEF Going
  <2>3. Head(request'[r].todo) # "none"
    BY <1>1, <2>2, Table
  <2> QED  BY <2>3 DEF Step
<1> QED  BY <1>1, <1>2, <1>3 DEF Goes

(* Nobody else comes to the event of a handler that is alone there.         *)
LEMMA StaysAlone ==
    ASSUME CoreInv, NEW r \in InFlight, OthersKept(r), request[r].alone
    PROVE  /\ request[r].id # NoId =>
                 \A s \in InFlight' \ {r} : request'[s].id # request[r].id
           /\ \A i \in Ids : rows[i] = Unused =>
                 \A s \in InFlight' \ {r} : request'[s].id # i
<1>1. ASSUME NEW s \in InFlight' \ {r}
      PROVE  s \in InFlight \ {r} /\ request'[s].id = request[s].id
  BY <1>1 DEF OthersKept, Kept, InFlight
<1>2. AloneThere(r)
  BY DEF CoreInv, HandlersInv, HandlerInv, InFlight
<1>3. ASSUME NEW s \in InFlight \ {r}  PROVE HasEvent(request[s])
  BY <1>3 DEF CoreInv, HandlersInv, HandlerInv, InFlight
<1>4. ASSUME request[r].id # NoId, NEW s \in InFlight' \ {r}
      PROVE  request'[s].id # request[r].id
  BY <1>1, <1>2, <1>4 DEF AloneThere
<1>5. ASSUME NEW i \in Ids, rows[i] = Unused, NEW s \in InFlight' \ {r}
      PROVE  request'[s].id # i
  <2>1. request[s].id = NoId \/ rows[request[s].id] # Unused
    BY <1>1, <1>3, <1>5 DEF HasEvent
  <2>2. NoId \notin Ids
    BY EventLinksAssumption
  <2> QED  BY <2>1, <2>2, <1>1, <1>5
<1> QED  BY <1>4, <1>5

LEMMA ActorStep ==
    ASSUME CoreInv, NEW r \in Requests, Working(r)
    PROVE  HandlerInv(r)'
<1> SUFFICES ASSUME request'[r].todo # <<>>
             PROVE  /\ WellFormed(request'[r]) /\ HasEvent(request[r])'
                    /\ AloneThere(r)' /\ LinkFree(request[r])'
  BY DEF HandlerInv, InFlight
<1> DEFINE q == request[r]
           p == request'[r]
           op == q.call.op
<1>1. r \in InFlight /\ OthersKept(r)
  BY WorkDoes
<1>2. /\ op \in Ops /\ q \in RequestType /\ q.call \in Calls
      /\ WellFormed(q) /\ HasEvent(q) /\ AloneThere(r) /\ LinkFree(q)
  BY <1>1, Flying DEF HandlerInv
<1>3. rows \in [Ids -> Links \cup {Unused, Gone}] /\ used \subseteq Links
  BY DEF CoreInv, TypeOK
<1>4. /\ q.alone /\ q.id # NoId => \A s \in InFlight' \ {r} : request'[s].id # q.id
      /\ \A i \in Ids : q.alone /\ rows[i] = Unused =>
              \A s \in InFlight' \ {r} : request'[s].id # i
  BY <1>1, StaysAlone
<1>5. ~ Refusing(r) /\ ~ Breaking(r)
  BY DEF Refusing, Breaking, Ended, Idle
<1>6. CASE Passing(r)
  <2>1. /\ Moving(r, q.id, q.link, q.wrote) /\ rows' = rows /\ used' = used
        /\ \/ Step(q) = "check" /\ ~ Taken(r)
           \/ Step(q) \in {"reread", "writeDetail"}
           \/ Step(q) = "write" /\ op = "patch"
    BY <1>6 DEF Passing, MovingOn, Stores
  <2>2. /\ <<Step(q), Step(p)>> \in Follows[op] /\ Step(p) # "none"
        /\ p.call = q.call /\ p.todo \in Rests[op] /\ p.id = q.id /\ p.old = q.old
        /\ p.link = q.link /\ p.wrote = q.wrote /\ p.alone = q.alone /\ p.raced = q.raced
    BY <1>1, <2>1, Ahead
  <2>3. q.wrote = FALSE
    BY <1>1, <1>2, <2>1, <2>2, AtStep, Table
  <2>4. Taken(r) <=> q.link \in used /\ q.link # q.old
    BY DEF Taken
  <2> HIDE DEF q, p, op
  <2>5. \/ Step(q) = "check" /\ op = "patch" /\ Step(p) = "release"
        \/ Step(q) = "check" /\ op = "update" /\ Step(p) = "write"
        \/ Step(q) = "reread" /\ op = "clone" /\ Step(p) = "insert"
        \/ Step(q) = "writeDetail" /\ op = "details" /\ Step(p) = "writeBody"
    BY <1>2, <2>1, <2>2, Table
  <2>6. p.call.op = op /\ q.call.op = op
    BY <2>2 DEF op
  <2>7. WellFormed(p)
    BY <1>2, <2>2, <2>3, <2>5, <2>6 DEF WellFormed, HasWritten, Makes
  <2>8. Makes(p) = Makes(q) /\ RowDue(p) = RowDue(q)
    BY <2>2, <2>6 DEF Makes, RowDue
  <2>9. HasEvent(request[r])'
    BY <1>2, <2>1, <2>2, <2>8 DEF HasEvent, p
  <2>10. AloneThere(r)'
    BY <1>2, <1>4, <2>1, <2>2, <2>8 DEF AloneThere, p, q
  <2>11. LinkFree(request[r])'
    <3>1. LookedUp(p) => p.link \notin used
      BY <1>2, <2>1, <2>2, <2>4, <2>5, <2>6 DEF LookedUp, WellFormed
    <3> QED  BY <3>1, <2>1 DEF LinkFree, p
  <2> QED  BY <2>7, <2>9, <2>10, <2>11 DEF p
<1>7. ASSUME NEW l \in Links, Choosing(r, l)
      PROVE  /\ WellFormed(request'[r]) /\ HasEvent(request[r])'
             /\ AloneThere(r)' /\ LinkFree(request[r])'
  <2>1. /\ Moving(r, q.id, l, q.wrote) /\ rows' = rows /\ used' = used
        /\ Step(q) = "choose" /\ (l = NewEventType => NewEventType \notin used)
    BY <1>7 DEF Choosing, Stores
  <2>2. /\ <<Step(q), Step(p)>> \in Follows[op] /\ Step(p) # "none"
        /\ p.call = q.call /\ p.todo \in Rests[op] /\ p.id = q.id /\ p.old = q.old
        /\ p.link = l /\ p.wrote = q.wrote /\ p.alone = q.alone /\ p.raced = q.raced
    BY <1>1, <2>1, Ahead
  <2>3. q.wrote = FALSE
    BY <1>1, <2>1, AtStep
  <2> HIDE DEF q, p, op
  <2>4. op = "create" /\ Step(p) = "insert" /\ p.call.op = op /\ q.call.op = op
    BY <1>2, <2>1, <2>2, Table DEF op
  <2>5. WellFormed(p)
    BY <1>2, <2>2, <2>3, <2>4 DEF WellFormed, HasWritten, Makes
  <2>6. p.id = NoId /\ p.alone
    BY <1>2, <2>2, <2>3, <2>4 DEF HasEvent, Makes
  <2>7. HasEvent(request[r])'
    BY <2>2, <2>3, <2>4, <2>6 DEF HasEvent, Makes, p
  <2>8. AloneThere(r)'
    BY <2>6 DEF AloneThere, p
  <2>9. LinkFree(request[r])'
    BY <2>1, <2>2, <2>4 DEF LinkFree, LookedUp, p
  <2> QED  BY <2>5, <2>7, <2>8, <2>9 DEF p
<1>8. ASSUME NEW i \in Ids, NEW l \in Links, Inserting(r, i, l)
      PROVE  /\ WellFormed(request'[r]) /\ HasEvent(request[r])'
             /\ AloneThere(r)' /\ LinkFree(request[r])'
  <2>1. /\ Moving(r, i, l, TRUE) /\ rows' = [rows EXCEPT ![i] = l] /\ used' = used
        /\ Step(q) = "insert" /\ rows[i] = Unused /\ (op = "create" => l = q.link)
    BY <1>8 DEF Inserting
  <2>2. /\ <<Step(q), Step(p)>> \in Follows[op] /\ Step(p) # "none"
        /\ p.call = q.call /\ p.todo \in Rests[op] /\ p.id = i /\ p.old = q.old
        /\ p.link = l /\ p.wrote = TRUE /\ p.alone = q.alone /\ p.raced = q.raced
    BY <1>1, <2>1, Ahead
  <2>3. q.wrote = FALSE
    BY <1>1, <2>1, AtStep
  <2>4. i # NoId /\ l # Unused /\ rows'[i] = l
    BY <1>3, <2>1, EventLinksAssumption
  <2> HIDE DEF q, p, op
  <2>5. \/ op = "create" /\ Step(p) = "reserve"
        \/ op = "clone" /\ Step(p) = "hostQuestions"
    BY <1>2, <2>1, <2>2, Table
  <2>6. p.call.op = op /\ q.call.op = op
    BY <2>2 DEF op
  <2>7. WellFormed(p)
    BY <1>2, <2>2, <2>5, <2>6 DEF WellFormed, HasWritten, Makes
  <2>8. HasEvent(request[r])'
    BY <2>2, <2>4 DEF HasEvent, p
  <2>9. RowDue(p) = l
    BY <2>2, <2>5, <2>6 DEF RowDue, Makes
  <2>10. AloneThere(r)'
    BY <1>4, <2>1, <2>2, <2>4, <2>9 DEF AloneThere, p
  <2>11. LinkFree(request[r])'
    BY <1>2, <2>1, <2>2, <2>5, <2>6 DEF LinkFree, LookedUp, p
  <2> QED  BY <2>7, <2>8, <2>10, <2>11 DEF p
<1>9. CASE Writing(r)
  <2>1. /\ Moving(r, q.id, q.link, TRUE) /\ rows' = [rows EXCEPT ![q.id] = NewLink(r)]
        /\ used' = used /\ Step(q) = "write" /\ IsRow(q.id)
    BY <1>9 DEF Writing, MovingOn
  <2>2. /\ <<Step(q), Step(p)>> \in Follows[op] /\ Step(p) # "none"
        /\ p.call = q.call /\ p.todo \in Rests[op] /\ p.id = q.id /\ p.old = q.old
        /\ p.link = q.link /\ p.wrote = TRUE /\ p.alone = q.alone /\ p.raced = q.raced
    BY <1>1, <2>1, Ahead
  <2>3. q.id \in Ids
    BY <1>1, <2>1, AtStep
  <2>4. NewLink(r) = IF q.link = NoLink THEN rows[q.id] ELSE q.link
    BY DEF NewLink
  <2> HIDE DEF q, p, op
  <2>5. op = "update" /\ Step(p) = "hostQuestions" /\ p.call.op = op /\ q.call.op = op
    BY <1>2, <2>1, <2>2, Table DEF op
  <2>6. WellFormed(p)
    BY <1>2, <2>2, <2>5 DEF WellFormed, HasWritten, Makes
  <2>7. rows'[q.id] = q.link /\ q.link # Unused /\ q.id # NoId
    BY <1>2, <1>3, <2>1, <2>3, <2>4, <2>5, EventLinksAssumption DEF WellFormed
  <2>8. HasEvent(request[r])'
    BY <2>2, <2>3, <2>7 DEF HasEvent, p
  <2>9. RowDue(p) = q.link
    BY <2>2, <2>5 DEF RowDue, Makes
  <2>10. AloneThere(r)'
    BY <1>4, <2>1, <2>2, <2>7, <2>9 DEF AloneThere, p
  <2>11. LinkFree(request[r])'
    BY <1>2, <2>1, <2>2, <2>5 DEF LinkFree, LookedUp, p
  <2> QED  BY <2>6, <2>8, <2>10, <2>11 DEF p
<1>16. CASE Skipping(r)
  <2>1. /\ Moving(r, q.id, q.link, TRUE) /\ rows' = rows /\ used' = used
        /\ Step(q) = "write" /\ op = "update" /\ ~ IsRow(q.id)
    BY <1>16 DEF Skipping, MovingOn, Stores
  <2>2. /\ <<Step(q), Step(p)>> \in Follows[op] /\ Step(p) # "none"
        /\ p.call = q.call /\ p.todo \in Rests[op] /\ p.id = q.id /\ p.old = q.old
        /\ p.link = q.link /\ p.wrote = TRUE /\ p.alone = q.alone /\ p.raced = q.raced
    BY <1>1, <2>1, Ahead
  <2>3. q.id \in Ids /\ rows[q.id] # Unused /\ q.id # NoId /\ q.wrote = FALSE
    <3>1. q.id \in Ids /\ rows[q.id] # Unused /\ ~ q.wrote
      BY <1>1, <2>1, AtStep
    <3>2. q.wrote \in BOOLEAN
      BY <1>2 DEF RequestType
    <3> QED  BY <3>1, <3>2, EventLinksAssumption
  <2> HIDE DEF q, p, op
  <2>4. Step(p) = "hostQuestions" /\ p.call.op = op /\ q.call.op = op
    BY <1>2, <2>1, <2>2, Table DEF op
  <2>5. WellFormed(p)
    BY <1>2, <2>1, <2>2, <2>4 DEF WellFormed, HasWritten, Makes
  <2>6. HasEvent(request[r])'
    BY <2>1, <2>2, <2>3 DEF HasEvent, p
  <2>7. RowDue(q) = q.old /\ q.old \in Links
    BY <1>2, <2>1, <2>3, <2>4 DEF RowDue, Makes, WellFormed
  <2>8. ~ q.alone
    BY <1>2, <2>1, <2>3, <2>7 DEF AloneThere, IsRow, q
  <2>9. AloneThere(r)'
    BY <2>2, <2>8 DEF AloneThere, p
  <2>10. LinkFree(request[r])'
    BY <1>2, <2>1, <2>2, <2>4 DEF LinkFree, LookedUp, p
  <2> QED  BY <2>5, <2>6, <2>9, <2>10 DEF p
<1>10. CASE Deleting(r)
  <2>1. /\ Moving(r, q.id, q.link, TRUE) /\ rows' = [rows EXCEPT ![q.id] = Gone]
        /\ used' = used /\ Step(q) = "delete"
    BY <1>10 DEF Deleting, MovingOn
  <2>2. /\ <<Step(q), Step(p)>> \in Follows[op] /\ Step(p) # "none"
        /\ p.call = q.call /\ p.todo \in Rests[op] /\ p.id = q.id /\ p.old = q.old
        /\ p.link = q.link /\ p.wrote = TRUE /\ p.alone = q.alone /\ p.raced = q.raced
    BY <1>1, <2>1, Ahead
  <2>3. q.id \in Ids
    BY <1>1, <2>1, AtStep
  <2> HIDE DEF q, p, op
  <2>5. op = "remove" /\ Step(p) = "dropQuestions" /\ p.call.op = op /\ q.call.op = op
    BY <1>2, <2>1, <2>2, Table DEF op
  <2>6. WellFormed(p)
    BY <1>2, <2>2, <2>5 DEF WellFormed, HasWritten, Makes
  <2>7. rows'[q.id] = Gone /\ Gone # Unused /\ q.id # NoId
    BY <1>3, <2>1, <2>3, EventLinksAssumption
  <2>8. HasEvent(request[r])'
    BY <2>2, <2>3, <2>7 DEF HasEvent, p
  <2>9. RowDue(p) = Gone
    BY <2>2, <2>5 DEF RowDue, Makes
  <2>10. AloneThere(r)'
    BY <1>4, <2>1, <2>2, <2>7, <2>9 DEF AloneThere, p
  <2>11. LinkFree(request[r])'
    BY <2>5 DEF LinkFree, LookedUp, p
  <2> QED  BY <2>6, <2>8, <2>10, <2>11 DEF p
<1>11. ASSUME MovingOn(r, TRUE), rows' = rows, q.wrote \/ op = "patch",
              Step(q) \in Parts \cup {"dropQuestions", "dropNotification", "release",
                                      "reserve"}
       PROVE  /\ WellFormed(request'[r]) /\ HasEvent(request[r])' /\ AloneThere(r)'
  <2>1. Moving(r, q.id, q.link, TRUE)
    BY <1>11 DEF MovingOn
  <2>2. /\ <<Step(q), Step(p)>> \in Follows[op] /\ Step(p) # "none"
        /\ p.call = q.call /\ p.todo \in Rests[op] /\ p.id = q.id /\ p.old = q.old
        /\ p.link = q.link /\ p.wrote = TRUE /\ p.alone = q.alone /\ p.raced = q.raced
    BY <1>1, <2>1, Ahead
  <2>3. q.id \in Ids /\ rows[q.id] # Unused /\ q.id # NoId
    BY <1>1, <1>11, AtStep, EventLinksAssumption DEF Parts
  <2>4. p.call.op = op
    BY <2>2
  <2> HIDE DEF q, p
  <2>5. RowDue(p) = RowDue(q)
    BY <1>11, <2>2, <2>4 DEF RowDue, Makes
  <2>6. WellFormed(p)
    <3>1. \/ op = "create" /\ Step(p) \in {"hostQuestions", "notificationInfo", "eventSetting"}
          \/ op = "clone" /\ Step(p) \in {"notificationInfo", "eventSetting", "reserve"}
          \/ op = "patch" /\ Step(q) = "release" /\ Step(p) = "reserve"
          \/ op = "patch" /\ Step(q) = "reserve" /\ Step(p) = "write"
          \/ op = "update" /\ Step(p) \in {"notificationInfo", "eventSetting", "release",
                                           "reserve"}
          \/ op = "remove" /\ Step(p) \in {"dropNotification", "release"}
      <4> HIDE DEF op
      <4> QED  BY <1>2, <1>11, <2>2, Table DEF Parts
    <3>2. HasWritten(p) = TRUE
      <4>1. op = "patch" => q.link \in Links /\ q.link # q.old /\ q.link # NoLink
        BY <1>2, <3>1, EventLinksAssumption DEF WellFormed
      <4> QED  BY <2>2, <2>4, <3>1, <4>1 DEF HasWritten
    <3>3. Makes(p) = Makes(q)
      BY <2>4 DEF Makes
    <3>4. /\ op # "remove" /\ Step(p) \in {"release", "reserve"} => q.link \in Links
          /\ Step(p) # "check" /\ (op = "patch" => Step(q) # "write" /\ q.link # q.old)
          /\ ~ (op = "create" /\ Step(p) = "insert")
          /\ Makes(q) => q.wrote
      BY <1>2, <1>11, <3>1 DEF WellFormed, Makes
    <3> QED  BY <1>2, <2>2, <2>4, <3>2, <3>3, <3>4 DEF WellFormed
  <2>7. HasEvent(request[r])'
    BY <1>11, <2>2, <2>3 DEF HasEvent, p
  <2>8. AloneThere(r)'
    BY <1>2, <1>4, <1>11, <2>2, <2>3, <2>5 DEF AloneThere, p, q
  <2> QED  BY <2>6, <2>7, <2>8 DEF p
<1>12. ASSUME Step(q) \in Parts \cup {"dropQuestions", "dropNotification", "release", "reserve"}
       PROVE  q.wrote \/ op = "patch"
  <2>1. q.wrote = HasWritten(q)
    BY <1>2 DEF WellFormed
  <2>2. <<Step(q), NextStep(Tail(q.todo))>> \in Follows[op]
    BY <1>1, Flying DEF Going
  <2> HIDE DEF q
  <2>3. op # "details"
    BY <1>2, <1>12, <2>2, Table DEF Parts
  <2> QED  BY <1>2, <1>12, <2>1, <2>3 DEF HasWritten, Parts, Ops
<1>13. CASE Releasing(r)
  <2>1. /\ MovingOn(r, TRUE) /\ rows' = rows /\ used' = used \ {q.old} /\ Step(q) = "release"
        /\ Moving(r, q.id, q.link, TRUE)
    BY <1>13 DEF Releasing, MovingOn
  <2>2. /\ <<Step(q), Step(p)>> \in Follows[op] /\ Step(p) # "none"
        /\ p.call = q.call /\ p.todo \in Rests[op] /\ p.id = q.id /\ p.old = q.old
        /\ p.link = q.link /\ p.wrote = TRUE /\ p.alone = q.alone /\ p.raced = q.raced
    BY <1>1, <2>1, Ahead
  <2>3. WellFormed(p) /\ HasEvent(request[r])' /\ AloneThere(r)'
    BY <1>11, <1>12, <2>1
  <2>4. p.call.op = op
    BY <2>2
  <2> HIDE DEF q, p
  <2>5. op \in {"patch", "update"} /\ Step(p) = "reserve"
    <3> HIDE DEF op
    <3> QED  BY <1>2, <2>1, <2>2, Table
  <2>6. LinkFree(request[r])'
    BY <1>2, <2>1, <2>2, <2>4, <2>5 DEF LinkFree, LookedUp, p
  <2> QED  BY <2>3, <2>6 DEF p
<1>14. CASE Reserving(r)
  <2>1. /\ MovingOn(r, TRUE) /\ rows' = rows /\ Step(q) = "reserve"
        /\ Moving(r, q.id, q.link, TRUE)
    BY <1>14 DEF Reserving, MovingOn
  <2>2. /\ <<Step(q), Step(p)>> \in Follows[op] /\ Step(p) # "none" /\ p.call = q.call
    BY <1>1, <2>1, Ahead
  <2>3. WellFormed(p) /\ HasEvent(request[r])' /\ AloneThere(r)'
    BY <1>11, <1>12, <2>1
  <2>4. p.call.op = op
    BY <2>2
  <2> HIDE DEF q, p
  <2>5. \/ op = "create" /\ Step(p) = "hostQuestions"
        \/ op = "patch" /\ Step(p) = "write"
    <3> HIDE DEF op
    <3> QED  BY <1>2, <2>1, <2>2, Table
  <2>6. LinkFree(request[r])'
    BY <2>4, <2>5 DEF LinkFree, LookedUp, p
  <2> QED  BY <2>3, <2>6 DEF p
<1>15. CASE Filling(r)
  <2>1. /\ MovingOn(r, TRUE) /\ rows' = rows /\ used' = used
        /\ Step(q) \in Parts \cup {"dropQuestions", "dropNotification", "writeBody"}
        /\ Moving(r, q.id, q.link, TRUE)
    BY <1>15 DEF Filling, MovingOn
  <2>2. /\ <<Step(q), Step(p)>> \in Follows[op] /\ Step(p) # "none"
        /\ p.call = q.call /\ p.todo \in Rests[op] /\ p.id = q.id /\ p.old = q.old
        /\ p.link = q.link /\ p.wrote = TRUE /\ p.alone = q.alone /\ p.raced = q.raced
    BY <1>1, <2>1, Ahead
  <2>3. Step(q) # "writeBody"
    <3> HIDE DEF op, q, p
    <3> QED  BY <1>2, <2>2, Table
  <2>4. WellFormed(p) /\ HasEvent(request[r])' /\ AloneThere(r)'
    BY <1>11, <1>12, <2>1, <2>3
  <2>5. p.call.op = op
    BY <2>2
  <2> HIDE DEF q, p
  <2>6. \/ op \in {"create", "clone", "update"} /\ Step(q) \in Parts
           /\ Step(p) \in {"notificationInfo", "eventSetting", "release", "reserve"}
           /\ (op = "create" => Step(p) # "reserve") /\ (op = "update" => Step(p) # "reserve")
        \/ op = "remove"
    <3> HIDE DEF op
    <3> QED  BY <1>2, <2>1, <2>2, Table DEF Parts
  <2>7. LinkFree(request[r])'
    BY <1>2, <2>1, <2>2, <2>5, <2>6 DEF LinkFree, LookedUp, Parts, p
  <2> QED  BY <2>4, <2>7 DEF p
<1> QED
  BY <1>5, <1>6, <1>7, <1>8, <1>9, <1>10, <1>13, <1>14, <1>15, <1>16 DEF Working

LEMMA AskStep ==
    ASSUME CoreInv, NEW r \in Requests, NEW call \in Calls, Asked(r, call)
    PROVE  HandlersInv'
<1> DEFINE found == IF call.id = NoId THEN NoLink ELSE rows[call.id]
<1>1. /\ r \notin InFlight /\ UNCHANGED <<rows, used, bodies, suspect, torn>>
      /\ call \in CallType /\ call.op \in Ops /\ (call.id = NoId <=> call.op = "create")
      /\ NoId \notin Ids /\ NoLink \notin Links /\ Unused \notin Links
  BY CallOps, EventLinksAssumption DEF Asked
<1>2. ASSUME NEW s \in Requests \ {r}
      PROVE  /\ request'[s].call = request[s].call /\ request'[s].todo = request[s].todo
             /\ request'[s].id = request[s].id /\ request'[s].old = request[s].old
             /\ request'[s].link = request[s].link /\ request'[s].wrote = request[s].wrote
             /\ request'[s].raced = request[s].raced
             /\ request'[s].alone <=> request[s].alone /\ ~ Overlaps(s, call)
             /\ s \in InFlight' <=> s \in InFlight
             /\ s \in InFlight => /\ WellFormed(request[s]) /\ HasEvent(request[s])
                                  /\ AloneThere(s) /\ LinkFree(request[s])
  BY DEF Asked, InFlight, CoreInv, HandlersInv, HandlerInv
<1>3. HandlerInv(r)'
  <2> DEFINE p == request'[r]
             op == call.op
  <2>1. /\ p.call = call /\ p.todo \in Rests[op] /\ p.todo # <<>>
        /\ p.id = (IF op = "clone" THEN NoId ELSE call.id)
        /\ p.old = found /\ p.link = call.link /\ p.wrote = FALSE /\ p \in RequestType
        /\ p.alone <=> \A s \in Requests : ~ Overlaps(s, call)
        /\ op # "create" => call.id \in Ids /\ IsRow(call.id)
    BY DEF Asked, RequestType
  <2>2. /\ CASE op = "create" -> Step(p) = "choose"
             [] op = "clone" -> Step(p) = "reread"
             [] op = "patch" -> \/ Step(p) = "check" /\ call.link \in Links \ {found}
                                \/ Step(p) = "write" /\ call.link \in {NoLink, found}
             [] op = "update" -> Step(p) = "check"
             [] op = "remove" -> Step(p) = "delete"
             [] OTHER -> Step(p) = "writeDetail"
    BY DEF Asked
  <2>3. op = "update" => call.link \in Links
    BY <1>1, EventLinksAssumption DEF CallType
  <2>4. IF op = "create" THEN found = NoLink ELSE found \in Links /\ found = rows[call.id]
    BY <1>1, <2>1 DEF IsRow
  <2>5. Makes(p) <=> op \in {"create", "clone"}
    BY <2>1 DEF Makes
  <2> HIDE DEF p, found
  <2>6. WellFormed(p)
    <3>1. HasWritten(p) = FALSE
      BY <1>1, <2>1, <2>2, <2>5 DEF HasWritten, Ops
    <3>2. /\ Step(p) \in {"check", "release", "reserve"} /\ op # "remove" => p.link \in Links
          /\ op = "patch" /\ Step(p) # "write" => p.link # p.old
          /\ ~ (op = "create" /\ Step(p) = "insert")
      BY <1>1, <2>1, <2>2, <2>3 DEF Ops
    <3> QED  BY <2>1, <2>3, <2>4, <2>5, <3>1, <3>2 DEF WellFormed
  <2>7. Makes(p) => p.id = NoId /\ p.alone
    BY <1>1, <2>1, <2>5 DEF Overlaps
  <2>8. ~ Makes(p) => p.id = call.id /\ call.id \in Ids /\ call.id # NoId
                      /\ rows[call.id] = found /\ found # Unused
    BY <1>1, <2>1, <2>4, <2>5
  <2>9. HasEvent(request[r])'
    BY <1>1, <2>1, <2>7, <2>8 DEF HasEvent, p
  <2>10. AloneThere(r)'
    <3> SUFFICES ASSUME p.alone, p.id # NoId
                 PROVE  /\ rows'[p.id] = RowDue(p)
                        /\ \A s \in InFlight' \ {r} : request'[s].id # p.id
      BY DEF AloneThere, p
    <3>1. ~ Makes(p)
      BY <2>7
    <3>2. RowDue(p) = found
      BY <2>1, <3>1 DEF RowDue
    <3>3. ASSUME NEW s \in InFlight' \ {r}  PROVE request'[s].id # p.id
      <4>1. s \in InFlight /\ request'[s].id = request[s].id /\ s \in Requests
        BY <1>2 DEF InFlight
      <4>2. op # "clone" /\ call.id # NoId /\ ~ Overlaps(s, call)
        BY <2>1, <2>5, <2>8, <3>1, <4>1
      <4> QED  BY <2>8, <3>1, <4>1, <4>2 DEF Overlaps
    <3> QED  BY <1>1, <2>8, <3>1, <3>2, <3>3
  <2>11. LinkFree(request[r])'
    BY <1>1, <2>1, <2>2 DEF LinkFree, LookedUp, p
  <2> QED  BY <2>6, <2>9, <2>10, <2>11 DEF HandlerInv, p
<1>4. ASSUME NEW s \in Requests \ {r}  PROVE HandlerInv(s)'
  <2> SUFFICES ASSUME s \in InFlight
               PROVE  /\ WellFormed(request'[s]) /\ HasEvent(request[s])'
                      /\ AloneThere(s)' /\ LinkFree(request[s])'
    BY <1>2 DEF HandlerInv
  <2> DEFINE q == request[s]
             p == request'[s]
  <2>1. /\ Step(p) = Step(q) /\ Makes(p) = Makes(q) /\ WellFormed(p) = WellFormed(q)
        /\ RowDue(p) = RowDue(q) /\ LookedUp(p) = LookedUp(q)
    BY <1>2, KeptSame
  <2>2. HasEvent(request[s])'
    <3>1. Makes(q) /\ ~ q.wrote => ~ Overlaps(s, call)
      BY <1>2 DEF HasEvent, Overlaps
    <3> QED  BY <1>1, <1>2, <2>1, <3>1 DEF HasEvent
  <2>3. LinkFree(request[s])'
    BY <1>1, <1>2, <2>1 DEF LinkFree
  <2>4. AloneThere(s)'
    <3> SUFFICES ASSUME q.alone, ~ Overlaps(s, call), q.id # NoId
                 PROVE  /\ rows'[q.id] = RowDue(q)
                        /\ \A t \in InFlight' \ {s} : request'[t].id # q.id
      BY <1>2, <2>1 DEF AloneThere
    <3>1. rows[q.id] = RowDue(q) /\ \A t \in InFlight \ {s} : request[t].id # q.id
      BY <1>2 DEF AloneThere
    <3>2. ASSUME NEW t \in InFlight' \ {s}  PROVE request'[t].id # q.id
      <4>1. CASE t = r
        <5>1. request'[r].id = IF call.op = "clone" THEN NoId ELSE call.id
          BY DEF Asked
        <5> QED  BY <4>1, <5>1 DEF Overlaps
      <4>2. CASE t # r
        BY <1>2, <3>1, <4>2 DEF InFlight
      <4> QED  BY <4>1, <4>2
    <3> QED  BY <1>1, <3>1, <3>2
  <2> QED  BY <1>2, <2>1, <2>2, <2>3, <2>4
<1> QED  BY <1>3, <1>4 DEF HandlersInv

LEMMA CoreIdle == CoreInv /\ UNCHANGED vars => CoreInv'
BY DEF CoreInv, TypeOK, HandlersInv, HandlerInv, HasEvent, AloneThere, LinkFree, InFlight, vars

(* A step of Next, seen either way.                                         *)
LEMMA StepKinds ==
    ASSUME CoreInv, Next
    PROVE  \E r \in Requests : Working(r) \/ \E call \in Calls : Asked(r, call)
<1>1. PICK s \in Requests : TRUE
  BY DEF Next
<1>2. PICK r \in Requests : (\E call \in Calls : Receive(r, call)) \/ Working(r)
  BY NextWorks
<1> QED  BY <1>2, ReceiveAsks

LEMMA CoreStep == CoreInv /\ [Next]_vars => CoreInv'
<1> SUFFICES ASSUME CoreInv, Next  PROVE CoreInv'
  BY CoreIdle
<1>1. PICK r \in Requests : Working(r) \/ \E call \in Calls : Asked(r, call)
  BY StepKinds
<1>2. TypeOK'
  BY <1>1, TypeStep
<1>3. HandlersInv'
  <2>1. CASE Working(r)
    BY <2>1, ActorStep, OthersStep DEF HandlersInv
  <2>2. CASE \E call \in Calls : Asked(r, call)
    BY <2>2, AskStep
  <2> QED  BY <1>1, <2>1, <2>2
<1> QED  BY <1>2, <1>3 DEF CoreInv

LEMMA CoreCorrect == Spec => []CoreInv
BY CoreInit, CoreStep, PTL DEF Spec

(* The rows, the set of links, the keys and the local state of every        *)
(* handler stay of their types, whatever interleaves or fails.              *)
THEOREM TypeCorrect == Spec => []TypeOK
<1>1. CoreInv => TypeOK
  BY DEF CoreInv
<1> QED  BY <1>1, CoreCorrect, PTL

(* Every handler goes through the steps of its call, and while it is alone  *)
(* on its event the row is as that handler has found or written it.         *)
THEOREM HandlersCorrect == Spec => []HandlersInv
<1>1. CoreInv => HandlersInv
  BY DEF CoreInv
<1> QED  BY <1>1, CoreCorrect, PTL

-----------------------------------------------------------------------------
(* The links.  A link that is in doubt stays so.                            *)
Quiet(r) ==
    /\ r \in InFlight /\ OthersKept(r) /\ Marking /\ UNCHANGED Stores
    /\ ~ request[r].wrote /\ (request'[r].todo # <<>> => ~ request'[r].wrote)

LEMMA IdleRests == \A c : Idle(c).todo = <<>> /\ Idle(c).wrote = FALSE
BY DEF Idle

LEMMA WorkKinds ==
    ASSUME CoreInv, NEW r \in Requests, Working(r)
    PROVE  \/ Quiet(r)
           \/ Breaking(r)
           \/ \E i \in Ids, l \in Links : Inserting(r, i, l)
           \/ MovingOn(r, TRUE) /\ \/ Writing(r) \/ Deleting(r) \/ Releasing(r)
                                   \/ Reserving(r) \/ Filling(r)
           \/ /\ MovingOn(r, TRUE) /\ UNCHANGED Stores
              /\ Step(request[r]) = "write" /\ request[r].call.op \in {"patch", "update"}
              /\ ~ IsRow(request[r].id)
<1>1. r \in InFlight /\ OthersKept(r) /\ Marking /\ request[r].wrote \in BOOLEAN
  BY WorkDoes, Flying DEF RequestType
<1>2. CASE Refusing(r)
  <2>1. request'[r].todo = <<>> /\ ~ request[r].wrote /\ UNCHANGED Stores
    BY <1>2, IdleRests DEF Refusing, Ended
  <2> QED  BY <1>1, <2>1 DEF Quiet
<1>3. CASE Passing(r)
  <2>1. MovingOn(r, request[r].wrote) /\ UNCHANGED Stores
    BY <1>3 DEF Passing
  <2>2. CASE ~ request[r].wrote
    <3>1. request'[r].todo # <<>> => ~ request'[r].wrote
      BY <2>1, <2>2 DEF MovingOn, Moving, Goes
    <3> QED  BY <1>1, <2>1, <2>2, <3>1 DEF Quiet
  <2>3. CASE request[r].wrote
    <3>1. Step(request[r]) \notin {"check", "reread", "writeDetail"}
      BY <1>1, <2>3, AtStep
    <3>2. request[r].wrote = TRUE
      BY <1>1, <2>3
    <3> QED  BY <1>3, <2>1, <3>1, <3>2 DEF Passing
  <2> QED  BY <2>2, <2>3
<1>4. ASSUME NEW l \in Links, Choosing(r, l)  PROVE Quiet(r)
  <2>1. /\ ~ request[r].wrote /\ UNCHANGED Stores
        /\ Moving(r, request[r].id, l, request[r].wrote)
    BY <1>1, <1>4, AtStep DEF Choosing
  <2>2. request'[r].todo # <<>> => ~ request'[r].wrote
    BY <2>1 DEF Moving, Goes
  <2> QED  BY <1>1, <2>1, <2>2 DEF Quiet
<1>5. Writing(r) \/ Deleting(r) \/ Releasing(r) \/ Reserving(r) \/ Filling(r)
        => MovingOn(r, TRUE)
  BY DEF Writing, Deleting, Releasing, Reserving, Filling
<1>6. Skipping(r) => /\ MovingOn(r, TRUE) /\ UNCHANGED Stores /\ Step(request[r]) = "write"
                     /\ request[r].call.op = "update" /\ ~ IsRow(request[r].id)
  BY DEF Skipping
<1> QED  BY <1>2, <1>3, <1>4, <1>5, <1>6 DEF Working

LEMMA MovedMarks ==
    ASSUME CoreInv, NEW r \in Requests, ~ request[r].alone,
           MovingOn(r, TRUE) \/ Breaking(r)
    PROVE  /\ \A l \in LinksOf(request[r]) : Dirty(l)'
           /\ \A i \in Ids : i = request[r].id /\ i # NoId => Spoiled(i)'
<1>1. CASE Breaking(r)
  <2>1. /\ \A l \in LinksOf(request[r]) : l \in suspect'
        /\ request[r].id # NoId => request[r].id \in torn'
    BY <1>1 DEF Breaking
  <2> QED  BY <2>1 DEF Dirty, Spoiled
<1>2. CASE MovingOn(r, TRUE) /\ request'[r].todo = <<>>
  <2>1. /\ \A l \in LinksOf(request[r]) : l \in suspect'
        /\ request[r].id # NoId => request[r].id \in torn'
    BY <1>2 DEF MovingOn, Moving, Goes
  <2> QED  BY <2>1 DEF Dirty, Spoiled
<1>3. CASE MovingOn(r, TRUE) /\ request'[r].todo # <<>>
  <2>1. /\ request'[r].call = request[r].call /\ request'[r].id = request[r].id
        /\ request'[r].old = request[r].old /\ request'[r].link = request[r].link
        /\ request'[r].wrote = TRUE /\ request'[r].alone = request[r].alone
    BY <1>3 DEF MovingOn, Moving, Goes
  <2>2. LinksOf(request'[r]) = LinksOf(request[r])
    BY <2>1 DEF LinksOf
  <2>3. r \in InFlight'
    BY <1>3 DEF InFlight
  <2> QED  BY <2>1, <2>2, <2>3 DEF Dirty, Spoiled, Writers
<1> QED  BY <1>1, <1>2, <1>3

LEMMA MakersAlone ==
    ASSUME CoreInv, NEW r \in InFlight
    PROVE  ~ request[r].alone => /\ request[r].id \in Ids /\ rows[request[r].id] # Unused
                                 /\ Step(request[r]) # "insert"
<1>1. HasEvent(request[r]) /\ request[r].call.op \in Ops
      /\ Going(request[r].call.op, request[r].todo) /\ Step(request[r]) = Head(request[r].todo)
  BY Flying DEF HandlerInv
<1>2. Step(request[r]) = "insert" => Makes(request[r]) /\ ~ request[r].wrote
  BY <1>1, AtStep, Table DEF Going, Makes
<1> QED  BY <1>1, <1>2 DEF HasEvent

LEMMA DirtyWorks ==
    ASSUME CoreInv, NEW r \in Requests, Working(r), NEW l, Dirty(l)
    PROVE  Dirty(l)'
<1>1. r \in InFlight /\ OthersKept(r) /\ Marking
  BY WorkDoes
<1>2. CASE l \in suspect
  BY <1>1, <1>2 DEF Marking, Dirty
<1>3. ASSUME NEW s \in InFlight, s # r, ~ request[s].alone, request[s].wrote,
             l \in LinksOf(request[s])
      PROVE  Dirty(l)'
  <2>1. Kept(s)
    BY <1>1, <1>3 DEF OthersKept, InFlight
  <2>2. LinksOf(request'[s]) = LinksOf(request[s]) /\ s \in InFlight'
    BY <2>1, KeptSame DEF Kept, InFlight
  <2> QED  BY <1>3, <2>1, <2>2 DEF Dirty, Kept
<1>4. ASSUME ~ request[r].alone, request[r].wrote, l \in LinksOf(request[r])
      PROVE  Dirty(l)'
  <2>1. ~ Quiet(r)
    BY <1>4 DEF Quiet
  <2>2. ~ \E i \in Ids, k \in Links : Inserting(r, i, k)
    BY <1>1, <1>4, MakersAlone DEF Inserting
  <2> QED  BY <2>1, <2>2, <1>4, WorkKinds, MovedMarks
<1> QED  BY <1>2, <1>3, <1>4 DEF Dirty

LEMMA DirtyAsked ==
    ASSUME NEW r \in Requests, NEW call \in Calls, Asked(r, call), NEW l, Dirty(l)
    PROVE  Dirty(l)'
<1>1. CASE l \in suspect
  BY <1>1 DEF Asked, Dirty
<1>2. ASSUME NEW s \in InFlight, ~ request[s].alone, request[s].wrote,
             l \in LinksOf(request[s])
      PROVE  Dirty(l)'
  <2>1. s # r /\ s \in Requests
    BY DEF Asked, InFlight
  <2>2. /\ request'[s].call = request[s].call /\ request'[s].todo = request[s].todo
        /\ request'[s].id = request[s].id /\ request'[s].old = request[s].old
        /\ request'[s].link = request[s].link /\ request'[s].wrote = request[s].wrote
        /\ request'[s].alone <=> request[s].alone /\ ~ Overlaps(s, call)
    BY <2>1 DEF Asked
  <2>3. LinksOf(request'[s]) = LinksOf(request[s]) /\ s \in InFlight'
    BY <2>1, <2>2, KeptSame DEF InFlight
  <2> QED  BY <1>2, <2>2, <2>3 DEF Dirty
<1> QED  BY <1>1, <1>2 DEF Dirty

(* An event that r does not write, before or after.                         *)
LEMMA Elsewhere ==
    ASSUME CoreInv, NEW r \in Requests, OthersKept(r), NEW i \in Ids, rows'[i] = rows[i],
           r \notin Writers(i), r \notin Writers(i)'
    PROVE  /\ Writers(i)' = Writers(i)
           /\ \A s \in Writers(i) : /\ request'[s].alone = request[s].alone
                                    /\ ClaimOf(request'[s]) = ClaimOf(request[s])
                                    /\ \A body : BodyOf(request'[s], body)
                                                   = BodyOf(request[s], body)
           /\ \A l : Claims(i, l)' <=> Claims(i, l)
<1>1. \A s \in Requests \ {r} : s \in Writers(i)' <=> s \in Writers(i)
  BY DEF OthersKept, Kept, Writers, InFlight
<1>2. Writers(i)' = Writers(i)
  BY <1>1 DEF Writers, InFlight
<1>3. ASSUME NEW s \in Writers(i)
      PROVE  /\ request'[s].alone = request[s].alone
             /\ ClaimOf(request'[s]) = ClaimOf(request[s])
             /\ \A body : BodyOf(request'[s], body) = BodyOf(request[s], body)
  <2>1. Kept(s)
    BY DEF OthersKept, Writers, InFlight
  <2> QED  BY <2>1, KeptSame DEF Kept
<1> QED  BY <1>2, <1>3 DEF Claims

(* What the event of a handler claims that is alone on it.                  *)
ClaimNow(r) == IF request[r].wrote THEN ClaimOf(request[r]) ELSE rows[request[r].id]
LEMMA AloneClaims ==
    ASSUME HandlersInv, NEW r \in InFlight, request[r].alone, request[r].id \in Ids
    PROVE  /\ Writers(request[r].id) = IF request[r].wrote THEN {r} ELSE {}
           /\ \A l : Claims(request[r].id, l) <=> ClaimNow(r) = l
<1>1. request[r].id # NoId /\ r \in Requests
  BY EventLinksAssumption DEF InFlight
<1>2. \A s \in InFlight \ {r} : request[s].id # request[r].id
  BY <1>1 DEF HandlersInv, HandlerInv, AloneThere
<1>3. Writers(request[r].id) = IF request[r].wrote THEN {r} ELSE {}
  BY <1>2 DEF Writers
<1> QED  BY <1>3 DEF Claims, ClaimNow

LEMMA NoneAlone ==
    ASSUME HandlersInv, NEW r \in InFlight, ~ request[r].alone, request[r].id \in Ids
    PROVE  /\ \A s \in InFlight : request[s].id = request[r].id => ~ request[s].alone
           /\ \A l : Claims(request[r].id, l) <=>
                        Writers(request[r].id) = {} /\ rows[request[r].id] = l
<1>1. request[r].id # NoId /\ r \in Requests
  BY EventLinksAssumption DEF InFlight
<1>2. \A s \in InFlight : request[s].id = request[r].id => ~ request[s].alone
  BY <1>1 DEF HandlersInv, HandlerInv, AloneThere, InFlight
<1> QED  BY <1>2 DEF Claims, Writers

One(l) ==
    /\ l \in used <=> \E i \in Ids : Claims(i, l)
    /\ \A i, j \in Ids : Claims(i, l) /\ Claims(j, l) => i = j

LEMMA ClaimsMove ==
    ASSUME NEW l, NEW h \in Ids, One(l),
           \A i \in Ids \ {h} : Claims(i, l)' <=> Claims(i, l),
           \/ (l \in used' <=> l \in used) /\ (Claims(h, l)' <=> Claims(h, l))
           \/ l \notin used' /\ Claims(h, l) /\ ~ Claims(h, l)'
           \/ l \in used' /\ l \notin used /\ Claims(h, l)'
    PROVE  One(l)'
BY DEF One

LEMMA ClaimIn ==
    ASSUME NEW q, q.call.op \in Ops
    PROVE  ClaimOf(q) \in LinksOf(q) \cup {NoLink}
BY DEF ClaimOf, LinksOf, Ops

(* The steps that say nothing of any link.                                  *)
LEMMA QuietOne ==
    ASSUME CoreInv, NEW r \in Requests, Quiet(r), NEW l, One(l)
    PROVE  One(l)'
<1>1. UNCHANGED <<rows, used>> /\ OthersKept(r)
  BY DEF Quiet, Stores
<1>2. ASSUME NEW i \in Ids  PROVE Claims(i, l)' <=> Claims(i, l)
  <2>1. r \notin Writers(i) /\ r \notin Writers(i)'
    BY DEF Quiet, Writers, InFlight
  <2> QED  BY <1>1, <2>1, Elsewhere
<1> QED  BY <1>1, <1>2 DEF One

(* The other events are claimed as before.                                  *)
LEMMA OthersClaims ==
    ASSUME CoreInv, NEW r \in InFlight, OthersKept(r), NEW h \in Ids,
           h = request[r].id \/ ~ request[r].wrote,
           request'[r].todo # <<>> => request'[r].id = h,
           \A i \in Ids \ {h} : rows'[i] = rows[i]
    PROVE  \A i \in Ids \ {h} : \A l : Claims(i, l)' <=> Claims(i, l)
<1> SUFFICES ASSUME NEW i \in Ids \ {h}, NEW l  PROVE Claims(i, l)' <=> Claims(i, l)
  OBVIOUS
<1>1. r \in Requests
  BY DEF InFlight
<1>2. r \notin Writers(i) /\ r \notin Writers(i)'
  BY DEF Writers, InFlight
<1> QED  BY <1>1, <1>2, Elsewhere

(* Step by step, what a handler that is alone on its event claims.          *)
ClaimNext(r) ==
    IF request'[r].todo = <<>> THEN rows'[request[r].id]
    ELSE ClaimOf(request'[r])

AllAloneClaims ==
    \A r \in InFlight : request[r].alone /\ request[r].id \in Ids =>
        \A i, l : i = request[r].id => (Claims(i, l) <=> ClaimNow(r) = l)
LEMMA AloneClaimsAll == HandlersInv => AllAloneClaims
BY AloneClaims DEF AllAloneClaims
LEMMA AloneClaimsNext == HandlersInv' => AllAloneClaims'
BY AloneClaimsAll, PTL

LEMMA AloneMoves ==
    ASSUME CoreInv, NEW r \in Requests, MovingOn(r, TRUE), request[r].alone,
           NEW h \in Ids, h = request[r].id, HandlersInv', NEW l
    PROVE  (Claims(h, l) <=> ClaimNow(r) = l) /\ (Claims(h, l)' <=> ClaimNext(r) = l)
<1>1. r \in InFlight /\ OthersKept(r) /\ Goes(r, request[r].id, request[r].link, TRUE)
  BY DEF MovingOn, Moving
<1>2. Claims(h, l) <=> ClaimNow(r) = l
  BY <1>1, AloneClaims DEF CoreInv
<1>3. CASE request'[r].todo # <<>>
  <2>1. r \in InFlight' /\ request'[r].alone /\ request'[r].id = h /\ request'[r].wrote
    BY <1>1, <1>3 DEF Goes, InFlight
  <2>4. Claims(h, l)' <=> ClaimNow(r)' = l
    BY <2>1, AloneClaimsNext DEF AllAloneClaims
  <2> QED  BY <1>2, <1>3, <2>1, <2>4 DEF ClaimNow, ClaimNext
<1>4. CASE request'[r].todo = <<>>
  <2>1. \A s \in InFlight' \ {r} : request'[s].id # h
    <3>1. request[r].id # NoId
      BY EventLinksAssumption
    <3> QED  BY <1>1, <3>1, StaysAlone
  <2>2. Writers(h)' = {}
    BY <1>4, <2>1 DEF Writers, InFlight
  <2> QED  BY <1>2, <1>4, <2>2 DEF Claims, ClaimNext
<1> QED  BY <1>3, <1>4

LEMMA AloneTable ==
    ASSUME CoreInv, NEW r \in Requests, MovingOn(r, TRUE), request[r].alone
    PROVE  /\ Writing(r) \/ Deleting(r) \/ Filling(r) => ClaimNext(r) = ClaimNow(r)
           /\ Releasing(r) => ClaimNow(r) = request[r].old /\ ClaimNext(r) \notin Links
           /\ Reserving(r) => /\ ClaimNow(r) = NoLink /\ ClaimNext(r) = request[r].link
                              /\ request[r].link \in used => request[r].link \in suspect'
           /\ Step(request[r]) \in {"write", "delete"} => IsRow(request[r].id)
<1> DEFINE q == request[r]
           p == request'[r]
           op == q.call.op
           h == q.id
<1>1. r \in InFlight /\ Goes(r, q.id, q.link, TRUE)
  BY DEF MovingOn, Moving
<1>2. /\ op \in Ops /\ q \in RequestType /\ q.call \in Calls
      /\ WellFormed(q) /\ HasEvent(q) /\ AloneThere(r) /\ LinkFree(q)
      /\ <<Step(q), NextStep(Tail(q.todo))>> \in Follows[op]
  BY <1>1, Flying DEF HandlerInv, Going
<1>3. /\ <<Step(q), Step(p)>> \in Follows[op]
      /\ p.todo # <<>> => p.call = q.call /\ p.old = q.old /\ p.link = q.link
                          /\ p.wrote = TRUE
      /\ p.todo = <<>> <=> Step(p) = "none"
  <2>1. p.todo # <<>> => Step(p) # "none"
    BY <1>1, Ahead DEF MovingOn
  <2>2. p.todo = <<>> => Step(p) = "none"
    BY DEF Step
  <2>3. <<Step(q), Step(p)>> \in Follows[op]
    BY <1>1 DEF Goes
  <2>4. p.todo # <<>> => p.call = q.call /\ p.old = q.old /\ p.link = q.link
                         /\ p.wrote = TRUE
    BY <1>1 DEF Goes
  <2> QED  BY <2>1, <2>2, <2>3, <2>4
<1>4. rows \in [Ids -> Links \cup {Unused, Gone}] /\ Gone \notin Links /\ NoLink \notin Links
  BY EventLinksAssumption DEF CoreInv, TypeOK
<1>5. ClaimNow(r) = (IF q.wrote THEN ClaimOf(q) ELSE rows[h])
      /\ ClaimNext(r) = (IF Step(p) = "none" THEN rows'[h] ELSE ClaimOf(p))
  BY <1>3 DEF ClaimNow, ClaimNext
<1>6. /\ q.wrote = HasWritten(q)
      /\ op # "create" => q.old \in Links
      /\ op = "patch" /\ Step(q) # "write" => q.link # q.old
      /\ op = "update" => q.link \in Links
      /\ Makes(q) /\ q.wrote => q.link \in Links
      /\ Step(q) \in {"check", "release", "reserve"} /\ op # "remove" => q.link \in Links
  BY <1>2 DEF WellFormed
<1>7. h \in Ids => rows[h] = RowDue(q)
  BY <1>2, EventLinksAssumption DEF AloneThere
<1>8. ~ (Makes(q) /\ ~ q.wrote) => h \in Ids
  BY <1>2 DEF HasEvent
<1>9. Makes(q) <=> op \in {"create", "clone"}
  BY DEF Makes
<1>10. p.todo # <<>> => p.call.op = op
  BY <1>3
<1>11. NewLink(r) = IF q.link = NoLink THEN rows[h] ELSE q.link
  BY DEF NewLink
<1> HIDE DEF q, p, h
<1>12. q.call.op = op
  OBVIOUS
<1> HIDE DEF op
<1>13. Step(q) \in {"write", "delete"} => IsRow(h)
  <2>1. CASE Step(q) = "write"
    <3>1. \/ op = "patch"
          \/ op = "update" /\ ~ q.wrote
      <4>1. op \in {"patch", "update"}
        BY <1>2, <2>1, Table
      <4> QED  BY <4>1, <1>6, <1>12, <2>1 DEF HasWritten
    <3> QED  BY <3>1, <1>6, <1>7, <1>8, <1>9, <1>12 DEF RowDue, IsRow
  <2>2. CASE Step(q) = "delete"
    <3>1. op = "remove" /\ ~ q.wrote
      <4>1. op = "remove"
        BY <1>2, <2>2, Table
      <4> QED  BY <4>1, <1>6, <1>12, <2>2 DEF HasWritten
    <3> QED  BY <3>1, <1>6, <1>7, <1>8, <1>9, <1>12 DEF RowDue, IsRow
  <2> QED  BY <2>1, <2>2
<1>14. ASSUME Writing(r)  PROVE ClaimNext(r) = ClaimNow(r)
  <2>1. Step(q) = "write" /\ rows' = [rows EXCEPT ![h] = NewLink(r)]
    BY <1>14 DEF Writing, q, h
  <2>2. \/ op = "patch" /\ Step(p) = "none"
        \/ op = "update" /\ Step(p) = "hostQuestions"
    BY <1>3, <1>2, <2>1, Table
  <2>3. h \in Ids /\ rows'[h] = NewLink(r)
    BY <1>4, <1>8, <1>9, <2>1, <2>2
  <2>4. CASE op = "patch"
    <3>1. rows[h] = q.old
      BY <2>3, <2>4, <1>7, <1>9, <1>12 DEF RowDue
    <3>2. q.wrote = (q.link \notin {NoLink, q.old})
      BY <1>6, <1>12, <2>1, <2>4 DEF HasWritten
    <3>3. q.wrote => ClaimOf(q) = q.link
      BY <1>12, <2>1, <2>4 DEF ClaimOf
    <3> QED  BY <1>5, <1>11, <2>2, <2>3, <2>4, <3>1, <3>2, <3>3
  <2>5. CASE op = "update"
    <3>1. ~ q.wrote
      BY <1>6, <1>12, <2>1, <2>5 DEF HasWritten
    <3>2. rows[h] = q.old
      BY <2>3, <2>5, <3>1, <1>7, <1>9, <1>12 DEF RowDue
    <3>3. ClaimOf(p) = q.old
      BY <1>3, <1>10, <2>2, <2>5 DEF ClaimOf
    <3> QED  BY <1>5, <2>2, <2>5, <3>1, <3>2, <3>3
  <2> QED  BY <2>2, <2>4, <2>5
<1>15. ASSUME Deleting(r)  PROVE ClaimNext(r) = ClaimNow(r)
  <2>1. Step(q) = "delete"
    BY <1>15 DEF Deleting, q
  <2>2. op = "remove" /\ Step(p) = "dropQuestions"
    BY <1>3, <1>2, <2>1, Table
  <2>3. ~ q.wrote
    BY <1>6, <1>12, <2>1, <2>2 DEF HasWritten
  <2>4. rows[h] = q.old
    BY <2>2, <2>3, <1>7, <1>8, <1>9, <1>12 DEF RowDue
  <2>5. ClaimOf(p) = q.old
    BY <1>3, <1>10, <2>2 DEF ClaimOf
  <2> QED  BY <1>5, <2>2, <2>3, <2>4, <2>5
<1>16. ASSUME Filling(r)  PROVE ClaimNext(r) = ClaimNow(r)
  <2>1. /\ Step(q) \in Parts \cup {"dropQuestions", "dropNotification", "writeBody"}
        /\ rows' = rows
    BY <1>16 DEF Filling, q
  <2>2. \/ op = "create" /\ (Step(p) = "none" \/ Step(p) \in Parts)
        \/ op = "clone" /\ (Step(p) = "reserve" \/ Step(p) \in Parts)
        \/ op = "update" /\ (Step(p) = "release" \/ Step(p) \in Parts)
        \/ op = "remove" /\ Step(p) \in {"dropNotification", "release"}
        \/ op = "details" /\ Step(p) = "none"
    BY <1>3, <1>2, <2>1, Table DEF Parts
  <2>3. CASE op = "create"
    <3>1. q.wrote
      BY <1>6, <1>12, <2>1, <2>3 DEF HasWritten, Parts
    <3>2. ClaimOf(q) = q.link /\ (Step(p) # "none" => ClaimOf(p) = q.link)
      BY <1>3, <1>10, <1>12, <2>1, <2>2, <2>3 DEF ClaimOf, Parts
    <3>3. rows[h] = q.link
      BY <3>1, <1>7, <1>8, <1>9, <1>12, <2>3 DEF RowDue
    <3> QED  BY <1>5, <2>1, <3>1, <3>2, <3>3
  <2>4. CASE op = "clone"
    <3>1. q.wrote /\ Step(p) # "none"
      BY <1>6, <1>12, <2>1, <2>2, <2>4 DEF HasWritten, Parts
    <3>2. ClaimOf(q) = NoLink /\ ClaimOf(p) = NoLink
      BY <1>3, <1>10, <1>12, <2>4, <3>1 DEF ClaimOf
    <3> QED  BY <1>5, <3>1, <3>2
  <2>5. CASE op = "update"
    <3>1. q.wrote /\ Step(p) # "none"
      BY <1>6, <1>12, <2>1, <2>2, <2>5 DEF HasWritten, Parts
    <3>2. ClaimOf(q) = q.old /\ ClaimOf(p) = q.old
      BY <1>3, <1>10, <1>12, <2>1, <2>2, <2>5, <3>1 DEF ClaimOf, Parts
    <3> QED  BY <1>5, <3>1, <3>2
  <2>6. CASE op = "remove"
    <3>1. q.wrote /\ Step(p) # "none"
      BY <1>6, <1>12, <2>1, <2>2, <2>6 DEF HasWritten, Parts
    <3>2. ClaimOf(q) = q.old /\ ClaimOf(p) = q.old
      BY <1>3, <1>10, <1>12, <2>1, <2>2, <2>6, <3>1 DEF ClaimOf, Parts
    <3> QED  BY <1>5, <3>1, <3>2
  <2>7. CASE op = "details"
    <3>1. ~ q.wrote
      BY <1>6, <1>12, <2>7 DEF HasWritten
    <3> QED  BY <1>5, <2>1, <2>2, <2>7, <3>1
  <2> QED  BY <2>2, <2>3, <2>4, <2>5, <2>6, <2>7
<1>17. ASSUME Releasing(r)  PROVE ClaimNow(r) = q.old /\ ClaimNext(r) \notin Links
  <2>1. Step(q) = "release" /\ rows' = rows
    BY <1>17 DEF Releasing, q
  <2>2. \/ op \in {"patch", "update"} /\ Step(p) = "reserve"
        \/ op = "remove" /\ Step(p) = "none"
    BY <1>3, <1>2, <2>1, Table
  <2>3. h \in Ids
    BY <1>8, <1>9, <2>2
  <2>4. ClaimNow(r) = q.old
    <3>1. CASE op = "patch"
      <4>1. ~ q.wrote
        BY <1>6, <1>12, <2>1, <3>1 DEF HasWritten
      <4>2. rows[h] = q.old
        BY <2>3, <1>7, <1>9, <1>12, <3>1 DEF RowDue
      <4> QED  BY <1>5, <4>1, <4>2
    <3>2. CASE op \in {"update", "remove"}
      <4>1. q.wrote
        BY <1>6, <1>12, <2>1, <3>2 DEF HasWritten
      <4>2. ClaimOf(q) = q.old
        BY <1>12, <2>1, <3>2 DEF ClaimOf
      <4> QED  BY <1>5, <4>1, <4>2
    <3> QED  BY <2>2, <3>1, <3>2
  <2>5. ClaimNext(r) \notin Links
    <3>1. CASE op \in {"patch", "update"}
      <4>1. ClaimOf(p) = NoLink
        BY <2>2, <3>1 DEF ClaimOf
      <4> QED  BY <1>4, <1>5, <2>2, <3>1, <4>1
    <3>2. CASE op = "remove"
      <4>1. q.wrote
        BY <1>6, <1>12, <2>1, <3>2 DEF HasWritten
      <4>2. rows[h] = Gone
        BY <2>3, <1>7, <1>9, <1>12, <3>2, <4>1 DEF RowDue
      <4> QED  BY <1>4, <1>5, <2>1, <2>2, <3>2, <4>2
    <3> QED  BY <2>2, <3>1, <3>2
  <2> QED  BY <2>4, <2>5
<1>18. ASSUME Reserving(r)
       PROVE  /\ ClaimNow(r) = NoLink /\ ClaimNext(r) = q.link
              /\ q.link \in used => q.link \in suspect'
  <2>1. /\ Step(q) = "reserve" /\ rows' = rows /\ q.link \in Links
        /\ q.link \in used /\ (q.link \in q.raced \/ NotLookedUp(q)) => q.link \in suspect'
    BY <1>18 DEF Reserving, q
  <2>2. \/ op = "create" /\ Step(p) = "hostQuestions"
        \/ op = "clone" /\ Step(p) = "none"
        \/ op = "patch" /\ Step(p) = "write"
        \/ op = "update" /\ Step(p) = "none"
    BY <1>3, <1>2, <2>1, Table
  <2>3. q.wrote
    BY <1>6, <1>12, <2>1, <2>2 DEF HasWritten
  <2>4. h \in Ids
    BY <1>8, <2>3
  <2>5. ClaimNow(r) = NoLink
    BY <1>5, <2>1, <2>3 DEF ClaimOf
  <2>6. ClaimNext(r) = q.link
    <3>1. CASE op \in {"create", "patch"}
      <4>1. ClaimOf(p) = q.link
        BY <1>3, <1>10, <2>2, <3>1 DEF ClaimOf
      <4> QED  BY <1>5, <2>2, <3>1, <4>1
    <3>2. CASE op \in {"clone", "update"}
      <4>1. rows[h] = q.link
        BY <1>7, <1>9, <1>12, <2>3, <2>4, <3>2 DEF RowDue
      <4> QED  BY <1>5, <2>1, <2>2, <3>2, <4>1
    <3> QED  BY <2>2, <3>1, <3>2
  <2>7. LookedUp(q) \/ NotLookedUp(q)
    BY <1>12, <2>1, <2>2 DEF LookedUp, NotLookedUp
  <2>8. q.link \in used => q.link \in suspect'
    BY <1>2, <2>1, <2>7 DEF LinkFree
  <2> QED  BY <2>5, <2>6, <2>8
<1> QED
  BY <1>13, <1>14, <1>15, <1>16, <1>17, <1>18 DEF q, h

LEMMA AloneOne ==
    ASSUME CoreInv, NEW r \in Requests, Working(r), HandlersInv', MovingOn(r, TRUE),
           request[r].alone, NEW l \in Links, One(l), ~ Dirty(l)',
           Writing(r) \/ Deleting(r) \/ Releasing(r) \/ Reserving(r) \/ Filling(r)
    PROVE  One(l)'
<1>1. PICK h : h = request[r].id
  OBVIOUS
<1>2. r \in InFlight /\ OthersKept(r) /\ Goes(r, request[r].id, request[r].link, TRUE)
  BY DEF MovingOn, Moving
<1>3. Step(request[r]) \notin {"choose", "reread", "insert"}
  BY DEF Writing, Deleting, Releasing, Reserving, Filling, Parts
<1>4. h \in Ids
  BY <1>1, <1>2, <1>3, AtStep
<1>5. request'[r].todo # <<>> => request'[r].id = h
  BY <1>1, <1>2 DEF Goes
<1>6. \A i \in Ids \ {h} : rows'[i] = rows[i]
  BY <1>1, <1>4 DEF Writing, Deleting, Releasing, Reserving, Filling, CoreInv, TypeOK
<1>7. \A i \in Ids \ {h} : Claims(i, l)' <=> Claims(i, l)
  BY <1>1, <1>2, <1>4, <1>5, <1>6, OthersClaims
<1>8. (Claims(h, l) <=> ClaimNow(r) = l) /\ (Claims(h, l)' <=> ClaimNext(r) = l)
  BY <1>1, <1>4, AloneMoves
<1>9. l \notin suspect'
  BY DEF Dirty
<1>10. CASE Writing(r) \/ Deleting(r) \/ Filling(r)
  <2>1. ClaimNext(r) = ClaimNow(r) /\ used' = used
    BY <1>10, AloneTable DEF Writing, Deleting, Filling
  <2> QED  BY <1>4, <1>7, <1>8, <2>1, ClaimsMove
<1>11. CASE Releasing(r)
  <2>1. ClaimNow(r) = request[r].old /\ ClaimNext(r) # l /\ used' = used \ {request[r].old}
    BY <1>11, AloneTable DEF Releasing
  <2> QED  BY <1>4, <1>7, <1>8, <2>1, ClaimsMove
<1>12. CASE Reserving(r)
  <2>1. /\ ClaimNow(r) = NoLink /\ ClaimNext(r) = request[r].link
        /\ request[r].link \in used => request[r].link \in suspect'
        /\ used' = used \cup {request[r].link} /\ NoLink \notin Links
    BY <1>12, AloneTable, EventLinksAssumption DEF Reserving
  <2>2. CASE l = request[r].link
    BY <1>4, <1>7, <1>8, <1>9, <2>1, <2>2, ClaimsMove
  <2>3. CASE l # request[r].link
    BY <1>4, <1>7, <1>8, <2>1, <2>3, ClaimsMove
  <2> QED  BY <2>2, <2>3
<1> QED  BY <1>10, <1>11, <1>12

LEMMA InsertOne ==
    ASSUME CoreInv, NEW r \in Requests, HandlersInv', NEW l \in Links, One(l),
           NEW i \in Ids, NEW k \in Links, Inserting(r, i, k)
    PROVE  One(l)'
<1> DEFINE q == request[r]
           p == request'[r]
<1>1. /\ Step(q) = "insert" /\ rows[i] = Unused /\ rows' = [rows EXCEPT ![i] = k]
      /\ used' = used /\ r \in InFlight /\ OthersKept(r) /\ Moving(r, i, k, TRUE)
  BY DEF Inserting, Moving
<1>2. ~ q.wrote /\ q.call.op \in Ops
  BY <1>1, AtStep, Flying
<1>3. /\ p.todo # <<>> => p.id = i
      /\ p.todo # <<>> => p.call = q.call /\ p.wrote = TRUE /\ p.alone = q.alone
      /\ <<Step(q), Step(p)>> \in Follows[q.call.op]
  BY <1>1 DEF Moving, Goes
<1>4. \A j \in Ids \ {i} : Claims(j, l)' <=> Claims(j, l)
  BY <1>1, <1>2, <1>3, OthersClaims DEF CoreInv, TypeOK
<1>5. ~ Claims(i, l)
  <2>1. \A s \in InFlight : request[s].id # i
    <3> SUFFICES ASSUME NEW s \in InFlight PROVE request[s].id # i
      OBVIOUS
    <3>1. request[s].id = NoId \/ rows[request[s].id] # Unused
      BY DEF CoreInv, HandlersInv, HandlerInv, HasEvent, InFlight
    <3> QED  BY <1>1, <3>1, EventLinksAssumption
  <2>2. Writers(i) = {}
    BY <2>1 DEF Writers
  <2> QED  BY <1>1, <2>2, EventLinksAssumption DEF Claims
<1>6. ~ Claims(i, l)'
  <2>1. Step(p) \in {"reserve", "hostQuestions"} /\ (Step(p) = "hostQuestions" => q.call.op = "clone")
    BY <1>1, <1>2, <1>3, Table
  <2>2. p.todo # <<>>
    BY <2>1 DEF Step
  <2>3. r \in InFlight' /\ r \in Writers(i)'
    BY <1>3, <2>2 DEF InFlight, Writers
  <2>4. ClaimOf(p) = NoLink
    <3>1. p.call.op = q.call.op
      BY <1>3, <2>2
    <3> HIDE DEF p, q
    <3> QED  BY <2>1, <3>1 DEF ClaimOf
  <2>5. ASSUME NEW s \in Writers(i)', s # r  PROVE FALSE
    <3>1. s \in InFlight /\ request[s].id = i /\ request[s].id = request'[s].id
      BY <1>1, <2>5 DEF Writers, InFlight, OthersKept, Kept
    <3>2. request[s].id = NoId \/ rows[request[s].id] # Unused
      BY <3>1 DEF CoreInv, HandlersInv, HandlerInv, HasEvent, InFlight
    <3> QED  BY <1>1, <3>1, <3>2, EventLinksAssumption
  <2>6. NoLink # l
    BY EventLinksAssumption
  <2> HIDE DEF p, q
  <2> QED  BY <2>3, <2>4, <2>5, <2>6 DEF Claims, p
<1> QED  BY <1>1, <1>4, <1>5, <1>6, ClaimsMove

LEMMA BreakOne ==
    ASSUME CoreInv, NEW r \in Requests, HandlersInv', NEW l \in Links, One(l), Breaking(r),
           request[r].alone, ~ Dirty(l)'
    PROVE  One(l)'
<1> DEFINE q == request[r]
<1>1. /\ r \in InFlight /\ OthersKept(r) /\ q.wrote /\ rows' = rows /\ used' = used
      /\ request'[r].todo = <<>> /\ l \notin LinksOf(q)
  BY IdleRests DEF Breaking, Ended, Stores, Dirty
<1>2. /\ WellFormed(q) /\ HasEvent(q) /\ AloneThere(r) /\ q.call.op \in Ops
  BY <1>1, Flying DEF HandlerInv
<1>3. PICK h : h = q.id
  OBVIOUS
<1>4. h \in Ids /\ h # NoId /\ r \in Requests
  BY <1>1, <1>2, <1>3, EventLinksAssumption DEF HasEvent
<1>5. \A i \in Ids \ {h} : Claims(i, l)' <=> Claims(i, l)
  BY <1>1, <1>3, <1>4, OthersClaims
<1>6. NoLink # l /\ Gone # l
  BY EventLinksAssumption
<1>7. ~ Claims(h, l)
  <2>1. Claims(h, l) <=> ClaimNow(r) = l
    BY <1>1, <1>3, <1>4, AloneClaims DEF CoreInv
  <2>2. ClaimNow(r) = ClaimOf(q)
    BY <1>1 DEF ClaimNow
  <2> HIDE DEF q
  <2>3. ClaimOf(q) # l
    BY <1>1, <1>2, <1>6, ClaimIn
  <2> QED  BY <2>1, <2>2, <2>3
<1>8. ~ Claims(h, l)'
  <2>1. \A s \in InFlight' \ {r} : request'[s].id # h
    BY <1>1, <1>3, <1>4, StaysAlone
  <2>2. Writers(h)' = {}
    BY <1>1, <2>1 DEF Writers, InFlight
  <2>3. rows[h] = RowDue(q)
    BY <1>1, <1>2, <1>3, <1>4 DEF AloneThere
  <2> HIDE DEF q
  <2>4. RowDue(q) \in LinksOf(q) \cup {Gone, NoLink}
    <3>1. q.call.op \notin {"details"}
      BY <1>1, <1>2 DEF WellFormed, HasWritten
    <3>2. q.link \in LinksOf(q) \cup {NoLink}
      BY DEF LinksOf
    <3>3. q.call.op \in {"patch", "update", "remove"} => q.old \in LinksOf(q) \cup {NoLink}
      BY DEF LinksOf
    <3> QED  BY <1>1, <1>2, <3>1, <3>2, <3>3 DEF RowDue, Makes, Ops
  <2> QED  BY <1>1, <1>6, <2>2, <2>3, <2>4 DEF Claims
<1> QED  BY <1>1, <1>4, <1>5, <1>7, <1>8, ClaimsMove

(* A handler that is not alone on its event changes only what is in doubt.  *)
RowDoubted(r) ==
    ~ request[r].alone /\ IsRow(request[r].id) =>
        \/ ~ request[r].wrote /\ rows[request[r].id] = request[r].old
        \/ Dirty(rows[request[r].id])

AllNoneAlone ==
    \A i \in Ids : (\E r \in InFlight : ~ request[r].alone /\ request[r].id = i) =>
        \A l : Claims(i, l) => rows[i] = l
LEMMA NoneAloneAll == HandlersInv => AllNoneAlone
BY NoneAlone DEF AllNoneAlone
LEMMA NoneAloneNext == HandlersInv' => AllNoneAlone'
BY NoneAloneAll, PTL

LEMMA OverlapOne ==
    ASSUME CoreInv, NEW r \in Requests, Working(r), HandlersInv', RowDoubted(r),
           request[r].alone = FALSE, NEW l \in Links, One(l), ~ Dirty(l), ~ Dirty(l)',
           \/ Breaking(r)
           \/ MovingOn(r, TRUE) /\ \/ Writing(r) \/ Deleting(r) \/ Releasing(r)
                                   \/ Reserving(r) \/ Filling(r)
           \/ MovingOn(r, TRUE) /\ UNCHANGED Stores /\ request[r].call.op \in {"patch", "update"}
    PROVE  One(l)'
<1> DEFINE q == request[r]
           p == request'[r]
           op == q.call.op
<1>1. /\ r \in InFlight /\ OthersKept(r) /\ op \in Ops /\ WellFormed(q) /\ HasEvent(q)
      /\ q \in RequestType /\ <<Step(q), NextStep(Tail(q.todo))>> \in Follows[op]
  BY WorkDoes, Flying DEF HandlerInv, Going
<1>2. PICK h : h = q.id
  OBVIOUS
<1>3. h \in Ids /\ h # NoId /\ NoLink \notin Links /\ Gone \notin Links
  BY <1>1, <1>2, MakersAlone, EventLinksAssumption
<1>4. l \notin LinksOf(q)
  BY MovedMarks
<1>5. p.todo # <<>> => p.id = h /\ p.alone = FALSE /\ p.wrote = TRUE
  BY <1>2, IdleRests DEF MovingOn, Moving, Goes, Breaking, Ended
<1>6. \A i \in Ids \ {h} : rows'[i] = rows[i]
  BY <1>2, <1>3 DEF Writing, Deleting, Releasing, Reserving, Filling, Breaking, Stores,
                    CoreInv, TypeOK
<1>7. \A i \in Ids \ {h} : Claims(i, l)' <=> Claims(i, l)
  BY <1>1, <1>2, <1>3, <1>5, <1>6, OthersClaims
<1>8. CASE op = "details"
  <2>1. q.wrote = FALSE
    BY <1>1, <1>8 DEF WellFormed, HasWritten
  <2>2. ~ Breaking(r)
    BY <2>1 DEF Breaking
  <2>3. Step(q) \in {"writeDetail", "writeBody"}
    <3> HIDE DEF q
    <3> QED  BY <1>1, <1>8 DEF Follows, Ops
  <2>4. Filling(r) /\ Step(q) = "writeBody"
    BY <1>8, <2>2, <2>3 DEF Writing, Deleting, Releasing, Reserving, Filling, Parts
  <2>5. p.todo = <<>>
    <3>1. p.todo # <<>> => Step(p) # "none"
      BY <1>1, <2>4, Ahead DEF Filling, MovingOn
    <3>2. <<Step(q), Step(p)>> \in Follows[op]
      BY <2>4 DEF Filling, MovingOn, Moving, Goes
    <3> HIDE DEF p, q, op
    <3> QED  BY <1>1, <2>4, <3>1, <3>2, Table
  <2>6. r \notin Writers(h) /\ r \notin Writers(h)' /\ rows'[h] = rows[h] /\ used' = used
    BY <2>1, <2>4, <2>5 DEF Writers, InFlight, Filling
  <2>7. Claims(h, l)' <=> Claims(h, l)
    BY <1>1, <1>3, <2>6, Elsewhere
  <2> QED  BY <1>3, <1>7, <2>6, <2>7, ClaimsMove
<1>9. CASE op # "details"
  <2>1. op \in {"patch", "update", "remove"} \/ (q.wrote /\ op \in {"create", "clone"})
    BY <1>1, <1>9 DEF HasEvent, Makes, Ops
  <2>2. rows[h] # l
    <3>1. ASSUME rows[h] = l  PROVE FALSE
      <4>1. IsRow(q.id)
        BY <1>2, <3>1 DEF IsRow
      <4>2. ~ q.wrote /\ q.old = l
        BY <1>2, <3>1, <4>1 DEF RowDoubted
      <4>3. op \in {"patch", "update", "remove"}
        BY <2>1, <4>2
      <4> HIDE DEF q
      <4> QED  BY <1>3, <1>4, <4>2, <4>3 DEF LinksOf, op
    <3> QED  BY <3>1
  <2>3. ~ Claims(h, l)
    <3>1. Claims(h, l) => rows[h] = l
      BY <1>1, <1>2, <1>3, NoneAloneAll DEF AllNoneAlone, CoreInv
    <3> QED  BY <2>2, <3>1
  <2>4. rows'[h] # l
    <3>1. CASE Writing(r)
      <4>1. rows'[h] = NewLink(r)
        BY <1>2, <1>3, <3>1 DEF Writing, CoreInv, TypeOK
      <4>2. NewLink(r) = IF q.link = NoLink THEN rows[h] ELSE q.link
        BY <1>2 DEF NewLink
      <4>3. q.link \in LinksOf(q) \cup {NoLink}
        BY DEF LinksOf
      <4> QED  BY <1>4, <2>2, <4>1, <4>2, <4>3
    <3>2. CASE Deleting(r)
      <4>1. rows'[h] = Gone
        BY <1>2, <1>3, <3>2 DEF Deleting, CoreInv, TypeOK
      <4> QED  BY <1>3, <4>1
    <3>3. CASE ~ Writing(r) /\ ~ Deleting(r)
      <4>1. rows' = rows
        BY <3>3 DEF Releasing, Reserving, Filling, Breaking, Stores
      <4> QED  BY <2>2, <4>1
    <3> QED  BY <3>1, <3>2, <3>3
  <2>5. ~ Claims(h, l)'
    <3>1. CASE p.todo # <<>>
      <4>1. r \in InFlight' /\ p.id = h /\ p.alone = FALSE
        BY <1>1, <1>5, <3>1 DEF InFlight
      <4>2. Claims(h, l)' => rows'[h] = l
        BY <1>3, <4>1, NoneAloneNext DEF AllNoneAlone
      <4> QED  BY <2>4, <4>2
    <3>2. CASE p.todo = <<>>
      <4>1. \A s \in Writers(h)' : ~ request'[s].alone
        <5> SUFFICES ASSUME NEW s \in Writers(h)' PROVE ~ request'[s].alone
          OBVIOUS
        <5>1. s # r /\ s \in Requests /\ request'[s].id = h
          BY <3>2 DEF Writers, InFlight
        <5>2. Kept(s) /\ s \in InFlight
          BY <1>1, <5>1 DEF OthersKept, Kept, Writers, InFlight
        <5>3. HandlersInv /\ ~ request[r].alone /\ request[r].id \in Ids
          BY <1>2, <1>3 DEF CoreInv
        <5>4. \A o \in InFlight : request[o].id = request[r].id => ~ request[o].alone
          BY <1>1, <5>3, NoneAlone
        <5>5. ~ request[s].alone
          BY <1>2, <5>1, <5>2, <5>4 DEF Kept
        <5> QED  BY <5>2, <5>5 DEF Kept
      <4> QED  BY <2>4, <4>1 DEF Claims
    <3> QED  BY <3>1, <3>2
  <2>6. l \in used' <=> l \in used
    <3>1. CASE Releasing(r)
      <4>1. used' = used \ {q.old} /\ Step(q) = "release"
        BY <3>1 DEF Releasing
      <4> HIDE DEF q
      <4>2. op \in {"patch", "update", "remove"}
        BY <1>1, <4>1, Table
      <4>3. q.old \in LinksOf(q) \cup {NoLink}
        BY <4>2 DEF LinksOf, op
      <4> QED  BY <1>3, <1>4, <4>1, <4>3
    <3>2. CASE Reserving(r)
      <4>1. used' = used \cup {q.link}
        BY <3>2 DEF Reserving
      <4>2. q.link \in LinksOf(q) \cup {NoLink}
        BY DEF LinksOf
      <4> QED  BY <1>3, <1>4, <4>1, <4>2
    <3>3. CASE ~ Releasing(r) /\ ~ Reserving(r)
      BY <3>3 DEF Writing, Deleting, Filling, Breaking, Stores
    <3> QED  BY <3>1, <3>2, <3>3
  <2> QED  BY <1>3, <1>7, <2>3, <2>5, <2>6, ClaimsMove
<1> QED  BY <1>8, <1>9

LEMMA LinksParts ==
    LinksInv <=> /\ \A l \in Links : ~ Dirty(l) => One(l)
                 /\ \A r \in InFlight : RowDoubted(r)
<1>1. ASSUME NEW r \in InFlight
      PROVE  RowDoubted(r) <=>
                 (~ request[r].alone /\ IsRow(request[r].id) =>
                    \/ ~ request[r].wrote /\ rows[request[r].id] = request[r].old
                    \/ Dirty(rows[request[r].id]))
  BY DEF RowDoubted
<1> QED  BY <1>1 DEF LinksInv, One

LEMMA LinksNext ==
    (LinksInv <=> /\ \A l \in Links : ~ Dirty(l) => One(l)
                  /\ \A r \in InFlight : RowDoubted(r))'
BY LinksParts, PTL

LEMMA LinksOne ==
    ASSUME CoreInv, LinksInv, NEW r \in Requests, Working(r), HandlersInv'
    PROVE  \A l \in Links : ~ Dirty(l)' => One(l)'
<1> SUFFICES ASSUME NEW l \in Links, ~ Dirty(l)'  PROVE One(l)'
  OBVIOUS
<1>1. ~ Dirty(l) /\ One(l) /\ r \in InFlight /\ RowDoubted(r)
  BY DirtyWorks, LinksParts, WorkDoes
<1>2. request[r].alone \in BOOLEAN
  BY <1>1, Flying DEF RequestType
<1>3. CASE Quiet(r)
  BY <1>1, <1>3, QuietOne
<1>4. CASE \E i \in Ids, k \in Links : Inserting(r, i, k)
  BY <1>1, <1>4, InsertOne
<1>5. CASE Breaking(r)
  BY <1>1, <1>2, <1>5, BreakOne, OverlapOne
<1>6. CASE MovingOn(r, TRUE) /\ \/ Writing(r) \/ Deleting(r) \/ Releasing(r)
                                \/ Reserving(r) \/ Filling(r)
  <2>1. CASE request[r].alone
    BY <1>1, <1>6, <2>1, AloneOne
  <2>2. CASE request[r].alone = FALSE
    BY <1>1, <1>6, <2>2, OverlapOne
  <2> QED  BY <1>2, <2>1, <2>2
<1>7. CASE /\ MovingOn(r, TRUE) /\ UNCHANGED Stores
           /\ Step(request[r]) = "write" /\ request[r].call.op \in {"patch", "update"}
           /\ ~ IsRow(request[r].id)
  <2>1. ~ request[r].alone
    BY <1>7, AloneTable
  <2>2. request[r].alone = FALSE
    BY <1>2, <2>1
  <2> QED  BY <1>1, <1>7, <2>2, OverlapOne
<1> QED  BY <1>3, <1>4, <1>5, <1>6, <1>7, WorkKinds

LEMMA LinksRows ==
    ASSUME CoreInv, LinksInv, NEW r \in Requests, Working(r), NEW s \in InFlight'
    PROVE  RowDoubted(s)'
<1>1. /\ r \in InFlight /\ OthersKept(r)
      /\ \A i \in Ids : rows'[i] # rows[i] => rows[i] = Unused \/ i = request[r].id
  BY WorkDoes
<1>2. /\ rows \in [Ids -> Links \cup {Unused, Gone}] /\ rows' \in [Ids -> Links \cup {Unused, Gone}]
      /\ Unused \notin Links /\ Gone \notin Links /\ NoId \notin Ids /\ NoLink \notin Links
  BY WorkDoes, EventLinksAssumption DEF CoreInv, TypeOK
<1>3. CASE s # r
  <2>1. Kept(s) /\ s \in InFlight /\ s \in Requests
    BY <1>1, <1>3 DEF OthersKept, Kept, InFlight
  <2>2. RowDoubted(s) /\ HasEvent(request[s])
    BY <2>1, LinksParts DEF CoreInv, HandlersInv, HandlerInv
  <2> SUFFICES ASSUME ~ request[s].alone, IsRow(request[s].id)'
               PROVE  \/ ~ request[s].wrote /\ rows'[request[s].id] = request[s].old
                      \/ \A l : l = rows'[request[s].id] => Dirty(l)'
    BY <2>1 DEF RowDoubted, Kept, IsRow
  <2>3. PICK h : h = request[s].id
    OBVIOUS
  <2>4. h \in Ids /\ rows[h] # Unused /\ rows'[h] \in Links
    BY <2>1, <2>2, <2>3 DEF HasEvent, IsRow, Kept
  <2>5. CASE rows'[h] = rows[h]
    <3>1. \/ ~ request[s].wrote /\ rows[h] = request[s].old
          \/ Dirty(rows[h])
      BY <2>2, <2>3, <2>4, <2>5 DEF RowDoubted, IsRow
    <3>2. ASSUME NEW l, l = rows[h], Dirty(rows[h])  PROVE Dirty(l)'
      BY <3>2, DirtyWorks
    <3> QED  BY <2>3, <2>5, <3>1, <3>2
  <2>6. CASE rows'[h] # rows[h]
    <3>1. h = request[r].id
      BY <1>1, <2>4, <2>6
    <3>2. request[r].alone = FALSE
      <4>1. request[r].alone \in BOOLEAN /\ AloneThere(r)
        BY <1>1, Flying DEF HandlerInv, RequestType
      <4> QED  BY <1>2, <1>3, <2>1, <2>3, <2>4, <3>1, <4>1 DEF AloneThere
    <3>3. ~ Quiet(r) /\ ~ Breaking(r) /\ ~ Releasing(r) /\ ~ Reserving(r) /\ ~ Filling(r)
      BY <2>6 DEF Quiet, Breaking, Releasing, Reserving, Filling, Stores
    <3>4. ~ \E i \in Ids, k \in Links : Inserting(r, i, k)
      BY <1>1, <3>2, MakersAlone DEF Inserting
    <3>5. ~ Deleting(r)
      BY <1>2, <2>4, <3>1 DEF Deleting
    <3>6. Writing(r) /\ MovingOn(r, TRUE)
      BY <2>6, <3>3, <3>4, <3>5, WorkKinds DEF Stores
    <3>7. rows'[h] = NewLink(r)
      BY <1>2, <2>4, <3>1, <3>6 DEF Writing
    <3>8. rows'[h] = request[r].link
      BY <2>6, <3>1, <3>7 DEF NewLink
    <3>9. rows'[h] \in LinksOf(request[r])
      BY <1>2, <2>4, <3>8 DEF LinksOf
    <3>10. \A l \in LinksOf(request[r]) : Dirty(l)'
      BY <3>2, <3>6, MovedMarks
    <3> QED  BY <2>3, <3>9, <3>10
  <2> QED  BY <2>5, <2>6
<1>4. CASE s = r
  <2> SUFFICES ASSUME ~ request'[r].alone, IsRow(request[r].id)'
               PROVE  \/ ~ request'[r].wrote /\ rows'[request'[r].id] = request'[r].old
                      \/ \A l : l = rows'[request'[r].id] => Dirty(l)'
    BY <1>4 DEF RowDoubted, IsRow
  <2>1. request'[r].todo # <<>>
    BY <1>4 DEF InFlight
  <2>2. PICK h : h = request'[r].id
    OBVIOUS
  <2>3. rows'[h] \in Links
    BY <2>2 DEF IsRow
  <2>4. ~ Breaking(r) /\ ~ Refusing(r)
    BY <2>1, IdleRests DEF Breaking, Refusing, Ended
  <2>5. ASSUME NEW id, NEW link, NEW wrote, Moving(r, id, link, wrote)
        PROVE  ~ request[r].alone /\ request'[r].id = id /\ request'[r].old = request[r].old
               /\ request'[r].wrote = wrote
    BY <2>1, <2>5 DEF Moving, Goes
  <2>6. ~ (\E i \in Ids, k \in Links : Inserting(r, i, k))
        /\ ~ (\E k \in Links : Choosing(r, k))
    <3>1. ASSUME NEW i \in Ids, NEW k \in Links, Inserting(r, i, k)  PROVE FALSE
      <4>1. ~ request[r].alone /\ Step(request[r]) = "insert"
        BY <2>5, <3>1 DEF Inserting
      <4> QED  BY <1>1, <4>1, MakersAlone
    <3>2. ASSUME NEW k \in Links, Choosing(r, k)  PROVE FALSE
      <4>1. ~ request[r].alone /\ Step(request[r]) = "choose"
        BY <2>5, <3>2 DEF Choosing
      <4>2. Makes(request[r]) /\ ~ request[r].wrote
        <5>1. request[r].call.op \in Ops /\ Step(request[r]) = Head(request[r].todo)
              /\ Going(request[r].call.op, request[r].todo)
          BY <1>1, Flying
        <5> QED  BY <1>1, <4>1, <5>1, AtStep, Table DEF Going, Makes
      <4>3. HasEvent(request[r])
        BY <1>1, Flying DEF HandlerInv
      <4> QED  BY <4>1, <4>2, <4>3 DEF HasEvent
    <3> QED  BY <3>1, <3>2
  <2>7. PICK w : MovingOn(r, w) /\ (w = TRUE \/ (w = request[r].wrote /\ UNCHANGED Stores))
    BY <2>4, <2>6 DEF Working, Passing, Skipping, Writing, Deleting, Releasing, Reserving,
                      Filling
  <2>8. /\ ~ request[r].alone /\ h = request[r].id /\ request'[r].old = request[r].old
        /\ request'[r].wrote = w
    BY <2>2, <2>5, <2>7 DEF MovingOn
  <2>9. h \in Ids
    BY <1>1, <2>8, MakersAlone
  <2>10. RowDoubted(r) /\ request[r].call.op \in Ops /\ HasEvent(request[r])
    BY <1>1, LinksParts, Flying DEF HandlerInv
  <2>11. CASE w # TRUE
    <3>1. rows' = rows /\ w = request[r].wrote
      BY <2>7, <2>11 DEF Stores
    <3>2. \/ ~ request[r].wrote /\ rows[h] = request[r].old
          \/ Dirty(rows[h])
      BY <2>3, <2>8, <2>10, <3>1 DEF RowDoubted, IsRow
    <3>3. ASSUME NEW l, l = rows[h], Dirty(rows[h])  PROVE Dirty(l)'
      BY <3>3, DirtyWorks
    <3> QED  BY <2>2, <2>8, <3>1, <3>2, <3>3
  <2>12. CASE w = TRUE
    <3>1. \A l \in LinksOf(request[r]) : Dirty(l)'
      BY <2>7, <2>8, <2>12, MovedMarks
    <3>2. CASE rows'[h] = rows[h]
      <4>1. \/ ~ request[r].wrote /\ rows[h] = request[r].old
            \/ Dirty(rows[h])
        BY <2>3, <2>8, <2>10, <3>2 DEF RowDoubted, IsRow
      <4>2. ASSUME NEW l, l = rows[h], Dirty(rows[h])  PROVE Dirty(l)'
        BY <4>2, DirtyWorks
      <4>3. CASE ~ request[r].wrote /\ rows[h] = request[r].old
        <5>1. request[r].call.op \notin {"create", "clone"}
          BY <2>8, <2>10, <4>3 DEF HasEvent, Makes
        <5>2. request[r].call.op # "details"
          <6>1. <<Step(request[r]), Step(request'[r])>> \in Follows[request[r].call.op]
                /\ Step(request'[r]) # "none"
            BY <1>1, <2>1, <2>7, Ahead DEF MovingOn
          <6>2. ASSUME request[r].call.op = "details"  PROVE FALSE
            <7>1. Step(request[r]) = "writeDetail"
              BY <6>1, <6>2 DEF Follows
            <7>2. Passing(r)
              BY <2>4, <2>6, <7>1 DEF Working, Skipping, Writing, Deleting, Releasing, Reserving,
                                      Filling, Parts
            <7>3. MovingOn(r, request[r].wrote)
              BY <7>2 DEF Passing
            <7> QED  BY <2>5, <2>8, <2>12, <4>3, <7>3 DEF MovingOn
          <6> QED  BY <6>2
        <5>3. request[r].old \in LinksOf(request[r])
          BY <1>2, <2>3, <3>2, <4>3, <5>1, <5>2, <2>10 DEF LinksOf, Ops
        <5> QED  BY <2>2, <3>1, <3>2, <4>3, <5>3
      <4> QED  BY <2>2, <3>2, <4>1, <4>2, <4>3
    <3>3. CASE rows'[h] # rows[h]
      <4>1. ~ Deleting(r)
        BY <1>2, <2>3, <2>8, <2>9 DEF Deleting
      <4>2. Writing(r)
        BY <2>4, <2>6, <3>3, <4>1 DEF Working, Passing, Skipping, Releasing, Reserving, Filling,
                                      Stores
      <4>3. rows'[h] = NewLink(r)
        BY <1>2, <2>8, <2>9, <4>2 DEF Writing
      <4>4. rows'[h] = request[r].link
        BY <2>8, <3>3, <4>3 DEF NewLink
      <4>5. rows'[h] \in LinksOf(request[r])
        BY <1>2, <2>3, <4>4 DEF LinksOf
      <4> QED  BY <2>2, <3>1, <4>5
    <3> QED  BY <3>2, <3>3
  <2> QED  BY <2>11, <2>12
<1> QED  BY <1>3, <1>4

LEMMA LinksAsked ==
    ASSUME CoreInv, LinksInv, NEW r \in Requests, NEW call \in Calls, Asked(r, call)
    PROVE  LinksInv'
<1>1. /\ r \notin InFlight /\ UNCHANGED <<rows, used, bodies, suspect, torn>>
      /\ ~ request'[r].wrote /\ NoLink \notin Links /\ Gone \notin Links /\ NoId \notin Ids
  BY EventLinksAssumption DEF Asked
<1>2. ASSUME NEW s \in Requests \ {r}
      PROVE  /\ request'[s].call = request[s].call /\ request'[s].todo = request[s].todo
             /\ request'[s].id = request[s].id /\ request'[s].old = request[s].old
             /\ request'[s].link = request[s].link /\ request'[s].wrote = request[s].wrote
             /\ request'[s].alone <=> request[s].alone /\ ~ Overlaps(s, call)
             /\ s \in InFlight' <=> s \in InFlight
             /\ Step(request'[s]) = Step(request[s])
             /\ ClaimOf(request'[s]) = ClaimOf(request[s])
             /\ LinksOf(request'[s]) = LinksOf(request[s])
             /\ s \in InFlight => s \in Requests /\ WellFormed(request[s]) /\ HasEvent(request[s])
                                  /\ AloneThere(s) /\ request[s].call.op \in Ops
  <2>1. /\ request'[s].call = request[s].call /\ request'[s].todo = request[s].todo
        /\ request'[s].id = request[s].id /\ request'[s].old = request[s].old
        /\ request'[s].link = request[s].link /\ request'[s].wrote = request[s].wrote
        /\ request'[s].alone <=> request[s].alone /\ ~ Overlaps(s, call)
    BY DEF Asked
  <2>2. s \in InFlight' <=> s \in InFlight
    BY <2>1 DEF InFlight
  <2>3. /\ Step(request'[s]) = Step(request[s])
        /\ ClaimOf(request'[s]) = ClaimOf(request[s])
        /\ LinksOf(request'[s]) = LinksOf(request[s])
    BY <2>1, KeptSame
  <2>4. s \in InFlight => s \in Requests /\ WellFormed(request[s]) /\ HasEvent(request[s])
                          /\ AloneThere(s) /\ request[s].call.op \in Ops
    BY Flying DEF HandlerInv
  <2> QED  BY <2>1, <2>2, <2>3, <2>4
<1>3. ASSUME NEW l \in Links, ~ Dirty(l)'  PROVE One(l)'
  <2>1. ~ Dirty(l) /\ One(l)
    BY <1>3, DirtyAsked, LinksParts
  <2>2. ASSUME NEW i \in Ids  PROVE Claims(i, l)' <=> Claims(i, l)
    <3>1. Writers(i)' = Writers(i)
      BY <1>1, <1>2 DEF Writers, InFlight
    <3>2. ASSUME NEW s \in Writers(i)
          PROVE  /\ ClaimOf(request'[s]) = ClaimOf(request[s])
                 /\ (request'[s].alone /\ ClaimOf(request[s]) = l)
                       <=> (request[s].alone /\ ClaimOf(request[s]) = l)
      <4>1. s \in InFlight /\ s \in Requests \ {r} /\ request[s].wrote
        BY <1>1 DEF Writers, InFlight
      <4>2. ~ request'[s].alone => l \notin LinksOf(request[s])
        BY <1>2, <1>3, <4>1 DEF Dirty
      <4>3. ClaimOf(request[s]) \in LinksOf(request[s]) \cup {NoLink}
        BY <1>2, <4>1, ClaimIn
      <4> QED  BY <1>1, <1>2, <4>1, <4>2, <4>3
    <3> QED  BY <1>1, <3>1, <3>2 DEF Claims
  <2> QED  BY <1>1, <2>1, <2>2 DEF One
<1>4. ASSUME NEW s \in InFlight'  PROVE RowDoubted(s)'
  <2>1. CASE s = r
    <3>1. request'[r].alone => TRUE
      OBVIOUS
    <3>2. ~ request'[r].alone => call.op # "clone" /\ call.id # NoId
      BY DEF Asked, Overlaps
    <3>3. ~ request'[r].alone => request'[r].id = call.id /\ request'[r].old = rows[call.id]
      BY <3>2 DEF Asked
    <3> QED  BY <1>1, <2>1, <3>3 DEF RowDoubted
  <2>2. CASE s # r
    <3>1. s \in InFlight /\ s \in Requests \ {r}
      BY <1>2, <2>2 DEF InFlight
    <3>2. RowDoubted(s)
      BY <3>1, LinksParts
    <3> SUFFICES ASSUME ~ request'[s].alone, IsRow(request[s].id)
                 PROVE  \/ ~ request[s].wrote /\ rows[request[s].id] = request[s].old
                        \/ \A l : l = rows[request[s].id] => Dirty(l)'
      BY <1>1, <1>2, <3>1 DEF RowDoubted, IsRow
    <3>3. CASE ~ request[s].alone
      <4>1. ASSUME NEW l, l = rows[request[s].id], Dirty(rows[request[s].id])  PROVE Dirty(l)'
        BY <4>1, DirtyAsked
      <4> QED  BY <3>2, <3>3, <4>1 DEF RowDoubted
    <3>4. CASE request[s].alone
      <4>1. Overlaps(s, call)
        BY <1>2, <3>1, <3>4
      <4>2. request[s].id # NoId /\ rows[request[s].id] = RowDue(request[s])
        BY <1>2, <3>1, <3>4, <4>1 DEF Overlaps, AloneThere
      <4>3. PICK l : l = rows[request[s].id]
        OBVIOUS
      <4>4. l \in Links
        BY <4>3 DEF IsRow
      <4>5. CASE ~ request[s].wrote
        <5>1. ~ Makes(request[s])
          BY <1>2, <3>1, <4>2, <4>5 DEF HasEvent
        <5>2. RowDue(request[s]) = request[s].old
          BY <4>5, <5>1 DEF RowDue
        <5> QED  BY <4>2, <4>5, <5>2
      <4>6. CASE request[s].wrote
        <5>1. l \in LinksOf(request[s])
          <6>1. PICK q : q = request[s]
            OBVIOUS
          <6>2. l = RowDue(q) /\ WellFormed(q) /\ q.wrote /\ q.call.op \in Ops
            BY <1>2, <3>1, <4>2, <4>3, <4>6, <6>1
          <6>3. q.call.op # "details"
            BY <6>2 DEF WellFormed, HasWritten
          <6>4. q.call.op # "remove"
            BY <1>1, <4>4, <6>2 DEF RowDue, Makes
          <6>5. l = IF q.call.op = "patch" THEN q.old ELSE q.link
            BY <6>2, <6>3, <6>4 DEF RowDue, Makes, Ops
          <6>6. l \in LinksOf(q)
            BY <1>1, <4>4, <6>5 DEF LinksOf
          <6> QED  BY <6>1, <6>6
        <5>2. Dirty(l)'
          BY <1>2, <3>1, <4>6, <5>1 DEF Dirty
        <5> QED  BY <4>3, <5>2
      <4> QED  BY <4>5, <4>6
    <3> QED  BY <3>3, <3>4
  <2> QED  BY <2>1, <2>2
<1> QED  BY <1>3, <1>4, LinksNext

LEMMA LinksInit == Init => LinksInv
<1> SUFFICES ASSUME Init PROVE LinksInv
  OBVIOUS
<1>1. InFlight = {}
  BY DEF Init, InFlight, Idle
<1>2. \A i : Writers(i) = {}
  BY <1>1 DEF Writers
<1>3. rows = Given /\ used = {Given[i] : i \in {j \in Ids : Given[j] # Unused}}
  BY DEF Init
<1>4. ASSUME NEW l \in Links  PROVE One(l)
  <2>1. l # Unused
    BY EventLinksAssumption
  <2> QED  BY <1>2, <1>3, <2>1, EventLinksAssumption DEF One, Claims
<1> QED  BY <1>1, <1>4, LinksParts

LEMMA LinksIdle == LinksInv /\ UNCHANGED vars => LinksInv'
<1> SUFFICES ASSUME LinksInv, UNCHANGED vars PROVE LinksInv'
  OBVIOUS
<1>1. UNCHANGED <<rows, used, request, suspect>>
  BY DEF vars
<1>2. \A l : Dirty(l)' <=> Dirty(l)
  BY <1>1 DEF Dirty, InFlight
<1>3. \A i, l : Claims(i, l)' <=> Claims(i, l)
  BY <1>1 DEF Claims, Writers, InFlight
<1> QED  BY <1>1, <1>2, <1>3 DEF LinksInv, InFlight, IsRow

LEMMA LinksCorrect == Spec => [](CoreInv /\ LinksInv)
<1>1. Init => CoreInv /\ LinksInv
  BY CoreInit, LinksInit
<1>2. CoreInv /\ LinksInv /\ [Next]_vars => (CoreInv /\ LinksInv)'
  <2> SUFFICES ASSUME CoreInv, LinksInv, [Next]_vars  PROVE CoreInv' /\ LinksInv'
    OBVIOUS
  <2>1. CoreInv' /\ HandlersInv'
    BY CoreStep DEF CoreInv
  <2>2. CASE UNCHANGED vars
    BY <2>1, <2>2, LinksIdle
  <2>3. CASE Next
    <3>1. PICK r \in Requests : Working(r) \/ \E call \in Calls : Asked(r, call)
      BY <2>3, StepKinds
    <3>2. CASE Working(r)
      <4>1. \A l \in Links : ~ Dirty(l)' => One(l)'
        BY <2>1, <3>2, LinksOne
      <4>2. \A s \in InFlight' : RowDoubted(s)'
        BY <3>2, LinksRows
      <4> QED  BY <2>1, <4>1, <4>2, LinksNext
    <3>3. CASE \E call \in Calls : Asked(r, call)
      BY <2>1, <3>3, LinksAsked
    <3> QED  BY <3>1, <3>2, <3>3
  <2> QED  BY <2>2, <2>3
<1> QED  BY <1>1, <1>2, PTL DEF Spec

(* On a link that nobody is changing, the claims are the rows.              *)
LEMMA SettledClaims ==
    ASSUME CoreInv, LinksInv, NEW l \in Settled
    PROVE  l \in Links /\ One(l) /\ \A i \in Ids : Claims(i, l) <=> rows[i] = l
<1>1. /\ l \in Links /\ l \notin suspect /\ \A r \in InFlight : l \notin LinksOf(request[r])
      /\ NoLink # l /\ Gone # l
  BY EventLinksAssumption DEF Settled
<1>2. ~ Dirty(l) /\ One(l)
  BY <1>1, LinksParts DEF Dirty
<1>3. ASSUME NEW i \in Ids, NEW r \in Writers(i)  PROVE ~ Claims(i, l) /\ rows[i] # l
  <2>1. \A s \in Writers(i) : ClaimOf(request[s]) # l
    <3> SUFFICES ASSUME NEW s \in Writers(i) PROVE ClaimOf(request[s]) # l
      OBVIOUS
    <3>1. s \in InFlight /\ request[s].call.op \in Ops
      BY Flying DEF Writers
    <3> QED  BY <1>1, <3>1, ClaimIn
  <2>2. r \in InFlight /\ request[r].id = i /\ request[r].wrote
    BY DEF Writers
  <2>3. ASSUME rows[i] = l  PROVE FALSE
    <3>1. CASE ~ request[r].alone
      BY <1>1, <1>2, <2>2, <2>3, <3>1, LinksParts DEF RowDoubted, IsRow
    <3>2. CASE request[r].alone
      <4>1. PICK q : q = request[r]
        OBVIOUS
      <4>2. WellFormed(q) /\ q.call.op \in Ops /\ AloneThere(r) /\ q.wrote
        BY <2>2, <4>1, Flying DEF HandlerInv
      <4>3. l = RowDue(q)
        BY <2>2, <2>3, <3>2, <4>1, <4>2, EventLinksAssumption DEF AloneThere
      <4>4. q.call.op \notin {"details", "remove"}
        BY <1>1, <4>2, <4>3 DEF WellFormed, HasWritten, RowDue, Makes
      <4>5. l = IF q.call.op = "patch" THEN q.old ELSE q.link
        BY <4>2, <4>3, <4>4 DEF RowDue, Makes, Ops
      <4>6. l \in LinksOf(q)
        BY <1>1, <4>5 DEF LinksOf
      <4> QED  BY <1>1, <2>2, <4>1, <4>6
    <3> QED  BY <3>1, <3>2
  <2> QED  BY <2>1, <2>2, <2>3 DEF Claims
<1>4. ASSUME NEW i \in Ids, Writers(i) = {}  PROVE Claims(i, l) <=> rows[i] = l
  BY <1>4 DEF Claims
<1> QED  BY <1>1, <1>2, <1>3, <1>4

(* Two events share a link only if the requests that gave it to them raced, *)
(* one of them broke off, or a generated number repeated: the set in Redis  *)
(* is never locked, and it still keeps the links of a team apart.           *)
THEOREM LinksStayApart == Spec => []OneEventPerLink
<1>1. ASSUME CoreInv, LinksInv  PROVE OneEventPerLink
  <2> SUFFICES ASSUME NEW l \in Settled  PROVE Cardinality(HasLink(l)) <= 1
    BY DEF OneEventPerLink
  <2>1. \A i, j \in HasLink(l) : i = j
    BY <1>1, SettledClaims DEF One, HasLink
  <2>2. CASE HasLink(l) = {}
    <3>1. Cardinality({}) = 0
      BY FS_EmptySet
    <3> QED  BY <2>2, <3>1
  <2>3. CASE HasLink(l) # {}
    <3>1. PICK i : HasLink(l) = {i}
      BY <2>1, <2>3
    <3>2. Cardinality({i}) = 1
      BY FS_Singleton
    <3> QED  BY <3>1, <3>2
  <2> QED  BY <2>2, <2>3
<1> QED  BY <1>1, LinksCorrect, PTL

(* A link is reserved if and only if an event has it, so that no link is    *)
(* given away twice and none is refused for ever.                           *)
THEOREM ReservationsCorrect == Spec => []FlagsFollowRows
<1>1. ASSUME CoreInv, LinksInv  PROVE FlagsFollowRows
  BY <1>1, SettledClaims DEF FlagsFollowRows, One, HasLink
<1> QED  BY <1>1, LinksCorrect, PTL

-----------------------------------------------------------------------------
(* The bodies, along the same lines.                                        *)
LEMMA SpoiledWorks ==
    ASSUME CoreInv, NEW r \in Requests, Working(r), NEW i \in Ids, Spoiled(i)
    PROVE  Spoiled(i)'
<1>1. r \in InFlight /\ OthersKept(r) /\ Marking /\ i # NoId
  BY WorkDoes, EventLinksAssumption
<1>2. CASE i \in torn
  BY <1>1, <1>2 DEF Marking, Spoiled
<1>3. ASSUME NEW s \in Writers(i), s # r, ~ request[s].alone
      PROVE  Spoiled(i)'
  <2>1. Kept(s) /\ s \in InFlight'
    BY <1>1, <1>3 DEF OthersKept, Kept, Writers, InFlight
  <2> QED  BY <1>3, <2>1 DEF Spoiled, Kept, Writers
<1>4. ASSUME r \in Writers(i), ~ request[r].alone
      PROVE  Spoiled(i)'
  <2>1. ~ Quiet(r) /\ request[r].id = i
    BY <1>4 DEF Quiet, Writers
  <2>2. ~ \E j \in Ids, k \in Links : Inserting(r, j, k)
    BY <1>1, <1>4, MakersAlone DEF Inserting
  <2> QED  BY <1>1, <2>1, <2>2, <1>4, WorkKinds, MovedMarks
<1> QED  BY <1>2, <1>3, <1>4 DEF Spoiled

BodyDue(i) ==
    IF Writers(i) = {}
    THEN /\ IsRow(i) => bodies[i] = Parts
         /\ ~ IsRow(i) => bodies[i] \subseteq {"eventSetting"}
    ELSE \A r \in Writers(i) : BodyOf(request[r], bodies[i])
LEMMA BodiesParts == BodiesInv <=> \A i \in Ids : ~ Spoiled(i) => BodyDue(i)
BY DEF BodiesInv, BodyDue
LEMMA BodiesNext == (BodiesInv <=> \A i \in Ids : ~ Spoiled(i) => BodyDue(i))'
BY BodiesParts, PTL

(* An event whose row and body stay, and that r does not write.             *)
LEMMA BodyElsewhere ==
    ASSUME CoreInv, NEW r \in Requests, OthersKept(r), NEW i \in Ids, rows'[i] = rows[i],
           bodies'[i] = bodies[i], r \notin Writers(i), r \notin Writers(i)', BodyDue(i)
    PROVE  BodyDue(i)'
<1>1. /\ Writers(i)' = Writers(i)
      /\ \A s \in Writers(i) : BodyOf(request'[s], bodies[i]) = BodyOf(request[s], bodies[i])
  BY Elsewhere
<1> QED  BY <1>1 DEF BodyDue, IsRow

(* The body of the event of a handler that is alone on it, before and after *)
(* a step.                                                                  *)
Whole(row, body) ==
    IF row \in Links THEN body = Parts ELSE body \subseteq {"eventSetting"}

AllBodiesAlone ==
    \A r \in InFlight : request[r].alone /\ request[r].id \in Ids =>
        \A i : i = request[r].id =>
            (BodyDue(i) <=> IF request[r].wrote THEN BodyOf(request[r], bodies[i])
                            ELSE Whole(rows[i], bodies[i]))
LEMMA BodiesAlone == HandlersInv => AllBodiesAlone
<1> SUFFICES ASSUME HandlersInv, NEW r \in InFlight, request[r].alone,
                    request[r].id \in Ids, NEW i, i = request[r].id
             PROVE  BodyDue(i) <=> IF request[r].wrote THEN BodyOf(request[r], bodies[i])
                                   ELSE Whole(rows[i], bodies[i])
  BY DEF AllBodiesAlone
<1>1. Writers(i) = IF request[r].wrote THEN {r} ELSE {}
  BY AloneClaims
<1> QED  BY <1>1 DEF BodyDue, Whole, IsRow
LEMMA BodiesAloneNext == HandlersInv' => AllBodiesAlone'
BY BodiesAlone, PTL

LEMMA BodyTable ==
    ASSUME CoreInv, NEW r \in Requests, MovingOn(r, TRUE), request[r].alone,
           NEW h \in Ids, h = request[r].id,
           Writing(r) \/ Deleting(r) \/ Releasing(r) \/ Reserving(r) \/ Filling(r),
           IF request[r].wrote THEN BodyOf(request[r], bodies[h])
           ELSE Whole(rows[h], bodies[h])
    PROVE  IF request'[r].todo = <<>> THEN Whole(rows'[h], bodies'[h])
           ELSE BodyOf(request'[r], bodies'[h])
<1> DEFINE q == request[r]
           p == request'[r]
           op == q.call.op
           b == bodies[h]
           c == bodies'[h]
<1>1. r \in InFlight /\ Goes(r, q.id, q.link, TRUE)
  BY DEF MovingOn, Moving
<1>2. /\ op \in Ops /\ q \in RequestType /\ q.call \in Calls
      /\ WellFormed(q) /\ AloneThere(r)
      /\ <<Step(q), NextStep(Tail(q.todo))>> \in Follows[op]
  BY <1>1, Flying DEF HandlerInv, Going
<1>3. /\ <<Step(q), Step(p)>> \in Follows[op]
      /\ p.todo # <<>> => p.call = q.call
      /\ p.todo = <<>> <=> Step(p) = "none"
  <2>1. p.todo # <<>> => Step(p) # "none"
    BY <1>1, Ahead DEF MovingOn
  <2>2. p.todo = <<>> => Step(p) = "none"
    BY DEF Step
  <2>3. <<Step(q), Step(p)>> \in Follows[op]
    BY <1>1 DEF Goes
  <2>4. p.todo # <<>> => p.call = q.call
    BY <1>1 DEF Goes
  <2> QED  BY <2>1, <2>2, <2>3, <2>4
<1>4. /\ rows \in [Ids -> Links \cup {Unused, Gone}] /\ Gone \notin Links
      /\ bodies \in [Ids -> SUBSET Parts] /\ b \subseteq Parts /\ h # NoId
  BY EventLinksAssumption DEF CoreInv, TypeOK
<1>5. /\ q.wrote = HasWritten(q)
      /\ op # "create" => q.old \in Links
      /\ op = "update" => q.link \in Links
      /\ op \in {"create", "clone"} /\ q.wrote => q.link \in Links
      /\ Makes(q) <=> op \in {"create", "clone"}
  BY <1>2 DEF WellFormed, Makes
<1>6. rows[h] = RowDue(q)
  BY <1>2, <1>4 DEF AloneThere
<1>7. p.todo # <<>> => p.call.op = op
  BY <1>3
<1>8. NewLink(r) = IF q.link = NoLink THEN rows[h] ELSE q.link
  BY DEF NewLink
<1>9. op = "details" => q.call.parts \subseteq Parts
  BY <1>2, CallOps DEF CallType
<1>10. q.link \in Links \cup {NoLink}
  BY <1>2 DEF RequestType
<1> SUFFICES IF Step(p) = "none" THEN Whole(rows'[h], c) ELSE BodyOf(p, c)
  BY <1>3
<1>11. IF q.wrote THEN BodyOf(q, b) ELSE Whole(rows[h], b)
  OBVIOUS
<1>12. /\ Writing(r) => /\ Step(q) = "write" /\ rows'[h] = NewLink(r) /\ c = b
                        /\ rows[h] \in Links
       /\ Deleting(r) => Step(q) = "delete" /\ c = b
       /\ Releasing(r) => Step(q) = "release" /\ rows' = rows /\ c = b
       /\ Reserving(r) => Step(q) = "reserve" /\ rows' = rows /\ c = b
       /\ Filling(r) => /\ Step(q) \in Parts \cup {"dropQuestions", "dropNotification", "writeBody"}
                        /\ rows' = rows /\ c = Filled(q, b)
  BY <1>4 DEF Writing, Deleting, Releasing, Reserving, Filling, IsRow
<1> HIDE DEF q, p, b, c
<1>13. q.call.op = op
  OBVIOUS
<1> HIDE DEF op
<1>14. CASE op \in {"patch", "update", "details"}
  <2>1. b = Parts
    <3>1. CASE q.wrote
      BY <1>5, <1>11, <1>13, <1>14, <3>1 DEF BodyOf
    <3>2. CASE ~ q.wrote
      <4>1. rows[h] = q.old
        BY <1>5, <1>6, <1>13, <1>14, <3>2 DEF RowDue
      <4> QED  BY <1>5, <1>11, <1>14, <3>2, <4>1 DEF Whole
    <3> QED  BY <3>1, <3>2
  <2>2. c = Parts
    <3>1. CASE Filling(r)
      <4>1. c = Filled(q, b) /\ Step(q) \in Parts \cup {"dropQuestions", "dropNotification", "writeBody"}
        BY <1>12, <3>1
      <4>2. Step(q) \in Parts \/ (Step(q) = "writeBody" /\ op = "details")
        BY <1>2, <1>14, <4>1, Table
      <4> QED  BY <1>9, <1>13, <2>1, <4>1, <4>2 DEF Filled, Parts
    <3>2. CASE ~ Filling(r)
      BY <1>12, <2>1, <3>2
    <3> QED  BY <3>1, <3>2
  <2>3. CASE Step(p) # "none"
    BY <1>3, <1>7, <1>14, <2>2, <2>3 DEF BodyOf, Makes
  <2>4. CASE Step(p) = "none"
    <3>1. \/ op = "patch" /\ Step(q) = "write"
          \/ op = "update" /\ Step(q) = "reserve"
          \/ op = "details" /\ Step(q) = "writeBody"
      BY <1>2, <1>3, <1>12, <1>14, <2>4, Table DEF Parts
    <3>2. rows'[h] \in Links
      <4>1. CASE op = "patch" /\ Step(q) = "write"
        <5>1. Writing(r)
          BY <1>12, <4>1 DEF Parts
        <5> QED  BY <1>8, <1>10, <1>12, <5>1
      <4>2. CASE op = "update" /\ Step(q) = "reserve"
        <5>1. q.wrote /\ rows' = rows
          BY <1>5, <1>12, <1>13, <4>2 DEF HasWritten, Parts
        <5> QED  BY <1>5, <1>6, <1>13, <4>2, <5>1 DEF RowDue
      <4>3. CASE op = "details" /\ Step(q) = "writeBody"
        <5>1. rows' = rows
          BY <1>12, <4>3
        <5> QED  BY <1>5, <1>6, <1>13, <4>3, <5>1 DEF RowDue
      <4> QED  BY <3>1, <4>1, <4>2, <4>3
    <3> QED  BY <2>2, <2>4, <3>2 DEF Whole
  <2> QED  BY <2>3, <2>4
<1>15. CASE op = "remove"
  <2>1. CASE Deleting(r)
    <3>1. Step(p) = "dropQuestions"
      BY <1>2, <1>3, <1>12, <2>1, Table
    <3> QED  BY <1>3, <1>7, <1>15, <3>1 DEF BodyOf, Makes
  <2>2. CASE Filling(r)
    <3>1. \/ Step(q) = "dropQuestions" /\ Step(p) = "dropNotification"
          \/ Step(q) = "dropNotification" /\ Step(p) = "release"
      BY <1>2, <1>3, <1>12, <1>15, <2>2, Table DEF Parts
    <3>2. q.wrote /\ c = Filled(q, b)
      BY <1>5, <1>12, <1>13, <1>15, <2>2, <3>1 DEF HasWritten
    <3>3. Step(q) = "dropNotification" => "hostQuestions" \notin b
      BY <1>5, <1>11, <1>13, <1>15, <3>2 DEF BodyOf
    <3>4. IF Step(q) = "dropQuestions" THEN c = b \ {"hostQuestions"}
          ELSE c = b \ {"notificationInfo"}
      BY <3>1, <3>2 DEF Filled, Parts
    <3> QED  BY <1>3, <1>7, <1>15, <3>1, <3>3, <3>4 DEF BodyOf, Makes
  <2>3. CASE Releasing(r)
    <3>1. Step(q) = "release" /\ Step(p) = "none" /\ rows' = rows /\ c = b
      BY <1>2, <1>3, <1>12, <1>15, <2>3, Table
    <3>2. q.wrote
      BY <1>5, <1>13, <1>15, <3>1 DEF HasWritten
    <3>3. "hostQuestions" \notin b /\ "notificationInfo" \notin b
      BY <1>5, <1>11, <1>13, <1>15, <3>1, <3>2 DEF BodyOf
    <3>4. rows[h] = Gone
      BY <1>5, <1>6, <1>13, <1>15, <3>2 DEF RowDue
    <3> QED  BY <1>4, <3>1, <3>3, <3>4 DEF Whole, Parts
  <2>4. ~ Writing(r) /\ ~ Reserving(r)
    BY <1>2, <1>12, <1>15, Table
  <2> QED  BY <2>1, <2>2, <2>3, <2>4
<1>16. CASE op \in {"create", "clone"}
  <2>1. CASE Reserving(r)
    <3>1. /\ Step(q) = "reserve" /\ rows' = rows /\ c = b
          /\ \/ op = "create" /\ Step(p) = "hostQuestions"
             \/ op = "clone" /\ Step(p) = "none"
      BY <1>2, <1>3, <1>12, <1>16, <2>1, Table
    <3>2. q.wrote
      BY <1>5, <1>13, <1>16, <3>1 DEF HasWritten
    <3>3. CASE op = "create"
      BY <1>3, <1>7, <3>1, <3>3 DEF BodyOf, Makes
    <3>4. CASE op = "clone"
      <4>1. b = Parts
        BY <1>5, <1>11, <1>13, <3>1, <3>2, <3>4 DEF BodyOf
      <4>2. rows[h] \in Links
        BY <1>5, <1>6, <1>13, <1>16, <3>2 DEF RowDue
      <4> QED  BY <3>1, <3>4, <4>1, <4>2 DEF Whole
    <3> QED  BY <1>16, <3>3, <3>4
  <2>2. CASE Filling(r)
    <3>1. /\ \/ Step(q) = "hostQuestions" /\ Step(p) = "notificationInfo"
             \/ Step(q) = "notificationInfo" /\ Step(p) = "eventSetting"
             \/ Step(q) = "eventSetting" /\ op = "create" /\ Step(p) = "none"
             \/ Step(q) = "eventSetting" /\ op = "clone" /\ Step(p) = "reserve"
          /\ rows' = rows /\ c = Filled(q, b)
      BY <1>2, <1>3, <1>12, <1>16, <2>2, Table DEF Parts
    <3>2. q.wrote
      BY <1>5, <1>13, <1>16, <3>1 DEF HasWritten
    <3>3. /\ Step(q) \in {"notificationInfo", "eventSetting"} => "hostQuestions" \in b
          /\ Step(q) = "eventSetting" => "notificationInfo" \in b
      BY <1>5, <1>11, <1>13, <1>16, <3>2 DEF BodyOf
    <3>4. c = b \cup {Step(q)}
      BY <3>1 DEF Filled, Parts
    <3>5. /\ Step(p) \in {"notificationInfo", "eventSetting"} => "hostQuestions" \in c
          /\ Step(p) = "eventSetting" => "notificationInfo" \in c
          /\ Step(p) \in {"reserve", "none"} => c = Parts
      BY <1>4, <3>1, <3>3, <3>4 DEF Parts
    <3>6. rows[h] \in Links
      BY <1>5, <1>6, <1>13, <1>16, <3>2 DEF RowDue
    <3>7. CASE Step(p) # "none"
      <4>1. p.call.op = op /\ Makes(p)
        BY <1>3, <1>7, <1>16, <3>7 DEF Makes
      <4> QED  BY <1>16, <3>5, <3>7, <4>1 DEF BodyOf
    <3>8. CASE Step(p) = "none"
      BY <3>1, <3>5, <3>6, <3>8 DEF Whole
    <3> QED  BY <3>7, <3>8
  <2>3. ~ Writing(r) /\ ~ Deleting(r) /\ ~ Releasing(r)
    BY <1>2, <1>12, <1>16, Table
  <2> QED  BY <2>1, <2>2, <2>3
<1> QED  BY <1>2, <1>14, <1>15, <1>16 DEF Ops

LEMMA BodiesWork ==
    ASSUME CoreInv, BodiesInv, NEW r \in Requests, Working(r), HandlersInv'
    PROVE  BodiesInv'
<1> SUFFICES ASSUME NEW h \in Ids, ~ Spoiled(h)'  PROVE BodyDue(h)'
  BY BodiesNext
<1>1. ~ Spoiled(h) /\ BodyDue(h) /\ r \in InFlight /\ OthersKept(r) /\ h # NoId
  BY SpoiledWorks, BodiesParts, WorkDoes, EventLinksAssumption
<1>2. rows \in [Ids -> Links \cup {Unused, Gone}] /\ bodies \in [Ids -> SUBSET Parts]
      /\ Unused \notin Links
  BY EventLinksAssumption DEF CoreInv, TypeOK
<1>3. CASE Quiet(r)
  <2>1. r \notin Writers(h) /\ r \notin Writers(h)'
    BY <1>3 DEF Quiet, Writers, InFlight
  <2> QED  BY <1>1, <1>3, <2>1, BodyElsewhere DEF Quiet, Stores
<1>4. CASE Breaking(r)
  <2>1. h # request[r].id
    BY <1>1, <1>4 DEF Breaking, Spoiled
  <2>2. r \notin Writers(h) /\ r \notin Writers(h)'
    BY <1>4, <2>1, IdleRests DEF Breaking, Ended, Writers, InFlight
  <2> QED  BY <1>1, <1>4, <2>2, BodyElsewhere DEF Breaking, Stores
<1>5. ASSUME NEW i \in Ids, NEW k \in Links, Inserting(r, i, k)  PROVE BodyDue(h)'
  <2> DEFINE q == request[r]
             p == request'[r]
  <2>1. /\ Step(q) = "insert" /\ rows[i] = Unused /\ rows' = [rows EXCEPT ![i] = k]
        /\ bodies' = bodies /\ Moving(r, i, k, TRUE)
    BY <1>5 DEF Inserting
  <2>2. ~ q.wrote /\ q.call.op \in Ops
    BY <1>1, <2>1, AtStep, Flying
  <2>3. /\ p.todo # <<>> => p.id = i /\ p.call = q.call /\ p.wrote = TRUE
        /\ <<Step(q), Step(p)>> \in Follows[q.call.op]
    BY <2>1 DEF Moving, Goes
  <2>4. CASE h # i
    <3>1. r \notin Writers(h) /\ r \notin Writers(h)'
      BY <2>2, <2>3, <2>4 DEF Writers, InFlight
    <3>2. rows'[h] = rows[h]
      BY <1>2, <2>1, <2>4
    <3> QED  BY <1>1, <2>1, <3>1, <3>2, BodyElsewhere
  <2>5. CASE h = i
    <3>1. ASSUME NEW s \in Writers(h)'  PROVE s = r
      <4> SUFFICES ASSUME s # r PROVE FALSE
        OBVIOUS
      <4>1. s \in InFlight /\ request[s].id = i
        BY <1>1, <2>5 DEF Writers, InFlight, OthersKept, Kept
      <4>2. request[s].id = NoId \/ rows[request[s].id] # Unused
        BY <4>1 DEF CoreInv, HandlersInv, HandlerInv, HasEvent, InFlight
      <4> QED  BY <1>1, <2>1, <2>5, <4>1, <4>2
    <3>2. \/ Step(p) = "reserve" /\ q.call.op = "create"
          \/ Step(p) = "hostQuestions" /\ q.call.op = "clone"
      BY <2>1, <2>2, <2>3, Table
    <3>3. p.todo # <<>> /\ p.call.op = q.call.op
      BY <2>3, <3>2 DEF Step
    <3>4. r \in Writers(h)'
      BY <2>3, <2>5, <3>3 DEF Writers, InFlight
    <3> HIDE DEF p, q
    <3>5. BodyOf(p, bodies'[h])
      BY <3>2, <3>3 DEF BodyOf, Makes
    <3> QED  BY <3>1, <3>4, <3>5 DEF BodyDue, p
  <2> QED  BY <2>4, <2>5
<1>6. CASE MovingOn(r, TRUE) /\ h # request[r].id
  <2>1. request'[r].todo # <<>> => request'[r].id = request[r].id
    BY <1>6 DEF MovingOn, Moving, Goes
  <2>2. r \notin Writers(h) /\ r \notin Writers(h)'
    BY <1>6, <2>1 DEF Writers, InFlight
  <2>3. ~ (\E i \in Ids, k \in Links : Inserting(r, i, k)) => rows'[h] = rows[h] /\ bodies'[h] = bodies[h]
    BY <1>2, <1>6, WorkKinds DEF Quiet, Breaking, Writing, Deleting, Releasing, Reserving,
                                 Filling, Stores
  <2> QED  BY <1>1, <1>5, <2>2, <2>3, BodyElsewhere
<1>7. CASE MovingOn(r, TRUE) /\ h = request[r].id
  <2>1. request[r].alone
    BY <1>1, <1>7, MovedMarks
  <2>2. CASE Writing(r) \/ Deleting(r) \/ Releasing(r) \/ Reserving(r) \/ Filling(r)
    <3>1. IF request[r].wrote THEN BodyOf(request[r], bodies[h])
          ELSE Whole(rows[h], bodies[h])
      BY <1>1, <1>7, <2>1, BodiesAlone DEF AllBodiesAlone, CoreInv
    <3>2. IF request'[r].todo = <<>> THEN Whole(rows'[h], bodies'[h])
           ELSE BodyOf(request'[r], bodies'[h])
      BY <1>7, <2>1, <2>2, <3>1, BodyTable
    <3>3. CASE request'[r].todo = <<>>
      <4>1. \A s \in InFlight' \ {r} : request'[s].id # h
        BY <1>1, <1>7, <2>1, StaysAlone
      <4>2. Writers(h)' = {}
        BY <3>3, <4>1 DEF Writers, InFlight
      <4> QED  BY <3>2, <3>3, <4>2 DEF BodyDue, Whole, IsRow
    <3>4. CASE request'[r].todo # <<>>
      <4>1. r \in InFlight' /\ request'[r].alone /\ request'[r].id = h /\ request'[r].wrote
        BY <1>7, <2>1, <3>4 DEF MovingOn, Moving, Goes, InFlight
      <4> QED  BY <3>2, <3>4, <4>1, BodiesAloneNext DEF AllBodiesAlone
    <3> QED  BY <3>3, <3>4
  <2>3. CASE Step(request[r]) = "write" /\ ~ IsRow(request[r].id)
    BY <1>7, <2>1, <2>3, AloneTable
  <2> QED  BY <1>3, <1>4, <1>5, <2>2, <2>3, WorkKinds
<1> QED  BY <1>3, <1>4, <1>5, <1>6, <1>7, WorkKinds

LEMMA BodiesAsked ==
    ASSUME CoreInv, BodiesInv, NEW r \in Requests, NEW call \in Calls, Asked(r, call)
    PROVE  BodiesInv'
<1> SUFFICES ASSUME NEW i \in Ids, ~ Spoiled(i)'  PROVE BodyDue(i)'
  BY BodiesNext
<1>1. /\ r \notin InFlight /\ UNCHANGED <<rows, used, bodies, suspect, torn>>
      /\ ~ request'[r].wrote
  BY DEF Asked
<1>2. ASSUME NEW s \in Requests \ {r}
      PROVE  /\ request'[s].id = request[s].id /\ request'[s].wrote = request[s].wrote
             /\ request'[s].alone => request[s].alone
             /\ s \in InFlight' <=> s \in InFlight
             /\ \A body : BodyOf(request'[s], body) = BodyOf(request[s], body)
  <2>1. /\ request'[s].call = request[s].call /\ request'[s].todo = request[s].todo
        /\ request'[s].id = request[s].id /\ request'[s].old = request[s].old
        /\ request'[s].link = request[s].link /\ request'[s].wrote = request[s].wrote
        /\ request'[s].alone <=> request[s].alone /\ ~ Overlaps(s, call)
    BY DEF Asked
  <2>2. s \in InFlight' <=> s \in InFlight
    BY <2>1 DEF InFlight
  <2>3. \A body : BodyOf(request'[s], body) = BodyOf(request[s], body)
    BY <2>1, KeptSame
  <2> QED  BY <2>1, <2>2, <2>3
<1>3. Writers(i)' = Writers(i) /\ r \notin Writers(i)
  BY <1>1, <1>2 DEF Writers, InFlight
<1>4. ~ Spoiled(i)
  BY <1>1, <1>2, <1>3 DEF Spoiled, Writers, InFlight
<1>5. \A s \in Writers(i) : BodyOf(request'[s], bodies[i]) = BodyOf(request[s], bodies[i])
  BY <1>2, <1>3 DEF Writers, InFlight
<1>6. BodyDue(i)
  BY <1>4, BodiesParts
<1> QED  BY <1>1, <1>3, <1>5, <1>6 DEF BodyDue, IsRow

LEMMA BodiesInit == Init => BodiesInv
<1> SUFFICES ASSUME Init, NEW i \in Ids PROVE BodyDue(i)
  BY BodiesParts
<1>1. Writers(i) = {}
  BY DEF Init, InFlight, Idle, Writers
<1> QED  BY <1>1, EventLinksAssumption DEF BodyDue, Init, IsRow

LEMMA BodiesIdle == BodiesInv /\ UNCHANGED vars => BodiesInv'
<1> SUFFICES ASSUME BodiesInv, UNCHANGED vars PROVE BodiesInv'
  OBVIOUS
<1>1. UNCHANGED <<rows, bodies, request, torn>>
  BY DEF vars
<1>2. \A i : Writers(i)' = Writers(i)
  BY <1>1 DEF Writers, InFlight
<1> QED  BY <1>1, <1>2 DEF BodiesInv, Spoiled, IsRow

LEMMA BodiesCorrect == Spec => [](CoreInv /\ BodiesInv)
<1>1. Init => CoreInv /\ BodiesInv
  BY CoreInit, BodiesInit
<1>2. CoreInv /\ BodiesInv /\ [Next]_vars => (CoreInv /\ BodiesInv)'
  <2> SUFFICES ASSUME CoreInv, BodiesInv, [Next]_vars  PROVE CoreInv' /\ BodiesInv'
    OBVIOUS
  <2>1. CoreInv' /\ HandlersInv'
    BY CoreStep DEF CoreInv
  <2>2. CASE UNCHANGED vars
    BY <2>1, <2>2, BodiesIdle
  <2>3. CASE Next
    <3>1. PICK r \in Requests : Working(r) \/ \E call \in Calls : Asked(r, call)
      BY <2>3, StepKinds
    <3> QED  BY <2>1, <3>1, BodiesWork, BodiesAsked
  <2> QED  BY <2>2, <2>3
<1> QED  BY <1>1, <1>2, PTL DEF Spec

(* The body of every event is complete, and of a removed event at most the  *)
(* setting is left, except where requests overlapped or broke off: with no  *)
(* transaction over MySQL and Redis, the order of the writes is enough.     *)
THEOREM BodiesComplete == Spec => []BodiesFollowRows
<1>1. ASSUME CoreInv, BodiesInv  PROVE BodiesFollowRows
  <2> SUFFICES ASSUME NEW i \in Ids \ (torn \cup {request[r].id : r \in InFlight})
               PROVE  Whole(rows[i], bodies[i])
    BY DEF BodiesFollowRows, Whole, IsRow
  <2>1. Writers(i) = {} /\ ~ Spoiled(i)
    BY DEF Writers, Spoiled
  <2> QED  BY <1>1, <2>1, BodiesParts DEF BodyDue, Whole, IsRow
<1> QED  BY <1>1, BodiesCorrect, PTL

=============================================================================
