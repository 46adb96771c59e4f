------------------------ MODULE Availability_proofs ------------------------
(***************************************************************************)
(* Theorems about Availability, for any team, availabilities, events and     *)
(* requests.                                                                 *)
(***************************************************************************)
EXTENDS Availability, TLAPS

-----------------------------------------------------------------------------
(* Where a handler can be.                                                  *)
Status == {"idle", "done", "failed"} \cup Steps

(* Only the step of the handler changes.                                    *)
LEMMA Moves ==
  ASSUME TypeOK, NEW r \in Requests, NEW s, s \in Status, Goes(r, s)
  PROVE  /\ request' \in [Requests -> RequestType]
         /\ request'[r] = [request[r] EXCEPT !.step = s]
         /\ \A q \in Requests \ {r} : request'[q] = request[q]
<1>1. request[r] \in RequestType
  BY DEF TypeOK
<1>2. [request[r] EXCEPT !.step = s] \in RequestType
  BY <1>1 DEF RequestType, Status
<1> QED  BY <1>2 DEF TypeOK, Goes

(* The step and what the handler has made, loaded, chosen or read change.   *)
LEMMA MovesNew ==
  ASSUME TypeOK, NEW r \in Requests, NEW s, s \in Status, NEW i \in Ids,
         request' = [request EXCEPT ![r].new = i, ![r].step = s]
  PROVE  /\ request' \in [Requests -> RequestType]
         /\ request'[r] = [request[r] EXCEPT !.new = i, !.step = s]
         /\ \A q \in Requests \ {r} : request'[q] = request[q]
<1>1. request[r] \in RequestType
  BY DEF TypeOK
<1>2. [request[r] EXCEPT !.new = i, !.step = s] \in RequestType
  BY <1>1 DEF RequestType, Status
<1> QED  BY <1>2 DEF TypeOK

LEMMA MovesLoaded ==
  ASSUME TypeOK, NEW r \in Requests, NEW s, s \in Status, NEW row, row \in RowType \cup {NoRow},
         request' = [request EXCEPT ![r].loaded = row, ![r].step = s]
  PROVE  /\ request' \in [Requests -> RequestType]
         /\ request'[r] = [request[r] EXCEPT !.loaded = row, !.step = s]
         /\ \A q \in Requests \ {r} : request'[q] = request[q]
<1>1. request[r] \in RequestType
  BY DEF TypeOK
<1>2. [request[r] EXCEPT !.loaded = row, !.step = s] \in RequestType
  BY <1>1 DEF RequestType, Status
<1> QED  BY <1>2 DEF TypeOK

LEMMA MovesFallback ==
  ASSUME TypeOK, NEW r \in Requests, NEW s, s \in Status, NEW i \in Ids,
         request' = [request EXCEPT ![r].fallback = i, ![r].step = s]
  PROVE  /\ request' \in [Requests -> RequestType]
         /\ request'[r] = [request[r] EXCEPT !.fallback = i, !.step = s]
         /\ \A q \in Requests \ {r} : request'[q] = request[q]
<1>1. request[r] \in RequestType
  BY DEF TypeOK
<1>2. [request[r] EXCEPT !.fallback = i, !.step = s] \in RequestType
  BY <1>1 DEF RequestType, Status
<1> QED  BY <1>2 DEF TypeOK

LEMMA MovesRead ==
  ASSUME TypeOK, NEW r \in Requests, NEW s, s \in Status,
         request' = [request EXCEPT ![r].read = bodies, ![r].step = s]
  PROVE  /\ request' \in [Requests -> RequestType]
         /\ request'[r] = [request[r] EXCEPT !.read = bodies, !.step = s]
         /\ \A q \in Requests \ {r} : request'[q] = request[q]
<1>1. request[r] \in RequestType /\ bodies \in [Keys -> BodyType \cup {NoBody}]
  BY DEF TypeOK
<1>2. [request[r] EXCEPT !.read = bodies, !.step = s] \in RequestType
  BY <1>1 DEF RequestType, Status
<1> QED  BY <1>2 DEF TypeOK

(* A handler at work serves a call, as its step says.                       *)
LEMMA Serving ==
  ASSUME HandlersInv, NEW r \in Requests, request[r].step \in Steps
  PROVE  /\ Call(r) \in Calls /\ Call(r) \in CallType
         /\ request[r].step \in StepsOf[Call(r).op]
         /\ Call(r).id \in Ids /\ Call(r).profile \in Profiles
         /\ Key(r) \in Keys
<1>1. Call(r) \in Calls /\ request[r].step \in StepsOf[Call(r).op]
  BY DEF HandlersInv, HandlerInv, InFlight
<1>2. Call(r) \in CallType
  BY <1>1, AvailabilityAssumption
<1> QED  BY <1>1, <1>2 DEF CallType, Key, Keys

(* The operations that write one body, and the field they write.            *)
Writes(r) == CreateBody(r) \/ UpdateBody(r) \/ PatchBody(r) \/ CloneBody(r)
Target(r) ==
    IF request[r].step \in {"createBody", "cloneBody"}
    THEN <<Call(r).profile, request[r].new>> ELSE Key(r)

LEMMA BodyWritten ==
  ASSUME TypeOK, HandlersInv, NEW r \in Requests, Writes(r)
  PROVE  \E body \in BodyType : bodies' = [bodies EXCEPT ![Target(r)] = body]
<1>1. ASSUME NEW k, NEW times \in SUBSET Hours, NEW overrides, Kept(overrides) \in SUBSET Days,
             Set(k, times, overrides)
      PROVE  \E body \in BodyType : bodies' = [bodies EXCEPT ![k] = body]
  BY <1>1 DEF Set, BodyType
<1>2. ASSUME Call(r).availableTimes # Absent, Call(r).overrides # Absent,
             request[r].step \in Steps
      PROVE  Call(r).availableTimes \in SUBSET Hours /\ Kept(Call(r).overrides) \in SUBSET Days
  BY <1>2, Serving DEF CallType, Kept
<1>3. ASSUME request[r].step \in {"createBody", "updateBody"}
      PROVE  Call(r).availableTimes # Absent /\ Call(r).overrides # Absent
  <2>1. Call(r) \in Calls /\ Call(r).op \in {"create", "update"}
    BY <1>3, Serving DEF CallType, StepsOf, Steps
  <2> QED  BY <2>1, AvailabilityAssumption
<1>4. CASE CreateBody(r)
  BY <1>1, <1>2, <1>3, <1>4 DEF CreateBody, Saves, Target, At, Steps
<1>5. CASE UpdateBody(r)
  BY <1>1, <1>2, <1>3, <1>5 DEF UpdateBody, Target, At, Steps
<1>6. CASE PatchBody(r)
  <2>1. Call(r).availableTimes # Absent /\ Call(r).overrides # Absent
    BY <1>6 DEF PatchBody, At, HandlersInv, HandlerInv, PatchesBody
  <2> QED  BY <1>1, <1>2, <1>6, <2>1 DEF PatchBody, Target, At, Steps
<1>7. CASE CloneBody(r)
  <2>1. /\ request[r].step = "cloneBody" /\ request[r] \in RequestType
        /\ request[r].read[Key(r)] # NoBody /\ Key(r) \in Keys
    BY <1>7, Serving DEF CloneBody, At, Steps, HandlersInv, HandlerInv, TypeOK
  <2>2. request[r].read[Key(r)] \in BodyType
    BY <2>1 DEF RequestType
  <2>3. /\ request[r].read[Key(r)].availableTimes \in SUBSET Hours
        /\ Kept(request[r].read[Key(r)].overrides) \in SUBSET Days
    BY <2>2 DEF BodyType, Kept, Days
  <2> QED  BY <1>1, <1>7, <2>1, <2>3 DEF CloneBody, Saves, Target
<1> QED  BY <1>4, <1>5, <1>6, <1>7 DEF Writes

(* patchAll writes bodies, or nothing.                                      *)
LEMMA AllWritten ==
  ASSUME TypeOK, HandlersInv, NEW r \in Requests, PatchAllWrite(r), NEW k \in Keys
  PROVE  bodies'[k] \in BodyType \/ bodies'[k] = bodies[k]
<1>1. /\ Call(r) \in CallType
      /\ request[r].read \in [Keys -> BodyType \cup {NoBody}]
  BY Serving DEF PatchAllWrite, At, Steps, TypeOK, RequestType
<1>2. ASSUME NEW b \in BodyType PROVE UpdatedBody(Call(r), b) \in BodyType
  <2>1. /\ Call(r).availableTimes # Absent => Call(r).availableTimes \in SUBSET Hours
        /\ b.availableTimes \in SUBSET Hours
    BY <1>1 DEF CallType, BodyType
  <2> QED  BY <2>1 DEF UpdatedBody, BodyType, Days
<1> QED  BY <1>1, <1>2 DEF PatchAllWrite

(* A row whose flag is set remains a row of the same owner.                 *)
LEMMA Flagged ==
  ASSUME NEW row \in RowType, NEW flag \in BOOLEAN
  PROVE  /\ [row EXCEPT !.default = flag] \in RowType
         /\ [row EXCEPT !.default = flag].profile = row.profile
         /\ [row EXCEPT !.default = flag].default = flag
  BY DEF RowType

LEMMA UpdateFlags ==
  ASSUME TypeOK, HandlersInv, NEW r \in Requests, UpdateRow(r), IsRow(Call(r).id)
  PROVE  \E flag \in BOOLEAN :
            rows' = [rows EXCEPT ![Call(r).id] = [rows[Call(r).id] EXCEPT !.default = flag]]
<1> DEFINE flag == IF Call(r).default = Absent THEN rows[Call(r).id].default
                   ELSE Call(r).default
<1>1. request[r].step \in Steps
  BY DEF UpdateRow, At, Steps
<1>2. rows[Call(r).id] \in RowType /\ Call(r) \in CallType
  BY <1>1, Serving DEF IsRow
<1>3. flag \in BOOLEAN
  BY <1>2 DEF RowType, CallType
<1>4. rows' = [rows EXCEPT ![Call(r).id] = [rows[Call(r).id] EXCEPT !.default = flag]]
  BY DEF UpdateRow
<1> QED  BY <1>3, <1>4

LEMMA PatchFlags ==
  ASSUME TypeOK, HandlersInv, NEW r \in Requests, At(r, "patchRow")
  PROVE  Merged(r) \in BOOLEAN
<1>1. request[r].step \in Steps /\ request[r].loaded \in RowType
  BY DEF At, Steps, HandlersInv, HandlerInv
<1> QED  BY <1>1, Serving DEF Merged, RowType, CallType

-----------------------------------------------------------------------------
(* The initial state is typed.                                              *)
LEMMA TypeInit == Init => TypeOK
<1> SUFFICES ASSUME Init PROVE TypeOK
  OBVIOUS
<1>1. [availableTimes |-> Hours, overrides |-> {"coming"}] \in BodyType
  BY DEF BodyType, Days
<1>2. bodies \in [Keys -> BodyType \cup {NoBody}]
  BY <1>1 DEF Init
<1>3. NoBodies \in [Keys -> BodyType \cup {NoBody}]
  BY DEF NoBodies
<1>4. [step |-> "idle", call |-> NoCall, new |-> NoId, loaded |-> NoRow,
       fallback |-> NoId, read |-> NoBodies] \in RequestType
  BY <1>3 DEF RequestType
<1>5. request \in [Requests -> RequestType]
  BY <1>4 DEF Init
<1>6. rows \in [Ids -> RowType \cup {Unused, Gone}] /\ links \in [LinkIds -> Ids]
  BY AvailabilityAssumption DEF Init
<1>7. overlapped \in BOOLEAN
  BY DEF Init
<1> QED  BY <1>2, <1>5, <1>6, <1>7 DEF TypeOK

(* Every step keeps the types.                                              *)
LEMMA TypeStep == TypeOK /\ HandlersInv /\ [Next]_vars => TypeOK'
<1> SUFFICES ASSUME TypeOK, HandlersInv, [Next]_vars PROVE TypeOK'
  OBVIOUS
<1>1. ASSUME NEW r \in Requests, Receive(r) PROVE TypeOK'
  <2>1. PICK c \in Calls :
          request' = [request EXCEPT ![r].call = c, ![r].step = First[c.op]]
    BY <1>1 DEF Receive
  <2>2. First[c.op] \in Status
    BY AvailabilityAssumption DEF CallType, First, Status, Steps
  <2>3. request[r] \in RequestType
    BY DEF TypeOK
  <2>4. [request[r] EXCEPT !.call = c, !.step = First[c.op]] \in RequestType
    BY <2>2, <2>3 DEF RequestType, Status
  <2>5. request' \in [Requests -> RequestType]
    BY <2>1, <2>4 DEF TypeOK
  <2> QED  BY <1>1, <2>5 DEF Receive, TypeOK
<1>2. ASSUME NEW r \in Requests, NEW s \in Status, Goes(r, s), UNCHANGED Stores PROVE TypeOK'
  BY <1>2, Moves DEF TypeOK, Stores
<1>3. ASSUME NEW r \in Requests, Fail(r) PROVE TypeOK'
  BY <1>2, <1>3 DEF Fail, Status
<1>4. ASSUME NEW r \in Requests, CreateRow(r) PROVE TypeOK'
  <2>1. PICK i \in Ids :
          /\ rows[i] = Unused
          /\ rows' = [rows EXCEPT ![i] = [profile |-> Call(r).profile, default |-> FALSE]]
          /\ request' = [request EXCEPT ![r].new = i, ![r].step = "createBody"]
    BY <1>4 DEF CreateRow, Insert
  <2>2. request[r].step \in Steps
    BY <1>4 DEF CreateRow, At, Steps
  <2>3. [profile |-> Call(r).profile, default |-> FALSE] \in RowType
    BY <2>2, Serving DEF RowType
  <2>4. request' \in [Requests -> RequestType]
    BY <2>1, MovesNew DEF Status, Steps
  <2> QED  BY <1>4, <2>1, <2>3, <2>4 DEF CreateRow, TypeOK
<1>5. ASSUME NEW r \in Requests, CreateBody(r) PROVE TypeOK'
  <2>1. request' \in [Requests -> RequestType]
    BY <1>5, Moves DEF CreateBody, Saves, Status
  <2>2. bodies' \in [Keys -> BodyType \cup {NoBody}]
    BY <1>5, BodyWritten DEF Writes, TypeOK
  <2> QED  BY <1>5, <2>1, <2>2 DEF CreateBody, TypeOK
<1>6. ASSUME NEW r \in Requests, UpdateFind(r) PROVE TypeOK'
  BY <1>2, <1>6 DEF UpdateFind, Status, Steps
<1>7. ASSUME NEW r \in Requests, UpdateRow(r) PROVE TypeOK'
  <2>1. rows' \in [Ids -> RowType \cup {Unused, Gone}]
    <3>1. CASE IsRow(Call(r).id)
      <4>1. PICK flag \in BOOLEAN : rows' =
              [rows EXCEPT ![Call(r).id] = [rows[Call(r).id] EXCEPT !.default = flag]]
        BY <1>7, <3>1, UpdateFlags
      <4>2. [rows[Call(r).id] EXCEPT !.default = flag] \in RowType
        BY <3>1, Flagged DEF IsRow
      <4> QED  BY <4>1, <4>2 DEF TypeOK
    <3>2. CASE ~ IsRow(Call(r).id)
      BY <1>7, <3>2 DEF UpdateRow, TypeOK
    <3> QED  BY <3>1, <3>2
  <2>2. request' \in [Requests -> RequestType]
    BY <1>7, Moves DEF UpdateRow, Status, Steps
  <2> QED  BY <1>7, <2>1, <2>2 DEF UpdateRow, TypeOK
<1>8. ASSUME NEW r \in Requests, UpdateBody(r) PROVE TypeOK'
  <2>1. request' \in [Requests -> RequestType]
    BY <1>8, Moves DEF UpdateBody, Status
  <2>2. bodies' \in [Keys -> BodyType \cup {NoBody}]
    BY <1>8, BodyWritten DEF Writes, TypeOK
  <2> QED  BY <1>8, <2>1, <2>2 DEF UpdateBody, TypeOK
<1>9. ASSUME NEW r \in Requests, PatchFind(r) PROVE TypeOK'
  <2>1. CASE Goes(r, "failed")
    BY <1>2, <1>9, <2>1 DEF PatchFind, Status
  <2>2. CASE ~ Goes(r, "failed")
    <3> DEFINE next == IF PatchesRow(Call(r)) THEN "patchRow" ELSE AfterPatchRow(Call(r))
    <3>1. /\ rows[Call(r).id] \in RowType
          /\ request' = [request EXCEPT ![r].loaded = rows[Call(r).id], ![r].step = next]
      BY <1>9, <2>2 DEF PatchFind, IsRow
    <3>2. next \in Status
      BY DEF AfterPatchRow, Status, Steps
    <3>3. request' \in [Requests -> RequestType]
      BY <3>1, <3>2, MovesLoaded
    <3> QED  BY <1>9, <3>3 DEF PatchFind, Stores, TypeOK
  <2> QED  BY <2>1, <2>2
<1>10. ASSUME NEW r \in Requests, PatchRow(r) PROVE TypeOK'
  <2>1. Merged(r) \in BOOLEAN
    BY <1>10, PatchFlags DEF PatchRow
  <2>2. \A i \in Ids : IsRow(i) => /\ [rows[i] EXCEPT !.default = Merged(r)] \in RowType
                                  /\ [rows[i] EXCEPT !.default = FALSE] \in RowType
    BY <2>1, Flagged DEF IsRow
  <2>3. rows' \in [Ids -> RowType \cup {Unused, Gone}]
    BY <1>10, <2>2 DEF PatchRow, Patched, TypeOK
  <2>4. request' \in [Requests -> RequestType]
    BY <1>10, Moves DEF PatchRow, AfterPatchRow, Status, Steps
  <2> QED  BY <1>10, <2>3, <2>4 DEF PatchRow, TypeOK
<1>11. ASSUME NEW r \in Requests, PatchBody(r) PROVE TypeOK'
  <2>1. request' \in [Requests -> RequestType]
    BY <1>11, Moves DEF PatchBody, Status
  <2>2. bodies' \in [Keys -> BodyType \cup {NoBody}]
    BY <1>11, BodyWritten DEF Writes, TypeOK
  <2> QED  BY <1>11, <2>1, <2>2 DEF PatchBody, TypeOK
<1>12. ASSUME NEW r \in Requests, PatchAllRead(r) PROVE TypeOK'
  <2>1. CASE Goes(r, "done")
    BY <1>2, <1>12, <2>1 DEF PatchAllRead, Status
  <2>2. CASE request' = [request EXCEPT ![r].read = bodies, ![r].step = "patchAllWrite"]
    <3>1. request' \in [Requests -> RequestType]
      BY <2>2, MovesRead DEF Status, Steps
    <3> QED  BY <1>12, <3>1 DEF PatchAllRead, Stores, TypeOK
  <2> QED  BY <1>12, <2>1, <2>2 DEF PatchAllRead
<1>13. ASSUME NEW r \in Requests, PatchAllWrite(r) PROVE TypeOK'
  <2>1. request' \in [Requests -> RequestType]
    BY <1>13, Moves DEF PatchAllWrite, Status
  <2>2. \A k \in Keys : bodies'[k] \in BodyType \cup {NoBody}
    BY <1>13, AllWritten DEF TypeOK
  <2>3. bodies' \in [Keys -> BodyType \cup {NoBody}]
    BY <1>13, <2>2 DEF PatchAllWrite
  <2> QED  BY <1>13, <2>1, <2>3 DEF PatchAllWrite, TypeOK
<1>14. ASSUME NEW r \in Requests, NEW s \in Status, FindDefault(r, s), UNCHANGED Stores
       PROVE TypeOK'
  <2>1. CASE Goes(r, "failed")
    BY <1>2, <1>14, <2>1 DEF Status
  <2>2. CASE ~ Goes(r, "failed")
    <3>1. PICK i \in Ids : request' = [request EXCEPT ![r].fallback = i, ![r].step = s]
      BY <1>14, <2>2 DEF FindDefault, Defaults
    <3>2. request' \in [Requests -> RequestType]
      BY <3>1, MovesFallback
    <3> QED  BY <1>14, <3>2 DEF Stores, TypeOK
  <2> QED  BY <2>1, <2>2
<1>15. ASSUME NEW r \in Requests, RemoveFind(r) PROVE TypeOK'
  <2>1. CASE Goes(r, "failed")
    BY <1>2, <1>15, <2>1 DEF RemoveFind, Status
  <2>2. CASE ~ Goes(r, "failed")
    <3>1. PICK row \in RowType \cup {NoRow} :
            request' = [request EXCEPT ![r].loaded = row, ![r].step = "removeDefault"]
      BY <1>15, <2>2 DEF RemoveFind, IsRow
    <3>2. request' \in [Requests -> RequestType]
      BY <3>1, MovesLoaded DEF Status, Steps
    <3> QED  BY <1>15, <3>2 DEF RemoveFind, Stores, TypeOK
  <2> QED  BY <2>1, <2>2
<1>16. ASSUME NEW r \in Requests, RemoveDefault(r) PROVE TypeOK'
  BY <1>14, <1>16 DEF RemoveDefault, Status, Steps
<1>17. ASSUME NEW r \in Requests, RemoveRow(r) PROVE TypeOK'
  <2>1. request[r].fallback \in Ids
    BY <1>17 DEF RemoveRow, At, HandlersInv, HandlerInv
  <2>2. links' \in [LinkIds -> Ids] /\ rows' \in [Ids -> RowType \cup {Unused, Gone}]
    BY <1>17, <2>1 DEF RemoveRow, Relinked, TypeOK
  <2>3. request' \in [Requests -> RequestType]
    BY <1>17, Moves DEF RemoveRow, Status, Steps
  <2> QED  BY <1>17, <2>2, <2>3 DEF RemoveRow, TypeOK
<1>18. ASSUME NEW r \in Requests, RemoveBody(r) PROVE TypeOK'
  <2>1. request' \in [Requests -> RequestType]
    BY <1>18, Moves DEF RemoveBody, Status
  <2> QED  BY <1>18, <2>1 DEF RemoveBody, TypeOK
<1>19. ASSUME NEW r \in Requests, CloneFind(r) PROVE TypeOK'
  <2>1. CASE Goes(r, "failed")
    BY <1>2, <1>19, <2>1 DEF CloneFind, Status
  <2>2. CASE ~ Goes(r, "failed")
    <3>1. /\ rows[Call(r).id] \in RowType
          /\ request' = [request EXCEPT ![r].loaded = rows[Call(r).id], ![r].step = "cloneRow"]
      BY <1>19, <2>2 DEF CloneFind, IsRow
    <3>2. request' \in [Requests -> RequestType]
      BY <3>1, MovesLoaded DEF Status, Steps
    <3> QED  BY <1>19, <3>2 DEF CloneFind, Stores, TypeOK
  <2> QED  BY <2>1, <2>2
<1>20. ASSUME NEW r \in Requests, CloneRow(r) PROVE TypeOK'
  <2>1. PICK i \in Ids :
          /\ rows' = [rows EXCEPT ![i] = [request[r].loaded EXCEPT !.default = FALSE]]
          /\ request' = [request EXCEPT ![r].new = i, ![r].step = "cloneRead"]
    BY <1>20 DEF CloneRow, Insert
  <2>2. request[r].loaded \in RowType
    BY <1>20 DEF CloneRow, At, HandlersInv, HandlerInv
  <2>3. [request[r].loaded EXCEPT !.default = FALSE] \in RowType
    BY <2>2 DEF RowType
  <2>4. request' \in [Requests -> RequestType]
    BY <2>1, MovesNew DEF Status, Steps
  <2> QED  BY <1>20, <2>1, <2>3, <2>4 DEF CloneRow, TypeOK
<1>21. ASSUME NEW r \in Requests, CloneRead(r) PROVE TypeOK'
  <2>1. CASE Goes(r, "failed")
    BY <1>2, <1>21, <2>1 DEF CloneRead, Status
  <2>2. CASE request' = [request EXCEPT ![r].read = bodies, ![r].step = "cloneBody"]
    <3>1. request' \in [Requests -> RequestType]
      BY <2>2, MovesRead DEF Status, Steps
    <3> QED  BY <1>21, <3>1 DEF CloneRead, Stores, TypeOK
  <2> QED  BY <1>21, <2>1, <2>2 DEF CloneRead
<1>22. ASSUME NEW r \in Requests, CloneBody(r) PROVE TypeOK'
  <2>1. request' \in [Requests -> RequestType]
    BY <1>22, Moves DEF CloneBody, Saves, Status
  <2>2. bodies' \in [Keys -> BodyType \cup {NoBody}]
    BY <1>22, BodyWritten DEF Writes, TypeOK
  <2> QED  BY <1>22, <2>1, <2>2 DEF CloneBody, TypeOK
<1>23. ASSUME NEW r \in Requests, LinkEventsDefault(r) PROVE TypeOK'
  BY <1>14, <1>23 DEF LinkEventsDefault, Status, Steps
<1>24. ASSUME NEW r \in Requests, LinkEventsRow(r) PROVE TypeOK'
  <2>1. request[r].step \in Steps /\ request[r].fallback \in Ids
    BY <1>24 DEF LinkEventsRow, At, Steps, HandlersInv, HandlerInv
  <2>2. links' \in [LinkIds -> Ids]
    BY <1>24, <2>1, Serving DEF LinkEventsRow, Relinked, TypeOK
  <2>3. request' \in [Requests -> RequestType]
    BY <1>24, Moves DEF LinkEventsRow, Status
  <2> QED  BY <1>24, <2>2, <2>3 DEF LinkEventsRow, TypeOK
<1>25. ASSUME NEW r \in Requests, LinkEventRow(r) PROVE TypeOK'
  <2>1. request[r].step \in Steps
    BY <1>25 DEF LinkEventRow, At, Steps
  <2>2. links' \in [LinkIds -> Ids]
    BY <1>25, <2>1, Serving DEF LinkEventRow, Relinked, TypeOK
  <2>3. request' \in [Requests -> RequestType]
    BY <1>25, Moves DEF LinkEventRow, Status
  <2> QED  BY <1>25, <2>2, <2>3 DEF LinkEventRow, TypeOK
<1>26. ASSUME NEW r \in Requests, UnlinkDefault(r) PROVE TypeOK'
  BY <1>2, <1>14, <1>26 DEF UnlinkDefault, Status, Steps
<1>27. ASSUME NEW r \in Requests, UnlinkRow(r) PROVE TypeOK'
  <2>1. request[r].fallback \in Ids
    BY <1>27 DEF UnlinkRow, At, HandlersInv, HandlerInv
  <2>2. links' \in [LinkIds -> Ids]
    BY <1>27, <2>1 DEF UnlinkRow, Relinked, TypeOK
  <2>3. request' \in [Requests -> RequestType]
    BY <1>27, Moves DEF UnlinkRow, Status
  <2> QED  BY <1>27, <2>2, <2>3 DEF UnlinkRow, TypeOK
<1>28. CASE UNCHANGED vars
  BY <1>28 DEF vars, TypeOK
<1> QED
  BY <1>1, <1>3, <1>4, <1>5, <1>6, <1>7, <1>8, <1>9, <1>10, <1>11, <1>12, <1>13,
     <1>15, <1>16, <1>17, <1>18, <1>19, <1>20, <1>21, <1>22, <1>23, <1>24,
     <1>25, <1>26, <1>27, <1>28 DEF Next, Serve

-----------------------------------------------------------------------------
(* Ids are not used again and rows do not change hands: no operation makes a *)
(* row of an id that had one, or writes an owner.                           *)
Ages ==
    \A i \in Ids : rows[i] # Unused =>
        /\ rows'[i] # Unused
        /\ IsRow(i)' => IsRow(i) /\ rows'[i].profile = rows[i].profile

LEMMA RowsAge == TypeOK /\ HandlersInv /\ [Next]_vars => Ages
<1> SUFFICES ASSUME TypeOK, HandlersInv, [Next]_vars PROVE Ages
  OBVIOUS
<1>1. CASE rows' = rows
  BY <1>1 DEF Ages, IsRow
<1>2. ASSUME NEW r \in Requests, CreateRow(r) \/ CloneRow(r) PROVE Ages
  <2>1. PICK i \in Ids : rows[i] = Unused /\ \E row : rows' = [rows EXCEPT ![i] = row]
    BY <1>2 DEF CreateRow, CloneRow, Insert
  <2> QED  BY <2>1 DEF Ages, IsRow, TypeOK
<1>3. ASSUME NEW r \in Requests, UpdateRow(r) PROVE Ages
  <2>1. CASE ~ IsRow(Call(r).id)
    BY <1>1, <1>3, <2>1 DEF UpdateRow
  <2>2. CASE IsRow(Call(r).id)
    <3>1. PICK flag \in BOOLEAN : rows' =
            [rows EXCEPT ![Call(r).id] = [rows[Call(r).id] EXCEPT !.default = flag]]
      BY <1>3, <2>2, UpdateFlags
    <3>2. /\ [rows[Call(r).id] EXCEPT !.default = flag] \in RowType
          /\ [rows[Call(r).id] EXCEPT !.default = flag].profile = rows[Call(r).id].profile
      BY <2>2, Flagged DEF IsRow
    <3> QED  BY <2>2, <3>1, <3>2, AvailabilityAssumption DEF Ages, IsRow, TypeOK
  <2> QED  BY <2>1, <2>2
<1>4. ASSUME NEW r \in Requests, PatchRow(r) PROVE Ages
  <2>1. Merged(r) \in BOOLEAN
    BY <1>4, PatchFlags DEF PatchRow
  <2>2. \A i \in Ids, flag \in BOOLEAN : IsRow(i) =>
           /\ [rows[i] EXCEPT !.default = flag] \in RowType
           /\ [rows[i] EXCEPT !.default = flag].profile = rows[i].profile
    BY Flagged DEF IsRow
  <2>3. \A i \in Ids :
           \/ rows'[i] = rows[i]
           \/ IsRow(i) /\ \E flag \in BOOLEAN : rows'[i] = [rows[i] EXCEPT !.default = flag]
    BY <1>4, <2>1 DEF PatchRow, Patched
  <2>4. ASSUME NEW i \in Ids, rows[i] # Unused
        PROVE  rows'[i] # Unused /\ (IsRow(i)' => IsRow(i) /\ rows'[i].profile = rows[i].profile)
    <3>1. CASE rows'[i] = rows[i]
      BY <2>4, <3>1 DEF IsRow
    <3>2. CASE rows'[i] # rows[i]
      <4>1. PICK flag \in BOOLEAN : rows'[i] = [rows[i] EXCEPT !.default = flag]
        BY <2>3, <3>2
      <4>2. IsRow(i) /\ rows'[i] \in RowType /\ rows'[i].profile = rows[i].profile
        BY <2>2, <2>3, <3>2, <4>1
      <4> QED  BY <4>2, AvailabilityAssumption
    <3> QED  BY <3>1, <3>2
  <2> QED  BY <2>4 DEF Ages
<1>5. ASSUME NEW r \in Requests, RemoveRow(r) PROVE Ages
  BY <1>5, AvailabilityAssumption DEF RemoveRow, Ages, IsRow, TypeOK
<1> QED
  BY <1>1, <1>2, <1>3, <1>4, <1>5
  DEF Next, Serve, vars, Stores, Receive, Fail, CreateBody, UpdateFind, UpdateBody,
      PatchFind, PatchBody, PatchAllRead, PatchAllWrite, RemoveFind, RemoveDefault,
      RemoveBody, CloneFind, CloneRead, CloneBody, LinkEventsDefault, LinkEventsRow,
      LinkEventRow, UnlinkDefault, UnlinkRow

-----------------------------------------------------------------------------
(* Nothing is said of a handler that has answered.                          *)
LEMMA Answered ==
  ASSUME NEW r \in Requests, request'[r].step \in {"idle", "done", "failed"},
         request'[r].step = "idle" => request'[r].new = NoId
  PROVE  HandlerInv(r)'
  BY DEF HandlerInv, InFlight, At, Steps

(* The others do not notice.                                                *)
LEMMA OthersKeep ==
  ASSUME TypeOK, TypeOK', Ages, NEW q \in Requests, HandlerInv(q), request'[q] = request[q]
  PROVE  HandlerInv(q)'
<1>1. ASSUME NEW i \in Ids, rows[i] = Gone PROVE rows'[i] = Gone
  BY <1>1, AvailabilityAssumption DEF Ages, IsRow, TypeOK
<1>2. ASSUME request[q].step \in {"removeRow", "linkEventsRow", "unlinkRow"}
      PROVE  LET i == request[q].fallback IN
                /\ i \in Ids /\ rows'[i] # Unused
                /\ IsRow(i)' => rows'[i].profile = Call(q).profile
  BY <1>2 DEF HandlerInv, Ages
<1>3. ASSUME At(q, "removeBody") PROVE rows'[Call(q).id] = Gone
  <2>1. Call(q) \in CallType
    BY <1>3, AvailabilityAssumption DEF HandlerInv, InFlight, At, Steps
  <2> QED  BY <1>1, <1>3, <2>1 DEF HandlerInv, CallType
<1> QED
  BY <1>2, <1>3 DEF HandlerInv, InFlight, At, Call, Key, IsRow

(* A handler goes on to a step of its call.                                 *)
LEMMA GoesOn ==
  ASSUME TypeOK, HandlersInv, NEW r \in Requests, NEW s \in Steps, Goes(r, s),
         request[r].step \in Steps, request[r].new = NoId,
         s \in StepsOf[Call(r).op],
         s \notin {"patchRow", "cloneRow", "removeRow", "linkEventsRow", "unlinkRow",
                   "cloneBody", "removeBody"},
         s = "patchBody" => PatchesBody(Call(r))
  PROVE  HandlerInv(r)'
<1>1. request[r] \in RequestType
  BY DEF TypeOK
<1>2. request'[r] = [request[r] EXCEPT !.step = s]
  BY Moves DEF Status
<1>3. Call(r)' = Call(r) /\ request'[r].step = s /\ request'[r].new = NoId
  BY <1>1, <1>2 DEF Call, RequestType
<1>4. Call(r) \in Calls
  BY Serving
<1> QED  BY <1>3, <1>4 DEF HandlerInv, InFlight, At, PatchesBody

(* Only a clone or create on its way to the body has made a row.            *)
LEMMA NothingNew ==
  ASSUME HandlersInv, NEW r \in Requests,
         request[r].step \notin {"createBody", "cloneRead", "cloneBody", "done", "failed"}
  PROVE  request[r].new = NoId
  BY DEF HandlersInv, HandlerInv

LEMMA HandlersInit == Init => HandlersInv
  BY DEF Init, HandlersInv, HandlerInv, InFlight, At, Steps

(* Every step keeps what is said of the handlers.                           *)
LEMMA HandlersStep == TypeOK /\ HandlersInv /\ [Next]_vars => HandlersInv'
<1> SUFFICES ASSUME TypeOK, HandlersInv, [Next]_vars PROVE HandlersInv'
  OBVIOUS
<1>1. TypeOK' /\ Ages
  BY TypeStep, RowsAge
<1>2. ASSUME NEW r \in Requests, HandlerInv(r)', \A q \in Requests \ {r} : request'[q] = request[q]
      PROVE  HandlersInv'
  BY <1>1, <1>2, OthersKeep DEF HandlersInv
<1>3. ASSUME NEW r \in Requests, Goes(r, "done") \/ Goes(r, "failed") PROVE HandlersInv'
  <2>1. PICK s \in {"done", "failed"} : Goes(r, s)
    BY <1>3
  <2>2. /\ request'[r] = [request[r] EXCEPT !.step = s]
        /\ \A q \in Requests \ {r} : request'[q] = request[q]
    BY <2>1, Moves DEF Status
  <2>3. request'[r].step \in {"done", "failed"}
    BY <2>2 DEF TypeOK, RequestType
  <2>4. HandlerInv(r)'
    BY <2>3, Answered
  <2> QED  BY <1>2, <2>2, <2>4
<1>4. ASSUME NEW r \in Requests, NEW s \in Steps, Goes(r, s),
             request[r].step \in Steps, request[r].new = NoId,
             s \in StepsOf[Call(r).op],
             s \notin {"patchRow", "cloneRow", "removeRow", "linkEventsRow", "unlinkRow",
                       "cloneBody", "removeBody"},
             s = "patchBody" => PatchesBody(Call(r))
      PROVE  HandlersInv'
  <2>1. HandlerInv(r)'
    BY <1>4, GoesOn
  <2>2. \A q \in Requests \ {r} : request'[q] = request[q]
    BY <1>4, Moves DEF Status
  <2> QED  BY <1>2, <2>1, <2>2
<1>5. ASSUME NEW r \in Requests, Receive(r) PROVE HandlersInv'
  <2>1. PICK c \in Calls :
          request' = [request EXCEPT ![r].call = c, ![r].step = First[c.op]]
    BY <1>5 DEF Receive
  <2>2. First[c.op] \in Steps /\ First[c.op] \in StepsOf[c.op]
    BY AvailabilityAssumption DEF CallType, First, Steps, StepsOf
  <2>3. First[c.op] \in {"createRow", "updateFind", "patchFind", "patchAllRead", "removeFind",
                         "cloneFind", "linkEventsDefault", "linkEventRow", "unlinkDefault"}
    BY AvailabilityAssumption DEF CallType, First
  <2>4. request[r] \in RequestType
    BY DEF TypeOK
  <2>5. request'[r] = [request[r] EXCEPT !.call = c, !.step = First[c.op]]
    BY <2>1 DEF TypeOK
  <2>6. /\ request'[r].call = c /\ request'[r].step = First[c.op]
        /\ request'[r].new = NoId
    BY <1>5, <2>4, <2>5, NothingNew DEF RequestType, Receive, At
  <2>7. HandlerInv(r)'
    BY <2>2, <2>3, <2>6 DEF HandlerInv, InFlight, At, Call
  <2>8. \A q \in Requests \ {r} : request'[q] = request[q]
    BY <2>1 DEF TypeOK
  <2> QED  BY <1>2, <2>7, <2>8
<1>6. ASSUME NEW r \in Requests, CreateRow(r) PROVE HandlersInv'
  <2>1. PICK i \in Ids : request' = [request EXCEPT ![r].new = i, ![r].step = "createBody"]
    BY <1>6 DEF CreateRow, Insert
  <2>2. request[r] \in RequestType /\ request[r].step = "createRow"
    BY <1>6 DEF CreateRow, At, TypeOK
  <2>3. Call(r) \in Calls /\ "createBody" \in StepsOf[Call(r).op]
    BY <2>2, Serving DEF CallType, StepsOf, Steps
  <2>4. /\ request'[r] = [request[r] EXCEPT !.new = i, !.step = "createBody"]
        /\ \A q \in Requests \ {r} : request'[q] = request[q]
    BY <2>1, MovesNew DEF Status, Steps
  <2>5. Call(r)' = Call(r) /\ request'[r].step = "createBody"
    BY <2>2, <2>4 DEF RequestType, Call
  <2>6. HandlerInv(r)'
    BY <2>3, <2>5 DEF HandlerInv, InFlight, At
  <2> QED  BY <1>2, <2>4, <2>6
<1>7. ASSUME NEW r \in Requests, UpdateFind(r) PROVE HandlersInv'
  <2>1. /\ request[r].step = "updateFind" /\ request[r].step \in Steps
        /\ request[r].new = NoId
    BY <1>7, NothingNew DEF UpdateFind, At, Steps
  <2>2. "updateRow" \in StepsOf[Call(r).op] /\ "updateRow" \in Steps
    BY <2>1, Serving DEF CallType, StepsOf, Steps
  <2> QED  BY <1>3, <1>4, <1>7, <2>1, <2>2 DEF UpdateFind
<1>8. ASSUME NEW r \in Requests, UpdateRow(r) PROVE HandlersInv'
  <2>1. /\ request[r].step = "updateRow" /\ request[r].step \in Steps
        /\ request[r].new = NoId
    BY <1>8, NothingNew DEF UpdateRow, At, Steps
  <2>2. "updateBody" \in StepsOf[Call(r).op] /\ "updateBody" \in Steps
    BY <2>1, Serving DEF CallType, StepsOf, Steps
  <2> QED  BY <1>3, <1>4, <1>8, <2>1, <2>2 DEF UpdateRow
<1>9. ASSUME NEW r \in Requests, PatchFind(r) PROVE HandlersInv'
  <2>1. CASE Goes(r, "failed")
    BY <1>3, <2>1
  <2>2. CASE ~ Goes(r, "failed")
    <3> DEFINE next == IF PatchesRow(Call(r)) THEN "patchRow" ELSE AfterPatchRow(Call(r))
    <3>1. PICK row \in RowType :
            request' = [request EXCEPT ![r].loaded = row, ![r].step = next]
      BY <1>9, <2>2 DEF PatchFind, IsRow
    <3>2. next \in Status /\ next \in {"patchRow", "patchBody", "done"}
      BY DEF AfterPatchRow, Status, Steps
    <3>3. next = "patchBody" => PatchesBody(Call(r))
      BY DEF AfterPatchRow
    <3>4. request[r] \in RequestType /\ request[r].step = "patchFind" /\ request[r].new = NoId
      BY <1>9, NothingNew DEF PatchFind, At, TypeOK
    <3>5. Call(r) \in Calls /\ {"patchRow", "patchBody"} \subseteq StepsOf[Call(r).op]
      BY <3>4, Serving DEF CallType, StepsOf, Steps
    <3>6. /\ request'[r] = [request[r] EXCEPT !.loaded = row, !.step = next]
          /\ \A q \in Requests \ {r} : request'[q] = request[q]
      BY <3>1, <3>2, MovesLoaded
    <3> HIDE DEF next
    <3>7. /\ request'[r].call = Call(r) /\ request'[r].step = next
          /\ request'[r].new = NoId /\ request'[r].loaded = row
      BY <3>4, <3>6 DEF RequestType, Call
    <3>8. HandlerInv(r)'
      BY <3>1, <3>2, <3>3, <3>5, <3>7 DEF HandlerInv, InFlight, At, Steps, PatchesBody, Call
    <3> QED  BY <1>2, <3>6, <3>8
  <2> QED  BY <2>1, <2>2
<1>10. ASSUME NEW r \in Requests, PatchRow(r) PROVE HandlersInv'
  <2>1. /\ request[r].step = "patchRow" /\ request[r].step \in Steps
        /\ request[r].new = NoId
    BY <1>10, NothingNew DEF PatchRow, At, Steps
  <2>2. "patchBody" \in StepsOf[Call(r).op] /\ "patchBody" \in Steps
    BY <2>1, Serving DEF CallType, StepsOf, Steps
  <2> QED  BY <1>3, <1>4, <1>10, <2>1, <2>2 DEF PatchRow, AfterPatchRow
<1>11. ASSUME NEW r \in Requests, PatchAllRead(r) PROVE HandlersInv'
  <2>1. CASE Goes(r, "done")
    BY <1>3, <2>1
  <2>2. CASE request' = [request EXCEPT ![r].read = bodies, ![r].step = "patchAllWrite"]
    <3>1. /\ request[r] \in RequestType /\ request[r].step = "patchAllRead"
          /\ request[r].new = NoId
      BY <1>11, NothingNew DEF PatchAllRead, At, TypeOK
    <3>2. Call(r) \in Calls /\ "patchAllWrite" \in StepsOf[Call(r).op]
      BY <3>1, Serving DEF CallType, StepsOf, Steps
    <3>3. /\ request'[r] = [request[r] EXCEPT !.read = bodies, !.step = "patchAllWrite"]
          /\ \A q \in Requests \ {r} : request'[q] = request[q]
      BY <2>2, MovesRead DEF Status, Steps
    <3>4. /\ Call(r)' = Call(r) /\ request'[r].step = "patchAllWrite"
          /\ request'[r].new = NoId
      BY <3>1, <3>3 DEF RequestType, Call
    <3>5. HandlerInv(r)'
      BY <3>2, <3>4 DEF HandlerInv, InFlight, At
    <3> QED  BY <1>2, <3>3, <3>5
  <2> QED  BY <1>11, <2>1, <2>2 DEF PatchAllRead
<1>12. ASSUME NEW r \in Requests, NEW s \in Steps, FindDefault(r, s),
              request[r].step \in Steps, request[r].new = NoId,
              s \in StepsOf[Call(r).op], UNCHANGED rows,
              s \in {"removeRow", "linkEventsRow", "unlinkRow"}
       PROVE  HandlersInv'
  <2>1. CASE Goes(r, "failed")
    BY <1>3, <2>1
  <2>2. CASE ~ Goes(r, "failed")
    <3>1. PICK i \in Ids : /\ IsRow(i) /\ rows[i].profile = Call(r).profile
                           /\ request' = [request EXCEPT ![r].fallback = i, ![r].step = s]
      BY <1>12, <2>2 DEF FindDefault, Defaults
    <3>2. /\ request'[r] = [request[r] EXCEPT !.fallback = i, !.step = s]
          /\ \A q \in Requests \ {r} : request'[q] = request[q]
      BY <3>1, MovesFallback DEF Status
    <3>3. request[r] \in RequestType
      BY DEF TypeOK
    <3>4. /\ Call(r)' = Call(r) /\ request'[r].step = s /\ request'[r].new = NoId
          /\ request'[r].fallback = i
      BY <1>12, <3>2, <3>3 DEF RequestType, Call
    <3>5. rows'[i] # Unused /\ rows'[i].profile = Call(r).profile
      BY <1>12, <3>1, AvailabilityAssumption DEF IsRow
    <3>6. Call(r) \in Calls
      BY <1>12, Serving
    <3>7. HandlerInv(r)'
      BY <1>12, <3>4, <3>5, <3>6 DEF HandlerInv, InFlight, At
    <3> QED  BY <1>2, <3>2, <3>7
  <2> QED  BY <2>1, <2>2
<1>13. ASSUME NEW r \in Requests, RemoveFind(r) PROVE HandlersInv'
  <2>1. CASE Goes(r, "failed")
    BY <1>3, <2>1
  <2>2. CASE ~ Goes(r, "failed")
    <3>1. PICK row \in RowType \cup {NoRow} :
            request' = [request EXCEPT ![r].loaded = row, ![r].step = "removeDefault"]
      BY <1>13, <2>2 DEF RemoveFind, IsRow
    <3>2. /\ request[r] \in RequestType /\ request[r].step = "removeFind"
          /\ request[r].new = NoId
      BY <1>13, NothingNew DEF RemoveFind, At, TypeOK
    <3>3. Call(r) \in Calls /\ "removeDefault" \in StepsOf[Call(r).op]
      BY <3>2, Serving DEF CallType, StepsOf, Steps
    <3>4. /\ request'[r] = [request[r] EXCEPT !.loaded = row, !.step = "removeDefault"]
          /\ \A q \in Requests \ {r} : request'[q] = request[q]
      BY <3>1, MovesLoaded DEF Status, Steps
    <3>5. /\ Call(r)' = Call(r) /\ request'[r].step = "removeDefault"
          /\ request'[r].new = NoId
      BY <3>2, <3>4 DEF RequestType, Call
    <3>6. HandlerInv(r)'
      BY <3>3, <3>5 DEF HandlerInv, InFlight, At
    <3> QED  BY <1>2, <3>4, <3>6
  <2> QED  BY <2>1, <2>2
<1>14. ASSUME NEW r \in Requests, RemoveDefault(r) PROVE HandlersInv'
  <2>1. /\ request[r].step = "removeDefault" /\ request[r].step \in Steps
        /\ request[r].new = NoId
    BY <1>14, NothingNew DEF RemoveDefault, At, Steps
  <2>2. "removeRow" \in StepsOf[Call(r).op] /\ "removeRow" \in Steps
    BY <2>1, Serving DEF CallType, StepsOf, Steps
  <2> QED  BY <1>12, <1>14, <2>1, <2>2 DEF RemoveDefault, Stores
<1>15. ASSUME NEW r \in Requests, RemoveRow(r) PROVE HandlersInv'
  <2>1. CASE Goes(r, "done") \/ Goes(r, "failed")
    BY <1>3, <2>1
  <2>2. CASE ~ (Goes(r, "done") \/ Goes(r, "failed"))
    <3>1. /\ Goes(r, "removeBody") /\ IsRow(Call(r).id)
          /\ rows' = [rows EXCEPT ![Call(r).id] = IF IsRow(Call(r).id) THEN Gone ELSE @]
      BY <1>15, <2>2 DEF RemoveRow
    <3>2. /\ request[r] \in RequestType /\ request[r].step = "removeRow"
          /\ request[r].new = NoId
      BY <1>15, NothingNew DEF RemoveRow, At, TypeOK
    <3>3. /\ Call(r) \in Calls /\ Call(r).id \in Ids
          /\ "removeBody" \in StepsOf[Call(r).op]
      BY <3>2, Serving DEF CallType, StepsOf, Steps
    <3>4. /\ request'[r] = [request[r] EXCEPT !.step = "removeBody"]
          /\ \A q \in Requests \ {r} : request'[q] = request[q]
      BY <3>1, Moves DEF Status, Steps
    <3>5. /\ Call(r)' = Call(r) /\ request'[r].step = "removeBody"
          /\ request'[r].new = NoId
      BY <3>2, <3>4 DEF RequestType, Call
    <3>6. rows'[Call(r).id] = Gone
      BY <3>1, <3>3 DEF TypeOK
    <3>7. HandlerInv(r)'
      BY <3>3, <3>5, <3>6 DEF HandlerInv, InFlight, At
    <3> QED  BY <1>2, <3>4, <3>7
  <2> QED  BY <2>1, <2>2
<1>16. ASSUME NEW r \in Requests, CloneFind(r) PROVE HandlersInv'
  <2>1. CASE Goes(r, "failed")
    BY <1>3, <2>1
  <2>2. CASE ~ Goes(r, "failed")
    <3>1. PICK row \in RowType :
            request' = [request EXCEPT ![r].loaded = row, ![r].step = "cloneRow"]
      BY <1>16, <2>2 DEF CloneFind, IsRow
    <3>2. /\ request[r] \in RequestType /\ request[r].step = "cloneFind"
          /\ request[r].new = NoId
      BY <1>16, NothingNew DEF CloneFind, At, TypeOK
    <3>3. Call(r) \in Calls /\ "cloneRow" \in StepsOf[Call(r).op]
      BY <3>2, Serving DEF CallType, StepsOf, Steps
    <3>4. /\ request'[r] = [request[r] EXCEPT !.loaded = row, !.step = "cloneRow"]
          /\ \A q \in Requests \ {r} : request'[q] = request[q]
      BY <3>1, MovesLoaded DEF Status, Steps
    <3>5. /\ request'[r].call = Call(r) /\ request'[r].step = "cloneRow"
          /\ request'[r].new = NoId /\ request'[r].loaded = row
      BY <3>2, <3>4 DEF RequestType, Call
    <3>6. HandlerInv(r)'
      BY <3>1, <3>3, <3>5 DEF HandlerInv, InFlight, At, Call
    <3> QED  BY <1>2, <3>4, <3>6
  <2> QED  BY <2>1, <2>2
<1>17. ASSUME NEW r \in Requests, CloneRow(r) PROVE HandlersInv'
  <2>1. PICK i \in Ids : request' = [request EXCEPT ![r].new = i, ![r].step = "cloneRead"]
    BY <1>17 DEF CloneRow, Insert
  <2>2. request[r] \in RequestType /\ request[r].step = "cloneRow"
    BY <1>17 DEF CloneRow, At, TypeOK
  <2>3. Call(r) \in Calls /\ "cloneRead" \in StepsOf[Call(r).op]
    BY <2>2, Serving DEF CallType, StepsOf, Steps
  <2>4. /\ request'[r] = [request[r] EXCEPT !.new = i, !.step = "cloneRead"]
        /\ \A q \in Requests \ {r} : request'[q] = request[q]
    BY <2>1, MovesNew DEF Status, Steps
  <2>5. Call(r)' = Call(r) /\ request'[r].step = "cloneRead"
    BY <2>2, <2>4 DEF RequestType, Call
  <2>6. HandlerInv(r)'
    BY <2>3, <2>5 DEF HandlerInv, InFlight, At
  <2> QED  BY <1>2, <2>4, <2>6
<1>18. ASSUME NEW r \in Requests, CloneRead(r) PROVE HandlersInv'
  <2>1. CASE Goes(r, "failed")
    BY <1>3, <2>1
  <2>2. CASE ~ Goes(r, "failed")
    <3>1. /\ request' = [request EXCEPT ![r].read = bodies, ![r].step = "cloneBody"]
          /\ bodies[Key(r)] # NoBody
      BY <1>18, <2>2 DEF CloneRead
    <3>2. request[r] \in RequestType /\ request[r].step = "cloneRead"
      BY <1>18 DEF CloneRead, At, TypeOK
    <3>3. Call(r) \in Calls /\ "cloneBody" \in StepsOf[Call(r).op]
      BY <3>2, Serving DEF CallType, StepsOf, Steps
    <3>4. /\ request'[r] = [request[r] EXCEPT !.read = bodies, !.step = "cloneBody"]
          /\ \A q \in Requests \ {r} : request'[q] = request[q]
      BY <3>1, MovesRead DEF Status, Steps
    <3>5. /\ Call(r)' = Call(r) /\ request'[r].step = "cloneBody"
          /\ request'[r].read = bodies
      BY <3>2, <3>4 DEF RequestType, Call
    <3>6. HandlerInv(r)'
      BY <3>1, <3>3, <3>5 DEF HandlerInv, InFlight, At, Key
    <3> QED  BY <1>2, <3>4, <3>6
  <2> QED  BY <2>1, <2>2
<1>19. ASSUME NEW r \in Requests, LinkEventsDefault(r) PROVE HandlersInv'
  <2>1. /\ request[r].step = "linkEventsDefault" /\ request[r].step \in Steps
        /\ request[r].new = NoId
    BY <1>19, NothingNew DEF LinkEventsDefault, At, Steps
  <2>2. "linkEventsRow" \in StepsOf[Call(r).op] /\ "linkEventsRow" \in Steps
    BY <2>1, Serving DEF CallType, StepsOf, Steps
  <2> QED  BY <1>12, <1>19, <2>1, <2>2 DEF LinkEventsDefault, Stores
<1>20. ASSUME NEW r \in Requests, UnlinkDefault(r) PROVE HandlersInv'
  <2>1. /\ request[r].step = "unlinkDefault" /\ request[r].step \in Steps
        /\ request[r].new = NoId
    BY <1>20, NothingNew DEF UnlinkDefault, At, Steps
  <2>2. "unlinkRow" \in StepsOf[Call(r).op] /\ "unlinkRow" \in Steps
    BY <2>1, Serving DEF CallType, StepsOf, Steps
  <2> QED  BY <1>3, <1>12, <1>20, <2>1, <2>2 DEF UnlinkDefault, Stores
<1>21. CASE UNCHANGED vars
  BY <1>1, <1>21, OthersKeep DEF vars, HandlersInv
<1> QED
  BY <1>3, <1>5, <1>6, <1>7, <1>8, <1>9, <1>10, <1>11, <1>13, <1>14, <1>15,
     <1>16, <1>17, <1>18, <1>19, <1>20, <1>21
  DEF Next, Serve, Fail, CreateBody, Saves, UpdateBody, PatchBody, PatchAllWrite,
      RemoveBody, CloneBody, LinkEventsRow, LinkEventRow, UnlinkRow

-----------------------------------------------------------------------------
(* The types and what is said of the handlers hold together.                *)
LEMMA InvCorrect == Spec => [](TypeOK /\ HandlersInv)
<1>1. Init => TypeOK /\ HandlersInv
  BY TypeInit, HandlersInit
<1>2. TypeOK /\ HandlersInv /\ [Next]_vars => (TypeOK /\ HandlersInv)'
  BY TypeStep, HandlersStep
<1> QED  BY <1>1, <1>2, PTL DEF Spec

(* The stores and the local states of the handlers have their types.        *)
THEOREM TypeCorrect == Spec => []TypeOK
  BY InvCorrect, PTL

(* Every handler serves its call, has read what it goes on with, and its    *)
(* default, the row it deletes and the row it makes stay what they were.    *)
THEOREM HandlersCorrect == Spec => []HandlersInv
  BY InvCorrect, PTL

(* What was given to a member at the start is his as long as it is there.   *)
THEOREM GivenCorrect == Spec => []GivenInv
<1>1. Init => GivenInv
  BY AvailabilityAssumption DEF Init, GivenInv
<1>2. TypeOK /\ HandlersInv /\ GivenInv /\ [Next]_vars => GivenInv'
  BY RowsAge DEF GivenInv, Ages
<1> QED  BY <1>1, <1>2, InvCorrect, PTL DEF Spec

-----------------------------------------------------------------------------
(* A request that has not come in asks for nothing; one that has come in    *)
(* asks for the same ever after.                                            *)
Waiting == \A r \in Requests : At(r, "idle") => Call(r) = NoCall

LEMMA StepsForward ==
  ASSUME TypeOK, HandlersInv, NEW r \in Requests, Serve(r) \/ Fail(r)
  PROVE  /\ ~ At(r, "idle") /\ ~ At(r, "idle")'
         /\ Call(r)' = Call(r)
         /\ \A q \in Requests \ {r} : request'[q] = request[q]
         /\ request[r].new # NoId => request'[r].new = request[r].new
<1>1. request[r] \in RequestType
  BY DEF TypeOK
<1>2. ASSUME NEW s \in Status \ {"idle"}, Goes(r, s)
      PROVE  /\ ~ At(r, "idle")' /\ Call(r)' = Call(r)
             /\ \A q \in Requests \ {r} : request'[q] = request[q]
             /\ request'[r].new = request[r].new
  <2>1. /\ request'[r] = [request[r] EXCEPT !.step = s]
        /\ \A q \in Requests \ {r} : request'[q] = request[q]
    BY <1>2, Moves
  <2>2. /\ request'[r].step = s /\ request'[r].call = request[r].call
        /\ request'[r].new = request[r].new
    BY <1>1, <2>1 DEF RequestType
  <2> QED  BY <2>1, <2>2 DEF At, Call
<1>3. ASSUME NEW s \in Status \ {"idle"}, NEW row \in RowType \cup {NoRow},
             request' = [request EXCEPT ![r].loaded = row, ![r].step = s]
      PROVE  /\ ~ At(r, "idle")' /\ Call(r)' = Call(r)
             /\ \A q \in Requests \ {r} : request'[q] = request[q]
             /\ request'[r].new = request[r].new
  BY <1>1, <1>3, MovesLoaded DEF At, Call, RequestType
<1>4. ASSUME NEW s \in Status \ {"idle"}, NEW i \in Ids,
             request' = [request EXCEPT ![r].fallback = i, ![r].step = s]
      PROVE  /\ ~ At(r, "idle")' /\ Call(r)' = Call(r)
             /\ \A q \in Requests \ {r} : request'[q] = request[q]
             /\ request'[r].new = request[r].new
  BY <1>1, <1>4, MovesFallback DEF At, Call, RequestType
<1>5. ASSUME NEW s \in Status \ {"idle"},
             request' = [request EXCEPT ![r].read = bodies, ![r].step = s]
      PROVE  /\ ~ At(r, "idle")' /\ Call(r)' = Call(r)
             /\ \A q \in Requests \ {r} : request'[q] = request[q]
             /\ request'[r].new = request[r].new
  BY <1>1, <1>5, MovesRead DEF At, Call, RequestType
<1>6. ASSUME NEW s \in Status \ {"idle"}, NEW i \in Ids,
             request' = [request EXCEPT ![r].new = i, ![r].step = s]
      PROVE  /\ ~ At(r, "idle")' /\ Call(r)' = Call(r)
             /\ \A q \in Requests \ {r} : request'[q] = request[q]
  BY <1>1, <1>6, MovesNew DEF At, Call, RequestType
<1>7. CASE CreateRow(r) \/ CloneRow(r)
  <2>1. PICK i \in Ids, s \in {"createBody", "cloneRead"} :
          request' = [request EXCEPT ![r].new = i, ![r].step = s]
    BY <1>7 DEF CreateRow, CloneRow, Insert
  <2>2. ~ At(r, "idle") /\ request[r].new = NoId
    BY <1>7, NothingNew DEF CreateRow, CloneRow, At
  <2> QED  BY <1>6, <2>1, <2>2 DEF Status, Steps
<1>8. CASE PatchFind(r)
  <2>1. CASE Goes(r, "failed")
    BY <1>2, <1>8, <2>1 DEF PatchFind, At, Status
  <2>2. CASE ~ Goes(r, "failed")
    <3>1. PICK row \in RowType, s \in {"patchRow", "patchBody", "done"} :
            request' = [request EXCEPT ![r].loaded = row, ![r].step = s]
      BY <1>8, <2>2 DEF PatchFind, IsRow, AfterPatchRow
    <3> QED  BY <1>3, <1>8, <3>1 DEF PatchFind, At, Status, Steps
  <2> QED  BY <2>1, <2>2
<1>9. CASE CloneFind(r)
  <2>1. CASE Goes(r, "failed")
    BY <1>2, <1>9, <2>1 DEF CloneFind, At, Status
  <2>2. CASE ~ Goes(r, "failed")
    <3>1. PICK row \in RowType :
            request' = [request EXCEPT ![r].loaded = row, ![r].step = "cloneRow"]
      BY <1>9, <2>2 DEF CloneFind, IsRow
    <3> QED  BY <1>3, <1>9, <3>1 DEF CloneFind, At, Status, Steps
  <2> QED  BY <2>1, <2>2
<1>10. CASE RemoveFind(r)
  <2>1. CASE Goes(r, "failed")
    BY <1>2, <1>10, <2>1 DEF RemoveFind, At, Status
  <2>2. CASE ~ Goes(r, "failed")
    <3>1. PICK row \in RowType \cup {NoRow} :
            request' = [request EXCEPT ![r].loaded = row, ![r].step = "removeDefault"]
      BY <1>10, <2>2 DEF RemoveFind, IsRow
    <3> QED  BY <1>3, <1>10, <3>1 DEF RemoveFind, At, Status, Steps
  <2> QED  BY <2>1, <2>2
<1>11. CASE RemoveDefault(r) \/ LinkEventsDefault(r) \/ UnlinkDefault(r)
  <2>1. ~ At(r, "idle")
    BY <1>11 DEF RemoveDefault, LinkEventsDefault, UnlinkDefault, At
  <2>2. CASE Goes(r, "failed")
    BY <1>2, <2>1, <2>2 DEF Status
  <2>3. CASE ~ Goes(r, "failed")
    <3>1. PICK i \in Ids, s \in {"removeRow", "linkEventsRow", "unlinkRow"} :
            request' = [request EXCEPT ![r].fallback = i, ![r].step = s]
      BY <1>11, <2>3
      DEF RemoveDefault, LinkEventsDefault, UnlinkDefault, FindDefault, Defaults
    <3> QED  BY <1>4, <2>1, <3>1 DEF Status, Steps
  <2> QED  BY <2>2, <2>3
<1>12. CASE PatchAllRead(r) \/ CloneRead(r)
  <2>1. ~ At(r, "idle")
    BY <1>12 DEF PatchAllRead, CloneRead, At
  <2>2. CASE \E s \in {"done", "failed"} : Goes(r, s)
    BY <1>2, <2>1, <2>2 DEF Status
  <2>3. CASE \E s \in {"patchAllWrite", "cloneBody"} :
               request' = [request EXCEPT ![r].read = bodies, ![r].step = s]
    BY <1>5, <2>1, <2>3 DEF Status, Steps
  <2> QED  BY <1>12, <2>2, <2>3 DEF PatchAllRead, CloneRead
<1>13. CASE \E s \in Status \ {"idle"} : ~ At(r, "idle") /\ Goes(r, s)
  BY <1>2, <1>13
<1>14. CASE Fail(r) \/ CreateBody(r) \/ UpdateFind(r) \/ UpdateRow(r) \/ UpdateBody(r)
            \/ PatchRow(r) \/ PatchBody(r) \/ PatchAllWrite(r) \/ RemoveRow(r)
            \/ RemoveBody(r) \/ CloneBody(r) \/ LinkEventsRow(r) \/ LinkEventRow(r)
            \/ UnlinkRow(r)
  <2>1. ~ At(r, "idle")
    BY <1>14
    DEF Fail, InFlight, CreateBody, UpdateFind, UpdateRow, UpdateBody, PatchRow, PatchBody,
        PatchAllWrite, RemoveRow, RemoveBody, CloneBody, LinkEventsRow, LinkEventRow,
        UnlinkRow, At, Steps
  <2>2. \E s \in {"done", "failed", "updateRow", "updateBody", "patchBody", "removeBody"} :
           Goes(r, s)
    BY <1>14
    DEF Fail, CreateBody, Saves, UpdateFind, UpdateRow, UpdateBody, PatchRow, AfterPatchRow,
        PatchBody, PatchAllWrite, RemoveRow, RemoveBody, CloneBody, LinkEventsRow,
        LinkEventRow, UnlinkRow
  <2> QED  BY <1>13, <2>1, <2>2 DEF Status, Steps
<1> QED
  BY <1>7, <1>8, <1>9, <1>10, <1>11, <1>12, <1>14 DEF Serve

LEMMA WaitingCorrect == Spec => []Waiting
<1>1. Init => Waiting
  BY DEF Init, Waiting, At, Call
<1>2. TypeOK /\ HandlersInv /\ Waiting /\ [Next]_vars => Waiting'
  <2> SUFFICES ASSUME TypeOK, HandlersInv, Waiting, [Next]_vars PROVE Waiting'
    OBVIOUS
  <2>1. ASSUME NEW r \in Requests, Receive(r) PROVE Waiting'
    <3>1. PICK c \in Calls :
            request' = [request EXCEPT ![r].call = c, ![r].step = First[c.op]]
      BY <2>1 DEF Receive
    <3>2. First[c.op] # "idle"
      BY AvailabilityAssumption DEF CallType, First
    <3> QED  BY <3>1, <3>2 DEF Waiting, At, Call, TypeOK, RequestType
  <2>2. ASSUME NEW r \in Requests, Serve(r) \/ Fail(r) PROVE Waiting'
    BY <2>2, StepsForward DEF Waiting, At, Call
  <2>3. CASE UNCHANGED vars
    BY <2>3 DEF vars, Waiting, At, Call
  <2> QED  BY <2>1, <2>2, <2>3 DEF Next
<1> QED  BY <1>1, <1>2, InvCorrect, PTL DEF Spec

(* Discipline is a matter of the past.                                      *)
LEMMA WasDisciplined == TypeOK /\ HandlersInv /\ Waiting /\ [Next]_vars /\ Disciplined' => Disciplined
<1> SUFFICES ASSUME TypeOK, HandlersInv, Waiting, [Next]_vars, Disciplined' PROVE Disciplined
  OBVIOUS
<1>1. ASSUME NEW r \in Requests, Receive(r) PROVE Disciplined
  BY <1>1 DEF Receive, Disciplined, Waiting, Call, TypeOK
<1>2. ASSUME NEW r \in Requests, Serve(r) \/ Fail(r) PROVE Disciplined
  BY <1>2, StepsForward DEF Disciplined, Own, Call
<1>3. CASE UNCHANGED vars
  BY <1>3 DEF vars, Disciplined, Own, Call
<1> QED  BY <1>1, <1>2, <1>3 DEF Next
-----------------------------------------------------------------------------
(* A member who is disciplined names rows of his own.                       *)
LEMMA NamesOwn ==
  ASSUME GivenInv, HandlersInv, Disciplined, NEW r \in Requests, request[r].step \in Steps
  PROVE  /\ Call(r).op \notin {"update", "linkEvents"}
         /\ Call(r).op \notin {"create", "patchAll"} =>
               /\ rows[Call(r).id] # Unused
               /\ IsRow(Call(r).id) => rows[Call(r).id].profile = Call(r).profile
<1>1. Call(r) \in CallType /\ Call(r) # NoCall /\ Call(r).id \in Ids
  BY Serving, AvailabilityAssumption
<1>2. Own(Call(r))
  BY <1>1 DEF Disciplined
<1> QED  BY <1>1, <1>2 DEF Own, GivenInv

(* The transaction of patch writes the flag of the member's row and takes   *)
(* that of his others when it sets one.                                     *)
LEMMA PatchedRows ==
  ASSUME TypeOK, HandlersInv, GivenInv, Disciplined, NEW r \in Requests, PatchRow(r)
  PROVE  /\ Merged(r) \in BOOLEAN /\ Call(r).id \in Ids
         /\ IsRow(Call(r).id) => /\ rows'[Call(r).id] \in RowType
                                 /\ rows'[Call(r).id].profile = Call(r).profile
                                 /\ rows[Call(r).id].profile = Call(r).profile
                                 /\ rows'[Call(r).id].default = Merged(r)
         /\ \A i \in Ids : i # Call(r).id \/ ~ IsRow(i) =>
               IF IsRow(i) /\ Merged(r) /\ rows[i].profile = Call(r).profile
               THEN /\ rows'[i] \in RowType /\ rows'[i].profile = rows[i].profile
                    /\ rows'[i].default = FALSE
               ELSE rows'[i] = rows[i]
<1>1. Merged(r) \in BOOLEAN
  BY PatchFlags DEF PatchRow
<1>2. /\ IsRow(Call(r).id) => rows[Call(r).id].profile = Call(r).profile
      /\ Call(r).id \in Ids
  BY NamesOwn, Serving DEF PatchRow, At, CallType, StepsOf, Steps
<1>3. \A i \in Ids, flag \in BOOLEAN : IsRow(i) =>
         /\ [rows[i] EXCEPT !.default = flag] \in RowType
         /\ [rows[i] EXCEPT !.default = flag].profile = rows[i].profile
         /\ [rows[i] EXCEPT !.default = flag].default = flag
  BY Flagged DEF IsRow
<1>4. IsRow(Call(r).id) => /\ rows'[Call(r).id] \in RowType
                           /\ rows'[Call(r).id].profile = rows[Call(r).id].profile
                           /\ rows'[Call(r).id].default = Merged(r)
  BY <1>1, <1>2, <1>3 DEF PatchRow, Patched
<1>5. \A i \in Ids : i # Call(r).id \/ ~ IsRow(i) =>
         IF IsRow(i) /\ Merged(r) /\ rows[i].profile = Call(r).profile
         THEN /\ rows'[i] \in RowType /\ rows'[i].profile = rows[i].profile
              /\ rows'[i].default = FALSE
         ELSE rows'[i] = rows[i]
  BY <1>3 DEF PatchRow, Patched
<1> QED  BY <1>1, <1>2, <1>4, <1>5

OneDefault == \A i, j \in Ids :
    /\ IsRow(i) /\ rows[i].default
    /\ IsRow(j) /\ rows[j].default
    /\ rows[i].profile = rows[j].profile
    => i = j

(* A step that makes no default leaves at most one.                         *)
LEMMA NoNewDefault ==
  ASSUME OneDefault,
         \A i \in Ids : IsRow(i)' /\ rows'[i].default =>
            IsRow(i) /\ rows[i].default /\ rows[i].profile = rows'[i].profile
  PROVE  OneDefault'
  BY DEF OneDefault

LEMMA OneDefaultStep ==
  TypeOK /\ HandlersInv /\ GivenInv /\ Disciplined /\ OneDefault /\ [Next]_vars => OneDefault'
<1> SUFFICES ASSUME TypeOK, HandlersInv, GivenInv, Disciplined, OneDefault, [Next]_vars
             PROVE  OneDefault'
  OBVIOUS
<1>1. CASE rows' = rows
  BY <1>1 DEF OneDefault, IsRow
<1>2. ASSUME NEW r \in Requests, CreateRow(r) PROVE OneDefault'
  <2>1. PICK i \in Ids : rows' = [rows EXCEPT ![i] = [profile |-> Call(r).profile, default |-> FALSE]]
    BY <1>2 DEF CreateRow, Insert
  <2>2. rows'[i].default = FALSE /\ \A j \in Ids \ {i} : rows'[j] = rows[j]
    BY <2>1 DEF TypeOK
  <2> QED  BY <2>2, NoNewDefault DEF IsRow
<1>3. ASSUME NEW r \in Requests, CloneRow(r) PROVE OneDefault'
  <2>1. PICK i \in Ids : rows' = [rows EXCEPT ![i] = [request[r].loaded EXCEPT !.default = FALSE]]
    BY <1>3 DEF CloneRow, Insert
  <2>2. request[r].loaded \in RowType
    BY <1>3 DEF CloneRow, At, HandlersInv, HandlerInv
  <2>3. [request[r].loaded EXCEPT !.default = FALSE].default = FALSE
    BY <2>2, Flagged
  <2>4. rows'[i].default = FALSE /\ \A j \in Ids \ {i} : rows'[j] = rows[j]
    BY <2>1, <2>3 DEF TypeOK
  <2> QED  BY <2>4, NoNewDefault DEF IsRow
<1>4. ASSUME NEW r \in Requests, UpdateRow(r) PROVE OneDefault'
  BY <1>4, NamesOwn, Serving DEF UpdateRow, At, CallType, StepsOf, Steps
<1>5. ASSUME NEW r \in Requests, PatchRow(r) PROVE OneDefault'
  <2>1. /\ Merged(r) \in BOOLEAN
        /\ IsRow(Call(r).id) => /\ rows'[Call(r).id].profile = Call(r).profile
                                /\ rows[Call(r).id].profile = Call(r).profile
                                /\ rows'[Call(r).id].default = Merged(r)
    BY <1>5, PatchedRows
  <2>2. \A i \in Ids : i # Call(r).id \/ ~ IsRow(i) =>
           IF IsRow(i) /\ Merged(r) /\ rows[i].profile = Call(r).profile
           THEN rows'[i].profile = rows[i].profile /\ rows'[i].default = FALSE
           ELSE rows'[i] = rows[i]
    BY <1>5, PatchedRows
  <2>3. \A i \in Ids : IsRow(i)' => IsRow(i)
    BY <2>2 DEF IsRow
  <2>4. CASE Merged(r)
    <3>1. ASSUME NEW i \in Ids, IsRow(i)', rows'[i].default, i # Call(r).id
          PROVE  /\ rows'[i] = rows[i] /\ IsRow(i)
                 /\ rows[i].profile # Call(r).profile
      BY <2>2, <2>3, <2>4, <3>1
    <3>2. rows'[Call(r).id] \in RowType /\ Call(r).id \in Ids
          => rows'[Call(r).id].profile = Call(r).profile
      BY <2>1, <2>3 DEF IsRow
    <3>3. ASSUME NEW i \in Ids, NEW j \in Ids, IsRow(i)', rows'[i].default,
                 IsRow(j)', rows'[j].default, rows'[i].profile = rows'[j].profile
          PROVE  i = j
      BY <3>1, <3>2, <3>3 DEF OneDefault, IsRow
    <3> QED  BY <3>3 DEF OneDefault
  <2>5. CASE ~ Merged(r)
    <3>1. \A i \in Ids : IsRow(i)' /\ rows'[i].default => rows'[i] = rows[i]
      BY <2>1, <2>2, <2>3, <2>5
    <3> QED  BY <2>3, <3>1, NoNewDefault
  <2> QED  BY <2>4, <2>5
<1>6. ASSUME NEW r \in Requests, RemoveRow(r) PROVE OneDefault'
  <2>1. \A i \in Ids : rows'[i] = rows[i] \/ rows'[i] = Gone
    BY <1>6 DEF RemoveRow, TypeOK
  <2>2. \A i \in Ids : IsRow(i)' => rows'[i] = rows[i]
    BY <2>1, AvailabilityAssumption DEF IsRow
  <2> QED  BY <2>2, NoNewDefault DEF IsRow
<1> QED
  BY <1>1, <1>2, <1>3, <1>4, <1>5, <1>6
  DEF Next, Serve, vars, Stores, Receive, Fail, CreateBody, UpdateFind, UpdateBody,
      PatchFind, PatchBody, PatchAllRead, PatchAllWrite, RemoveFind, RemoveDefault,
      RemoveBody, CloneFind, CloneRead, CloneBody, LinkEventsDefault, LinkEventsRow,
      LinkEventRow, UnlinkDefault, UnlinkRow

OneDefaultInv == Disciplined => OneDefault

LEMMA OneDefaultCorrect == Spec => []OneDefaultInv
<1>1. Init => OneDefaultInv
  BY AvailabilityAssumption DEF Init, OneDefaultInv, OneDefault, IsRow
<1>2. TypeOK /\ HandlersInv /\ GivenInv /\ Waiting /\ OneDefaultInv /\ [Next]_vars => OneDefaultInv'
  BY WasDisciplined, OneDefaultStep DEF OneDefaultInv
<1> QED  BY <1>1, <1>2, InvCorrect, GivenCorrect, WaitingCorrect, PTL DEF Spec

(* Requests about their own availabilities never give a member two          *)
(* defaults, whatever they read before and however they interleave.         *)
THEOREM OneDefaultEach == Spec => []AtMostOneDefault
<1>1. OneDefaultInv => AtMostOneDefault
  BY DEF OneDefaultInv, OneDefault, AtMostOneDefault, Defaults
<1> QED  BY <1>1, OneDefaultCorrect, PTL

-----------------------------------------------------------------------------
LinkedOwn == \A l \in LinkIds : IsRow(links[l]) /\ rows[links[l]].profile = LinkProfile[l]

(* Rows that are there stay, with their owners, unless they are removed.    *)
LEMMA RowsStay ==
  ASSUME TypeOK, HandlersInv, [Next]_vars, NEW i \in Ids, IsRow(i),
         \A r \in Requests : RemoveRow(r) => Call(r).id # i
  PROVE  IsRow(i)' /\ rows'[i].profile = rows[i].profile
<1>1. rows[i] # Unused
  BY AvailabilityAssumption DEF IsRow
<1>2. IsRow(i)' => rows'[i].profile = rows[i].profile
  BY <1>1, RowsAge DEF Ages
<1>3. CASE rows' = rows
  BY <1>3 DEF IsRow
<1>4. ASSUME NEW r \in Requests, CreateRow(r) \/ CloneRow(r) PROVE IsRow(i)'
  BY <1>1, <1>4 DEF CreateRow, CloneRow, Insert, IsRow, TypeOK
<1>5. ASSUME NEW r \in Requests, UpdateRow(r) PROVE IsRow(i)'
  <2>1. CASE ~ IsRow(Call(r).id)
    BY <1>3, <1>5, <2>1 DEF UpdateRow
  <2>2. CASE IsRow(Call(r).id)
    <3>1. PICK flag \in BOOLEAN : rows' =
            [rows EXCEPT ![Call(r).id] = [rows[Call(r).id] EXCEPT !.default = flag]]
      BY <1>5, <2>2, UpdateFlags
    <3>2. [rows[Call(r).id] EXCEPT !.default = flag] \in RowType
      BY <2>2, Flagged DEF IsRow
    <3> QED  BY <3>1, <3>2 DEF IsRow, TypeOK
  <2> QED  BY <2>1, <2>2
<1>6. ASSUME NEW r \in Requests, PatchRow(r) PROVE IsRow(i)'
  <2>1. Merged(r) \in BOOLEAN
    BY <1>6, PatchFlags DEF PatchRow
  <2>2. \A flag \in BOOLEAN : [rows[i] EXCEPT !.default = flag] \in RowType
    BY Flagged DEF IsRow
  <2> QED  BY <1>6, <2>1, <2>2 DEF PatchRow, Patched, IsRow
<1>7. ASSUME NEW r \in Requests, RemoveRow(r) PROVE IsRow(i)'
  BY <1>7 DEF RemoveRow, IsRow, TypeOK
<1> QED
  BY <1>2, <1>3, <1>4, <1>5, <1>6, <1>7
  DEF Next, Serve, vars, Stores, Receive, Fail, CreateBody, UpdateFind, UpdateBody,
      PatchFind, PatchBody, PatchAllRead, PatchAllWrite, RemoveFind, RemoveDefault,
      RemoveBody, CloneFind, CloneRead, CloneBody, LinkEventsDefault, LinkEventsRow,
      LinkEventRow, UnlinkDefault, UnlinkRow

LEMMA LinkedOwnStep ==
  TypeOK /\ HandlersInv /\ GivenInv /\ Disciplined /\ LinkedOwn /\ [Next]_vars => LinkedOwn'
<1> SUFFICES ASSUME TypeOK, HandlersInv, GivenInv, Disciplined, LinkedOwn, [Next]_vars,
                    NEW l \in LinkIds
             PROVE  IsRow(links[l])' /\ (rows[links[l]].profile = LinkProfile[l])'
  BY DEF LinkedOwn
<1>1. links[l] \in Ids /\ IsRow(links[l]) /\ rows[links[l]].profile = LinkProfile[l]
  BY DEF LinkedOwn, TypeOK
<1>2. CASE links'[l] = links[l] /\ \A r \in Requests : RemoveRow(r) => Call(r).id # links[l]
  <2>1. IsRow(links[l])' <=> rows'[links'[l]] \in RowType
    BY DEF IsRow
  <2> QED  BY <1>1, <1>2, RowsStay DEF IsRow
<1>3. ASSUME NEW r \in Requests, NEW i \in Ids, rows' = rows, links'[l] = i,
             IsRow(i), rows[i].profile = LinkProfile[l]
      PROVE  IsRow(links[l])' /\ (rows[links[l]].profile = LinkProfile[l])'
  BY <1>3 DEF IsRow
<1>4. ASSUME NEW r \in Requests, RemoveRow(r)
      PROVE  IsRow(links[l])' /\ (rows[links[l]].profile = LinkProfile[l])'
  <2>1. /\ request[r].step = "removeRow" /\ request[r].step \in Steps
        /\ request[r].fallback \in Ids
        /\ IsRow(request[r].fallback) =>
              rows[request[r].fallback].profile = Call(r).profile
    BY <1>4 DEF RemoveRow, At, Steps, HandlersInv, HandlerInv
  <2>2. /\ Call(r).id \in Ids
        /\ IsRow(Call(r).id) => rows[Call(r).id].profile = Call(r).profile
    BY <2>1, NamesOwn, Serving DEF CallType, StepsOf
  <2>3. CASE Goes(r, "failed") /\ UNCHANGED <<rows, links, overlapped>>
    BY <1>1, <2>3 DEF IsRow
  <2>4. CASE /\ LinkedTo(Call(r).id) = {}
                \/ (request[r].fallback # Call(r).id /\ IsRow(request[r].fallback))
             /\ links' = Relinked(LinkedTo(Call(r).id), request[r].fallback)
             /\ rows' = [rows EXCEPT ![Call(r).id] = IF IsRow(Call(r).id) THEN Gone ELSE @]
    <3>1. CASE links[l] = Call(r).id
      <4>1. /\ request[r].fallback # Call(r).id /\ IsRow(request[r].fallback)
            /\ links'[l] = request[r].fallback
        BY <2>4, <3>1 DEF LinkedTo, Relinked
      <4>2. rows'[links'[l]] = rows[request[r].fallback]
        BY <2>1, <2>4, <4>1 DEF TypeOK
      <4>3. rows[request[r].fallback].profile = LinkProfile[l]
        BY <1>1, <2>1, <2>2, <3>1, <4>1
      <4> QED  BY <4>1, <4>2, <4>3 DEF IsRow
    <3>2. CASE links[l] # Call(r).id
      <4>1. links'[l] = links[l] /\ rows'[links[l]] = rows[links[l]]
        BY <1>1, <2>4, <3>2 DEF LinkedTo, Relinked, TypeOK
      <4> QED  BY <1>1, <4>1 DEF IsRow
    <3> QED  BY <3>1, <3>2
  <2> QED  BY <1>4, <2>3, <2>4 DEF RemoveRow
<1>5. CASE ~ \E r \in Requests : RemoveRow(r)
  <2>1. CASE links' = links
    BY <1>2, <1>5, <2>1
  <2>2. ASSUME NEW r \in Requests, LinkEventsRow(r)
        PROVE  IsRow(links[l])' /\ (rows[links[l]].profile = LinkProfile[l])'
    BY <2>2, NamesOwn, Serving DEF LinkEventsRow, At, CallType, StepsOf, Steps
  <2>3. ASSUME NEW r \in Requests, LinkEventRow(r)
        PROVE  IsRow(links[l])' /\ (rows[links[l]].profile = LinkProfile[l])'
    <3>1. /\ Call(r).id \in Ids
          /\ IsRow(Call(r).id) => rows[Call(r).id].profile = Call(r).profile
      BY <2>3, NamesOwn, Serving DEF LinkEventRow, At, CallType, StepsOf, Steps
    <3>2. \/ links'[l] = links[l]
          \/ /\ links'[l] = Call(r).id /\ IsRow(Call(r).id)
             /\ LinkProfile[l] = Call(r).profile
      BY <2>3 DEF LinkEventRow, ReferenceHolds, Relinked
    <3>3. rows' = rows
      BY <2>3 DEF LinkEventRow
    <3> QED  BY <1>1, <1>3, <3>1, <3>2, <3>3
  <2>4. ASSUME NEW r \in Requests, UnlinkRow(r)
        PROVE  IsRow(links[l])' /\ (rows[links[l]].profile = LinkProfile[l])'
    <3>1. /\ request[r].fallback \in Ids
          /\ IsRow(request[r].fallback) =>
                rows[request[r].fallback].profile = Call(r).profile
      BY <2>4 DEF UnlinkRow, At, HandlersInv, HandlerInv
    <3>2. IsRow(Call(r).id) => rows[Call(r).id].profile = Call(r).profile
      BY <2>4, NamesOwn, Serving DEF UnlinkRow, At, CallType, StepsOf, Steps
    <3>3. \/ links'[l] = links[l]
          \/ /\ links'[l] = request[r].fallback /\ IsRow(request[r].fallback)
             /\ links[l] = Call(r).id
      BY <2>4 DEF UnlinkRow, ReferenceHolds, LinkedTo, Relinked
    <3>4. rows' = rows
      BY <2>4 DEF UnlinkRow
    <3> QED  BY <1>1, <1>3, <3>1, <3>2, <3>3, <3>4
  <2> QED
    BY <1>5, <2>1, <2>2, <2>3, <2>4
    DEF Next, Serve, vars, Stores, Receive, Fail, CreateRow, CreateBody, UpdateFind,
        UpdateRow, UpdateBody, PatchFind, PatchRow, PatchBody, PatchAllRead,
        PatchAllWrite, RemoveFind, RemoveDefault, RemoveBody, CloneFind, CloneRow,
        CloneRead, CloneBody, LinkEventsDefault, UnlinkDefault
<1> QED  BY <1>4, <1>5

LinkedOwnInv == Disciplined => LinkedOwn

LEMMA LinkedOwnCorrect == Spec => []LinkedOwnInv
<1>1. Init => LinkedOwnInv
  BY AvailabilityAssumption DEF Init, LinkedOwnInv, LinkedOwn, IsRow
<1>2. TypeOK /\ HandlersInv /\ GivenInv /\ Waiting /\ LinkedOwnInv /\ [Next]_vars => LinkedOwnInv'
  BY WasDisciplined, LinkedOwnStep DEF LinkedOwnInv
<1> QED  BY <1>1, <1>2, InvCorrect, GivenCorrect, WaitingCorrect, PTL DEF Spec

(* The events of a member keep using availabilities that exist and are his, *)
(* even when one is removed while another request links it.                 *)
THEOREM LinksStayOwn == Spec => []LinksOwn
<1>1. LinkedOwnInv => LinksOwn
  BY DEF LinkedOwnInv, LinkedOwn, LinksOwn
<1> QED  BY <1>1, LinkedOwnCorrect, PTL

-----------------------------------------------------------------------------
(* A body is taken away only when its row is gone.                          *)
LEMMA BodiesKept ==
  ASSUME TypeOK, HandlersInv, [Next]_vars, NEW k \in Keys, bodies[k] # NoBody
  PROVE  bodies'[k] # NoBody \/ rows[k[2]] = Gone
<1>1. CASE bodies' = bodies
  BY <1>1
<1>2. ASSUME NEW r \in Requests, Writes(r) PROVE bodies'[k] # NoBody
  <2>1. PICK body \in BodyType : bodies' = [bodies EXCEPT ![Target(r)] = body]
    BY <1>2, BodyWritten
  <2> QED  BY <2>1, AvailabilityAssumption DEF TypeOK
<1>3. ASSUME NEW r \in Requests, PatchAllWrite(r) PROVE bodies'[k] # NoBody
  BY <1>3, AllWritten, AvailabilityAssumption
<1>4. ASSUME NEW r \in Requests, RemoveBody(r)
      PROVE  bodies'[k] # NoBody \/ rows[k[2]] = Gone
  <2>1. rows[Call(r).id] = Gone
    BY <1>4 DEF RemoveBody, At, HandlersInv, HandlerInv
  <2>2. bodies' = [bodies EXCEPT ![Key(r)] = NoBody]
    BY <1>4 DEF RemoveBody
  <2>3. CASE k = Key(r)
    BY <2>1, <2>3 DEF Key
  <2>4. CASE k # Key(r)
    BY <2>2, <2>4 DEF TypeOK
  <2> QED  BY <2>3, <2>4
<1> QED
  BY <1>1, <1>2, <1>3, <1>4
  DEF Next, Serve, Writes, vars, Stores, Receive, Fail, CreateRow, UpdateFind, UpdateRow,
      PatchFind, PatchRow, PatchAllRead, RemoveFind, RemoveDefault, RemoveRow, CloneFind,
      CloneRow, CloneRead, LinkEventsDefault, LinkEventsRow, LinkEventRow, UnlinkDefault,
      UnlinkRow

(* While an owner's row is there, no request takes away its body.           *)
THEOREM BodiesNeverVanish == Spec => BodiesStay
<1>1. ASSUME TypeOK, HandlersInv, [Next]_vars, NEW i \in Ids, IsRow(i),
             bodies[<<rows[i].profile, i>>] # NoBody
      PROVE  bodies'[<<rows[i].profile, i>>] # NoBody
  <2>1. rows[i] # Gone /\ <<rows[i].profile, i>> \in Keys
    BY <1>1, AvailabilityAssumption DEF IsRow, RowType, Keys
  <2> QED  BY <1>1, <2>1, BodiesKept
<1>2. TypeOK /\ HandlersInv /\ [Next]_vars =>
         [\A i \in Ids :
             /\ IsRow(i) /\ IsRow(i)'
             /\ bodies[<<rows[i].profile, i>>] # NoBody
             => bodies'[<<rows[i].profile, i>>] # NoBody]_vars
  BY <1>1
<1> QED  BY <1>2, InvCorrect, PTL DEF Spec, BodiesStay

-----------------------------------------------------------------------------
(* A create or clone that answers has written the body of its row, under    *)
(* the field of the member who asked.                                       *)
LEMMA DoneWrites ==
  ASSUME TypeOK, HandlersInv, NEW r \in Requests, Serve(r) \/ Fail(r), request[r].new # NoId,
         request[r].step # "done", request'[r].step = "done"
  PROVE  bodies'[<<Call(r).profile, request[r].new>>] # NoBody
<1>1. request[r].step \in {"createBody", "cloneRead", "cloneBody", "failed"}
  BY NothingNew
<1>2. request[r].step \in Steps
  BY <1>1 DEF Serve, Fail, InFlight, CreateRow, CreateBody, UpdateFind, UpdateRow, UpdateBody,
      PatchFind, PatchRow, PatchBody, PatchAllRead, PatchAllWrite, RemoveFind,
      RemoveDefault, RemoveRow, RemoveBody, CloneFind, CloneRow, CloneRead, CloneBody,
      LinkEventsDefault, LinkEventsRow, LinkEventRow, UnlinkDefault, UnlinkRow, At, Steps
<1>3. <<Call(r).profile, request[r].new>> \in Keys
  BY <1>2, Serving DEF Keys, TypeOK, RequestType
<1>4. CreateBody(r) \/ CloneRead(r) \/ CloneBody(r) \/ Fail(r)
  BY <1>1 DEF Serve, CreateRow, UpdateFind, UpdateRow, UpdateBody, PatchFind, PatchRow,
      PatchBody, PatchAllRead, PatchAllWrite, RemoveFind, RemoveDefault, RemoveRow,
      RemoveBody, CloneFind, CloneRow, LinkEventsDefault, LinkEventsRow, LinkEventRow,
      UnlinkDefault, UnlinkRow, At
<1>5. CASE Fail(r) \/ CloneRead(r)
  <2>1. \/ Goes(r, "failed")
        \/ request' = [request EXCEPT ![r].read = bodies, ![r].step = "cloneBody"]
    BY <1>5 DEF Fail, CloneRead
  <2>2. request[r] \in RequestType
    BY DEF TypeOK
  <2>3. \/ request'[r] = [request[r] EXCEPT !.step = "failed"]
        \/ request'[r] = [request[r] EXCEPT !.read = bodies, !.step = "cloneBody"]
    BY <2>1, Moves, MovesRead DEF Status, Steps
  <2> QED  BY <2>2, <2>3 DEF RequestType
<1>6. CASE CreateBody(r) \/ CloneBody(r)
  <2>1. PICK body \in BodyType :
           bodies' = [bodies EXCEPT ![<<Call(r).profile, request[r].new>>] = body]
    BY <1>6, BodyWritten DEF Target, Writes, CreateBody, CloneBody, At
  <2> QED  BY <1>3, <2>1, AvailabilityAssumption DEF TypeOK
<1> QED  BY <1>4, <1>5, <1>6

(* A row that appears was made by a request that has yet to write its body. *)
LEMMA RowsMade ==
  ASSUME TypeOK, HandlersInv, [Next]_vars, NEW i \in Ids, ~ IsRow(i), IsRow(i)'
  PROVE  \E r \in Requests : request'[r].new = i /\ request'[r].step # "done"
<1>1. rows[i] = Unused
  BY RowsAge DEF Ages
<1>2. rows'[i] # Unused /\ rows' # rows
  BY <1>1, AvailabilityAssumption DEF IsRow
<1>3. \A j \in Ids : rows[j] = Unused => ~ IsRow(j)
  BY AvailabilityAssumption DEF IsRow
<1>4. CASE \E r \in Requests : UpdateRow(r) \/ PatchRow(r) \/ RemoveRow(r)
  BY <1>1, <1>2, <1>3, <1>4 DEF UpdateRow, PatchRow, Patched, RemoveRow, TypeOK
<1>5. ASSUME NEW r \in Requests, CreateRow(r) \/ CloneRow(r)
      PROVE  request'[r].new = i /\ request'[r].step # "done"
  <2>1. PICK j \in Ids, s \in {"createBody", "cloneRead"} :
           /\ \A k \in Ids \ {j} : rows'[k] = rows[k]
           /\ request' = [request EXCEPT ![r].new = j, ![r].step = s]
    BY <1>5 DEF CreateRow, CloneRow, Insert, TypeOK
  <2>2. i = j
    BY <1>1, <1>2, <2>1
  <2>3. request[r] \in RequestType /\ request'[r] = [request[r] EXCEPT !.new = i, !.step = s]
    BY <2>1, <2>2, MovesNew DEF TypeOK, Status, Steps
  <2> QED  BY <2>3 DEF RequestType
<1> QED
  BY <1>2, <1>4, <1>5
  DEF Next, Serve, vars, Stores, Receive, Fail, CreateBody, UpdateFind, UpdateBody,
      PatchFind, PatchBody, PatchAllRead, PatchAllWrite, RemoveFind, RemoveDefault,
      RemoveBody, CloneFind, CloneRead, CloneBody, LinkEventsDefault, LinkEventsRow,
      LinkEventRow, UnlinkDefault, UnlinkRow

LEMMA BodiesStep == TypeOK /\ HandlersInv /\ BodiesAccounted /\ [Next]_vars => BodiesAccounted'
<1> SUFFICES ASSUME TypeOK, HandlersInv, BodiesAccounted, [Next]_vars, NEW i \in Ids,
                    IsRow(i)', bodies'[<<rows'[i].profile, i>>] = NoBody
             PROVE  \E r \in Requests :
                       /\ request'[r].new = i
                       /\ request'[r].step # "done" \/ Call(r)'.profile # rows'[i].profile
  BY DEF BodiesAccounted
<1>1. CASE ~ IsRow(i)
  BY <1>1, RowsMade
<1>2. CASE IsRow(i)
  <2>1. rows'[i].profile = rows[i].profile
    BY <1>2, RowsAge, AvailabilityAssumption DEF Ages, IsRow
  <2>2. rows[i] # Gone /\ <<rows[i].profile, i>> \in Keys
    BY <1>2, AvailabilityAssumption DEF IsRow, RowType, Keys
  <2>3. bodies[<<rows[i].profile, i>>] = NoBody
    BY <2>1, <2>2, BodiesKept
  <2>4. PICK r \in Requests :
           /\ request[r].new = i
           /\ request[r].step # "done" \/ Call(r).profile # rows[i].profile
    BY <1>2, <2>3 DEF BodiesAccounted
  <2>5. request[r].new # NoId
    BY <2>4, AvailabilityAssumption
  <2>6. CASE request'[r] = request[r]
    BY <2>1, <2>4, <2>6 DEF Call
  <2>7. CASE Serve(r) \/ Fail(r)
    <3>1. request'[r].new = i /\ Call(r)' = Call(r)
      BY <2>4, <2>5, <2>7, StepsForward
    <3>2. request[r].step # "done"
      BY <2>7
      DEF Serve, Fail, InFlight, CreateRow, CreateBody, UpdateFind, UpdateRow, UpdateBody,
          PatchFind, PatchRow, PatchBody, PatchAllRead, PatchAllWrite, RemoveFind,
          RemoveDefault, RemoveRow, RemoveBody, CloneFind, CloneRow, CloneRead, CloneBody,
          LinkEventsDefault, LinkEventsRow, LinkEventRow, UnlinkDefault, UnlinkRow, At, Steps
    <3>3. request'[r].step = "done" => Call(r).profile # rows[i].profile
      BY <2>1, <2>4, <2>5, <2>7, <3>2, DoneWrites
    <3> QED  BY <2>1, <3>1, <3>3
  <2>8. ASSUME NEW q \in Requests \ {r}, Receive(q) \/ Serve(q) \/ Fail(q)
        PROVE  request'[r] = request[r]
    BY <2>8, StepsForward DEF Receive, TypeOK
  <2>9. ~ Receive(r)
    BY <2>5, NothingNew DEF Receive, At
  <2> QED  BY <2>6, <2>7, <2>8, <2>9 DEF Next, vars
<1> QED  BY <1>1, <1>2

(* A member's row without a body is the work of a create or clone that      *)
(* ended half way or was made of somebody else's row.                       *)
THEOREM BodilessRowsExplained == Spec => []BodiesAccounted
<1>1. Init => BodiesAccounted
  <2> SUFFICES ASSUME Init, NEW i \in Ids, IsRow(i)
               PROVE  bodies[<<rows[i].profile, i>>] # NoBody
    BY DEF BodiesAccounted
  <2>1. <<rows[i].profile, i>> \in Keys
    BY DEF IsRow, RowType, Keys
  <2>2. bodies[<<rows[i].profile, i>>] = [availableTimes |-> Hours, overrides |-> {"coming"}]
    BY <2>1 DEF Init, IsRow
  <2>3. [availableTimes |-> Hours, overrides |-> {"coming"}] \in BodyType
    BY DEF BodyType, Days
  <2>4. NoBody \notin BodyType
    BY AvailabilityAssumption
  <2> QED  BY <2>2, <2>3, <2>4
<1> QED  BY <1>1, BodiesStep, InvCorrect, PTL DEF Spec
-----------------------------------------------------------------------------
(* Only a request at work takes a step.                                     *)
LEMMA AtWork ==
  ASSUME NEW r \in Requests, Serve(r) \/ Fail(r)
  PROVE  r \in InFlight
  BY DEF Serve, Fail, InFlight, CreateRow, CreateBody, UpdateFind, UpdateRow, UpdateBody,
     PatchFind, PatchRow, PatchBody, PatchAllRead, PatchAllWrite, RemoveFind,
     RemoveDefault, RemoveRow, RemoveBody, CloneFind, CloneRow, CloneRead, CloneBody,
     LinkEventsDefault, LinkEventsRow, LinkEventRow, UnlinkDefault, UnlinkRow, At, Steps

(* Once two requests have met, they have.                                   *)
LEMMA StaysSerial == [Next]_vars /\ ~ overlapped' => ~ overlapped
  BY DEF Next, Serve, Receive, Fail, vars, Stores, CreateRow, CreateBody, UpdateFind,
     UpdateRow, UpdateBody, PatchFind, PatchRow, PatchBody, PatchAllRead, PatchAllWrite,
     RemoveFind, RemoveDefault, RemoveRow, RemoveBody, CloneFind, CloneRow, CloneRead,
     CloneBody, LinkEventsDefault, LinkEventsRow, LinkEventRow, UnlinkDefault, UnlinkRow

(* A request comes in while no other is at work, and only then.             *)
LEMMA AloneStep ==
  ASSUME TypeOK, HandlersInv, [Next]_vars, Alone, ~ overlapped'
  PROVE  Alone'
<1>1. ASSUME NEW r \in Requests, Receive(r) PROVE Alone'
  <2>1. \A q \in Requests \ {r} : request'[q] = request[q]
    BY <1>1 DEF Receive, TypeOK
  <2> QED  BY <1>1, <2>1 DEF Receive, Alone, InFlight
<1>2. ASSUME NEW r \in Requests, Serve(r) \/ Fail(r) PROVE Alone'
  <2>1. \A q \in Requests \ {r} : request'[q] = request[q]
    BY <1>2, StepsForward
  <2>2. \A q \in Requests \ {r} : q \notin InFlight
    BY <1>2, AtWork DEF Alone
  <2> QED  BY <2>1, <2>2 DEF Alone, InFlight
<1>3. CASE UNCHANGED vars
  BY <1>3 DEF vars, Alone, InFlight
<1> QED  BY <1>1, <1>2, <1>3 DEF Next

(* A member whose default stays has one.                                    *)
LEMMA DefaultStays ==
  ASSUME EachDefault, \A i \in Ids : IsRow(i) /\ rows[i].default => rows'[i] = rows[i]
  PROVE  EachDefault'
  BY DEF EachDefault, Defaults, IsRow

LEMMA EachDefaultStep ==
  ASSUME TypeOK, HandlersInv, GivenInv, Disciplined, EachDefault,
         \A r \in Requests : ReadInv(r), [Next]_vars
  PROVE  EachDefault'
<1>1. CASE rows' = rows
  BY <1>1, DefaultStays
<1>2. ASSUME NEW r \in Requests, CreateRow(r) \/ CloneRow(r) PROVE EachDefault'
  <2>1. PICK i \in Ids : rows[i] = Unused /\ \A j \in Ids \ {i} : rows'[j] = rows[j]
    BY <1>2 DEF CreateRow, CloneRow, Insert, TypeOK
  <2> QED  BY <2>1, DefaultStays, AvailabilityAssumption DEF IsRow
<1>3. ASSUME NEW r \in Requests, UpdateRow(r) PROVE EachDefault'
  BY <1>3, NamesOwn, Serving DEF UpdateRow, At, CallType, StepsOf, Steps
<1>4. ASSUME NEW r \in Requests, PatchRow(r) PROVE EachDefault'
  <2>1. /\ IsRow(Call(r).id) /\ request[r].loaded = rows[Call(r).id]
        /\ ~ (request[r].loaded.default /\ Call(r).default = FALSE)
    BY <1>4 DEF PatchRow, ReadInv
  <2>2. CASE Merged(r)
    <3>1. /\ Call(r).id \in Ids /\ rows'[Call(r).id] \in RowType
          /\ rows'[Call(r).id].profile = Call(r).profile /\ rows'[Call(r).id].default
      BY <1>4, <2>1, <2>2, PatchedRows
    <3>2. \A i \in Ids : IsRow(i) /\ rows[i].profile # Call(r).profile => rows'[i] = rows[i]
      BY <1>4, <2>1, PatchedRows
    <3>3. ASSUME NEW p \in Profiles PROVE Defaults(p)' # {}
      <4>1. CASE p = Call(r).profile
        BY <3>1, <4>1 DEF Defaults, IsRow
      <4>2. CASE p # Call(r).profile
        BY <3>2, <4>2 DEF Defaults, IsRow, EachDefault
      <4> QED  BY <4>1, <4>2
    <3> QED  BY <3>3 DEF EachDefault
  <2>3. CASE ~ Merged(r)
    <3>1. ~ rows[Call(r).id].default
      BY <2>1, <2>3, AvailabilityAssumption DEF Merged
    <3>2. \A i \in Ids : i # Call(r).id => rows'[i] = rows[i]
      BY <1>4, <2>3, PatchedRows
    <3> QED  BY <3>1, <3>2, DefaultStays
  <2> QED  BY <2>2, <2>3
<1>5. ASSUME NEW r \in Requests, RemoveRow(r) PROVE EachDefault'
  <2>1. ~ (IsRow(Call(r).id) /\ rows[Call(r).id].default)
    BY <1>5 DEF RemoveRow, ReadInv
  <2>2. \A i \in Ids : i # Call(r).id => rows'[i] = rows[i]
    BY <1>5 DEF RemoveRow, TypeOK
  <2> QED  BY <2>1, <2>2, DefaultStays
<1> QED
  BY <1>1, <1>2, <1>3, <1>4, <1>5
  DEF Next, Serve, vars, Stores, Receive, Fail, CreateBody, UpdateFind, UpdateBody,
      PatchFind, PatchBody, PatchAllRead, PatchAllWrite, RemoveFind, RemoveDefault,
      RemoveBody, CloneFind, CloneRead, CloneBody, LinkEventsDefault, LinkEventsRow,
      LinkEventRow, UnlinkDefault, UnlinkRow

(* A request between two other steps has read nothing that matters here.    *)
LEMMA NothingRead ==
  ASSUME NEW r \in Requests,
         request[r].step \notin {"patchRow", "removeDefault", "removeRow", "unlinkRow"}
  PROVE  ReadInv(r)
  BY DEF ReadInv, At

(* What the request at work reads is so when it goes on.                    *)
LEMMA ReadStep ==
  ASSUME TypeOK, HandlersInv, GivenInv, Disciplined, NEW r \in Requests, ReadInv(r),
         Serve(r) \/ Fail(r)
  PROVE  ReadInv(r)'
<1> DEFINE Reading == {"patchRow", "removeDefault", "removeRow", "unlinkRow"}
<1>1. request[r] \in RequestType /\ Call(r)' = Call(r)
  BY StepsForward DEF TypeOK
<1>2. ASSUME request'[r].step \notin Reading PROVE ReadInv(r)'
  BY <1>2 DEF ReadInv, At
<1>3. ASSUME NEW s \in Status \ Reading, Goes(r, s) PROVE ReadInv(r)'
  <2>1. request'[r] = [request[r] EXCEPT !.step = s]
    BY <1>3, Moves
  <2>2. request'[r].step = s
    BY <1>1, <2>1 DEF RequestType
  <2> QED  BY <1>2, <1>3, <2>2
<1>4. CASE PatchFind(r)
  <2>1. CASE Goes(r, "failed")
    BY <1>3, <2>1 DEF Status
  <2>2. CASE ~ Goes(r, "failed")
    <3>1. /\ IsRow(Call(r).id) /\ ~ (rows[Call(r).id].default /\ Call(r).default = FALSE)
          /\ rows' = rows
      BY <1>4, <2>2 DEF PatchFind, Stores
    <3>2. PICK row \in RowType, s \in {"patchRow", "patchBody", "done"} :
            /\ row = rows[Call(r).id]
            /\ request' = [request EXCEPT ![r].loaded = row, ![r].step = s]
      BY <1>4, <2>2 DEF PatchFind, IsRow, AfterPatchRow
    <3>3. request'[r] = [request[r] EXCEPT !.loaded = row, !.step = s]
      BY <3>2, MovesLoaded DEF Status, Steps
    <3>4. request'[r].loaded = row
      BY <1>1, <3>3 DEF RequestType
    <3>5. request'[r].step = s
      BY <1>1, <3>3 DEF RequestType
    <3> QED  BY <1>1, <3>1, <3>2, <3>4, <3>5 DEF ReadInv, At, IsRow
  <2> QED  BY <2>1, <2>2
<1>5. CASE RemoveFind(r)
  <2>1. CASE Goes(r, "failed")
    BY <1>3, <2>1 DEF Status
  <2>2. CASE ~ Goes(r, "failed")
    <3>1. ~ (IsRow(Call(r).id) /\ rows[Call(r).id].profile = Call(r).profile
             /\ rows[Call(r).id].default)
      BY <1>5, <2>2 DEF RemoveFind
    <3>2. IsRow(Call(r).id) => rows[Call(r).id].profile = Call(r).profile
      BY <1>5, NamesOwn, Serving DEF RemoveFind, At, CallType, StepsOf, Steps
    <3>3. PICK row \in RowType \cup {NoRow} :
            request' = [request EXCEPT ![r].loaded = row, ![r].step = "removeDefault"]
      BY <1>5, <2>2 DEF RemoveFind, IsRow
    <3>4. request'[r] = [request[r] EXCEPT !.loaded = row, !.step = "removeDefault"]
      BY <3>3, MovesLoaded DEF Status, Steps
    <3>5. request'[r].step = "removeDefault"
      BY <1>1, <3>4 DEF RequestType
    <3>6. rows' = rows
      BY <1>5 DEF RemoveFind, Stores
    <3> QED  BY <1>1, <3>1, <3>2, <3>5, <3>6 DEF ReadInv, At, IsRow
  <2> QED  BY <2>1, <2>2
<1>6. CASE RemoveDefault(r) \/ UnlinkDefault(r)
  <2>1. CASE Goes(r, "failed")
    BY <1>3, <2>1 DEF Status
  <2>2. CASE ~ Goes(r, "failed")
    <3>1. PICK i \in Defaults(Call(r).profile), s \in {"removeRow", "unlinkRow"} :
            /\ request' = [request EXCEPT ![r].fallback = i, ![r].step = s]
            /\ s = "removeRow" => RemoveDefault(r)
      BY <1>6, <2>2 DEF RemoveDefault, UnlinkDefault, FindDefault
    <3>2. i \in Ids /\ rows' = rows
      BY <1>6 DEF Defaults, RemoveDefault, UnlinkDefault, Stores
    <3>3. request'[r] = [request[r] EXCEPT !.fallback = i, !.step = s]
      BY <3>1, <3>2, MovesFallback DEF Status, Steps
    <3>4. request'[r].fallback = i
      BY <1>1, <3>3 DEF RequestType
    <3>5. request'[r].step = s
      BY <1>1, <3>3 DEF RequestType
    <3>6. s = "removeRow" => ~ (IsRow(Call(r).id) /\ rows[Call(r).id].default)
      BY <3>1 DEF RemoveDefault, ReadInv
    <3>7. i \in Defaults(Call(r).profile)'
      BY <1>1, <3>2 DEF Defaults, IsRow
    <3> QED  BY <1>1, <3>2, <3>4, <3>5, <3>6, <3>7 DEF ReadInv, At, IsRow
  <2> QED  BY <2>1, <2>2
<1>7. CASE LinkEventsDefault(r)
  <2>1. CASE Goes(r, "failed")
    BY <1>3, <2>1 DEF Status
  <2>2. CASE ~ Goes(r, "failed")
    <3>1. PICK i \in Ids :
            request' = [request EXCEPT ![r].fallback = i, ![r].step = "linkEventsRow"]
      BY <1>7, <2>2 DEF LinkEventsDefault, FindDefault, Defaults
    <3>2. request'[r] = [request[r] EXCEPT !.fallback = i, !.step = "linkEventsRow"]
      BY <3>1, MovesFallback DEF Status, Steps
    <3>3. request'[r].step = "linkEventsRow"
      BY <1>1, <3>2 DEF RequestType
    <3> QED  BY <1>2, <3>3
  <2> QED  BY <2>1, <2>2
<1>8. CASE CreateRow(r) \/ CloneRow(r)
  <2>1. PICK i \in Ids, s \in {"createBody", "cloneRead"} :
          request' = [request EXCEPT ![r].new = i, ![r].step = s]
    BY <1>8 DEF CreateRow, CloneRow, Insert
  <2>2. request'[r] = [request[r] EXCEPT !.new = i, !.step = s]
    BY <2>1, MovesNew DEF Status, Steps
  <2>3. request'[r].step = s
    BY <1>1, <2>2 DEF RequestType
  <2> QED  BY <1>2, <2>3
<1>9. CASE CloneFind(r)
  <2>1. CASE Goes(r, "failed")
    BY <1>3, <2>1 DEF Status
  <2>2. CASE ~ Goes(r, "failed")
    <3>1. PICK row \in RowType :
            request' = [request EXCEPT ![r].loaded = row, ![r].step = "cloneRow"]
      BY <1>9, <2>2 DEF CloneFind, IsRow
    <3>2. request'[r] = [request[r] EXCEPT !.loaded = row, !.step = "cloneRow"]
      BY <3>1, MovesLoaded DEF Status, Steps
    <3>3. request'[r].step = "cloneRow"
      BY <1>1, <3>2 DEF RequestType
    <3> QED  BY <1>2, <3>3
  <2> QED  BY <2>1, <2>2
<1>10. CASE PatchAllRead(r) \/ CloneRead(r)
  <2>1. CASE \E s \in {"done", "failed"} : Goes(r, s)
    BY <1>3, <2>1 DEF Status
  <2>2. CASE \E s \in {"patchAllWrite", "cloneBody"} :
               request' = [request EXCEPT ![r].read = bodies, ![r].step = s]
    <3>1. PICK s \in {"patchAllWrite", "cloneBody"} :
               request' = [request EXCEPT ![r].read = bodies, ![r].step = s]
      BY <2>2
    <3>2. request'[r] = [request[r] EXCEPT !.read = bodies, !.step = s]
      BY <3>1, MovesRead DEF Status, Steps
    <3>3. request'[r].step = s
      BY <1>1, <3>2 DEF RequestType
    <3> QED  BY <1>2, <3>3
  <2> QED  BY <1>10, <2>1, <2>2 DEF PatchAllRead, CloneRead
<1>11. CASE Fail(r) \/ CreateBody(r) \/ UpdateFind(r) \/ UpdateRow(r) \/ UpdateBody(r)
            \/ PatchRow(r) \/ PatchBody(r) \/ PatchAllWrite(r) \/ RemoveRow(r)
            \/ RemoveBody(r) \/ CloneBody(r) \/ LinkEventsRow(r) \/ LinkEventRow(r)
            \/ UnlinkRow(r)
  <2>1. \E s \in {"done", "failed", "updateRow", "updateBody", "patchBody", "removeBody"} :
           Goes(r, s)
    BY <1>11
    DEF Fail, CreateBody, Saves, UpdateFind, UpdateRow, UpdateBody, PatchRow, AfterPatchRow,
        PatchBody, PatchAllWrite, RemoveRow, RemoveBody, CloneBody, LinkEventsRow,
        LinkEventRow, UnlinkRow
  <2> QED  BY <1>3, <2>1 DEF Status, Steps
<1> QED
  BY <1>4, <1>5, <1>6, <1>7, <1>8, <1>9, <1>10, <1>11 DEF Serve

LEMMA SerialStep ==
  TypeOK /\ HandlersInv /\ GivenInv /\ Waiting /\ SerialInv /\ [Next]_vars => SerialInv'
<1> SUFFICES ASSUME TypeOK, HandlersInv, GivenInv, Waiting, SerialInv, [Next]_vars,
                    ~ overlapped', Disciplined'
             PROVE  Alone' /\ EachDefault' /\ \A r \in Requests : ReadInv(r)'
  BY DEF SerialInv
<1>1. Disciplined
  BY WasDisciplined
<1>2. ~ overlapped
  BY StaysSerial
<1>3. Alone /\ EachDefault /\ \A r \in Requests : ReadInv(r)
  BY <1>1, <1>2 DEF SerialInv
<1>4. Alone' /\ EachDefault'
  BY <1>1, <1>3, AloneStep, EachDefaultStep
<1>5. ASSUME NEW q \in Requests, request'[q] = request[q], q \notin InFlight PROVE ReadInv(q)'
  BY <1>5 DEF ReadInv, At, InFlight, Steps
<1>6. ASSUME NEW r \in Requests, Receive(r) PROVE \A q \in Requests : ReadInv(q)'
  <2>1. InFlight = {}
    BY <1>6 DEF Receive
  <2>2. PICK c \in Calls :
          request' = [request EXCEPT ![r].call = c, ![r].step = First[c.op]]
    BY <1>6 DEF Receive
  <2>3. First[c.op] \notin {"patchRow", "removeDefault", "removeRow", "unlinkRow"}
    BY AvailabilityAssumption DEF CallType, First
  <2>4. /\ request'[r].step = First[c.op]
        /\ \A q \in Requests \ {r} : request'[q] = request[q]
    BY <2>2 DEF TypeOK, RequestType
  <2>5. ReadInv(r)'
    BY <2>3, <2>4 DEF ReadInv, At
  <2> QED  BY <1>5, <2>1, <2>4, <2>5
<1>7. ASSUME NEW r \in Requests, Serve(r) \/ Fail(r) PROVE \A q \in Requests : ReadInv(q)'
  <2>1. \A q \in Requests \ {r} : q \notin InFlight /\ request'[q] = request[q]
    BY <1>3, <1>7, AtWork, StepsForward DEF Alone
  <2>2. ReadInv(r)'
    BY <1>1, <1>3, <1>7, ReadStep
  <2> QED  BY <1>5, <2>1, <2>2
<1>8. ASSUME UNCHANGED vars, NEW q \in Requests PROVE ReadInv(q)'
  BY <1>3, <1>8 DEF vars, ReadInv, At, Call, Defaults, IsRow
<1>9. \A r \in Requests : ReadInv(r)'
  BY <1>6, <1>7, <1>8 DEF Next
<1> QED  BY <1>4, <1>9

(* Requests served one at a time go on with what they have read.            *)
THEOREM SerialCorrect == Spec => []SerialInv
<1>1. Init => SerialInv
  <2> SUFFICES ASSUME Init PROVE Alone /\ EachDefault /\ \A r \in Requests : ReadInv(r)
    BY DEF SerialInv
  <2>1. Alone /\ \A r \in Requests : ReadInv(r)
    BY DEF Init, Alone, InFlight, Steps, ReadInv, At
  <2>2. ASSUME NEW p \in Profiles PROVE Defaults(p) # {}
    <3>1. PICK i \in Ids : rows[i] = [profile |-> p, default |-> TRUE]
      BY AvailabilityAssumption DEF Init
    <3>2. rows[i] \in RowType /\ rows[i].profile = p /\ rows[i].default
      BY <3>1 DEF RowType
    <3> QED  BY <3>2 DEF Defaults, IsRow
  <2> QED  BY <2>1, <2>2 DEF EachDefault
<1> QED  BY <1>1, SerialStep, InvCorrect, GivenCorrect, WaitingCorrect, PTL DEF Spec
-----------------------------------------------------------------------------
(* The book of availabilities, as the stores show it.                       *)
Owners == [i \in Ids |-> IF IsRow(i) THEN rows[i].profile ELSE NoId]
Chosen(D) == CHOOSE i \in Ids : i \in D
DefaultRows == [p \in Profiles |->
    IF Defaults(p) = {} THEN NoId ELSE Chosen(Defaults(p))]

(* What holds of the stores while requests are served one at a time.        *)
InOrder == OneDefault /\ EachDefault /\ LinkedOwn

LEMMA Sole == \A i \in Ids : Chosen({i}) = i
<1> SUFFICES ASSUME NEW i \in Ids PROVE (CHOOSE j \in Ids : j \in {i}) = i
  BY DEF Chosen
<1>1. \E j \in Ids : j \in {i}
  OBVIOUS
<1> QED  BY <1>1

LEMMA DefaultOf ==
  InOrder => \A p \in Profiles :
     /\ Defaults(p) = {DefaultRows[p]}
     /\ IsRow(DefaultRows[p]) /\ rows[DefaultRows[p]].profile = p
<1> SUFFICES ASSUME InOrder, NEW p \in Profiles
             PROVE  /\ Defaults(p) = {DefaultRows[p]}
                    /\ IsRow(DefaultRows[p]) /\ rows[DefaultRows[p]].profile = p
  OBVIOUS
<1>1. PICK i \in Ids : Defaults(p) = {i}
  BY DEF InOrder, OneDefault, EachDefault, Defaults
<1>2. DefaultRows[p] = i
  BY <1>1, Sole DEF DefaultRows
<1>3. i \in Defaults(p)
  BY <1>1
<1> QED  BY <1>1, <1>2, <1>3 DEF Defaults

(* In order, every member has a default and every event uses one of its     *)
(* host's.                                                                  *)
LEMMA OrderIsBook == TypeOK /\ InOrder => Book!HasDefaults /\ Book!UsesOwn
<1> SUFFICES ASSUME TypeOK, InOrder PROVE Book!HasDefaults /\ Book!UsesOwn
  OBVIOUS
<1>1. ASSUME NEW p \in Profiles
      PROVE  DefaultRows[p] \in Ids /\ Owners[DefaultRows[p]] = p
  <2>1. /\ Defaults(p) = {DefaultRows[p]}
        /\ IsRow(DefaultRows[p]) /\ rows[DefaultRows[p]].profile = p
    BY DefaultOf
  <2>2. DefaultRows[p] \in Ids
    BY <2>1 DEF Defaults
  <2> QED  BY <2>1, <2>2 DEF Owners
<1>2. ASSUME NEW l \in LinkIds PROVE Owners[links[l]] = LinkProfile[l]
  BY DEF InOrder, LinkedOwn, TypeOK, Owners
<1>3. Book!HasDefaults
  BY <1>1 DEF Book!HasDefaults, Owners, DefaultRows, Chosen
<1>4. Book!UsesOwn
  BY <1>2 DEF Book!UsesOwn, Owners
<1> QED  BY <1>3, <1>4

(* The default of a member is the same when his defaults are.               *)
LEMMA SameDefaults ==
  ASSUME \A p \in Profiles : Defaults(p)' = Defaults(p)
  PROVE  DefaultRows' = DefaultRows
  BY DEF DefaultRows

LEMMA SameBook ==
  ASSUME UNCHANGED <<rows, links>>
  PROVE  UNCHANGED <<Owners, DefaultRows, links>>
<1>1. \A p \in Profiles : Defaults(p)' = Defaults(p)
  BY DEF Defaults, IsRow
<1> QED  BY <1>1, SameDefaults DEF Owners, IsRow

(* The steps of the book, on the stores.                                    *)
Adds(p, i) ==
    /\ Owners[i] = NoId
    /\ Owners' = [Owners EXCEPT ![i] = p]
    /\ UNCHANGED <<DefaultRows, links>>
Promotes(p, i) ==
    /\ Owners[i] = p
    /\ DefaultRows' = [DefaultRows EXCEPT ![p] = i]
    /\ UNCHANGED <<Owners, links>>
Replaces(i, j) == links' = [l \in LinkIds |-> IF links[l] = i THEN j ELSE links[l]]
Removes(p, i) ==
    /\ Owners[i] = p /\ DefaultRows[p] # i
    /\ Owners' = [Owners EXCEPT ![i] = NoId]
    /\ Replaces(i, DefaultRows[p])
    /\ UNCHANGED DefaultRows
Uses(p, i, hosted) ==
    /\ Owners[i] = p
    /\ \A l \in hosted : LinkProfile[l] = p
    /\ links' = [l \in LinkIds |-> IF l \in hosted THEN i ELSE links[l]]
    /\ UNCHANGED <<Owners, DefaultRows>>
Releases(p, i) ==
    /\ Owners[i] = p
    /\ Replaces(i, DefaultRows[p])
    /\ UNCHANGED <<Owners, DefaultRows>>

LEMMA BookSteps ==
  ASSUME NEW p \in Profiles, NEW i \in Ids,
         \/ Adds(p, i) \/ Promotes(p, i) \/ Removes(p, i) \/ Releases(p, i)
         \/ \E hosted \in SUBSET LinkIds : Uses(p, i, hosted)
  PROVE  Book!Next
<1>1. CASE Adds(p, i)
  BY <1>1 DEF Adds, Owners, DefaultRows, Chosen, Book!Next, Book!Add
<1>2. CASE Promotes(p, i)
  BY <1>2 DEF Promotes, Owners, DefaultRows, Chosen, Book!Next, Book!Promote
<1>3. CASE Removes(p, i)
  BY <1>3 DEF Removes, Replaces, Owners, DefaultRows, Chosen, Book!Next, Book!Remove,
     Book!Replace
<1>4. CASE Releases(p, i)
  BY <1>4 DEF Releases, Replaces, Owners, DefaultRows, Chosen, Book!Next, Book!Release,
     Book!Replace
<1>5. CASE \E hosted \in SUBSET LinkIds : Uses(p, i, hosted)
  BY <1>5 DEF Uses, Owners, DefaultRows, Chosen, Book!Next, Book!Use
<1> QED  BY <1>1, <1>2, <1>3, <1>4, <1>5
-----------------------------------------------------------------------------
(* A new row is an addition to the book.                                    *)
LEMMA Adding ==
  ASSUME TypeOK, NEW i \in Ids, NEW row \in RowType, rows[i] = Unused, ~ row.default,
         rows' = [rows EXCEPT ![i] = row], links' = links
  PROVE  Adds(row.profile, i)
<1>1. ~ IsRow(i) /\ IsRow(i)' /\ rows'[i] = row /\ \A j \in Ids \ {i} : rows'[j] = rows[j]
  BY AvailabilityAssumption DEF IsRow, TypeOK
<1>2. Owners[i] = NoId
  BY <1>1 DEF Owners
<1>3. \A j \in Ids : Owners'[j] = IF j = i THEN row.profile ELSE Owners[j]
  BY <1>1 DEF Owners, IsRow
<1>4. Owners' = [Owners EXCEPT ![i] = row.profile]
  BY <1>3 DEF Owners
<1>5. \A p \in Profiles : Defaults(p)' = Defaults(p)
  BY <1>1 DEF Defaults, IsRow
<1> QED  BY <1>2, <1>4, <1>5, SameDefaults DEF Adds

(* The transaction of patch is a promotion, or writes what was there.       *)
LEMMA Patching ==
  ASSUME TypeOK, HandlersInv, GivenInv, Disciplined, NEW r \in Requests, ReadInv(r), PatchRow(r)
  PROVE  \/ \E p \in Profiles, i \in Ids : Promotes(p, i)
         \/ UNCHANGED <<Owners, DefaultRows, links>>
<1>1. PICK p \in Profiles, id \in Ids : p = Call(r).profile /\ id = Call(r).id
  BY Serving DEF PatchRow, At, Steps
<1>2. /\ IsRow(id) /\ request[r].loaded = rows[id]
      /\ ~ (request[r].loaded.default /\ Call(r).default = FALSE)
  BY <1>1 DEF PatchRow, ReadInv
<1>3. /\ Merged(r) \in BOOLEAN
      /\ rows'[id] \in RowType /\ rows'[id].profile = p /\ rows[id].profile = p
      /\ rows'[id].default = Merged(r)
      /\ \A i \in Ids : i # id =>
            IF IsRow(i) /\ Merged(r) /\ rows[i].profile = p
            THEN /\ rows'[i] \in RowType /\ rows'[i].profile = rows[i].profile
                 /\ rows'[i].default = FALSE
            ELSE rows'[i] = rows[i]
  BY <1>1, <1>2, PatchedRows
<1>4. \A i \in Ids : Owners'[i] = Owners[i]
  BY <1>2, <1>3 DEF Owners, IsRow
<1>5. Owners' = Owners /\ Owners[id] = p /\ links' = links
  BY <1>2, <1>3, <1>4 DEF Owners, PatchRow
<1>6. CASE Merged(r)
  <2>1. \A i \in Ids : rows'[i] \in RowType /\ rows'[i].profile = p /\ rows'[i].default <=> i = id
    BY <1>3, <1>6 DEF IsRow
  <2>2. Defaults(p)' = {id}
    BY <2>1 DEF Defaults, IsRow
  <2>3. \A q \in Profiles \ {p} : Defaults(q)' = Defaults(q)
    BY <1>3 DEF Defaults, IsRow
  <2>4. \A q \in Profiles : DefaultRows'[q] = IF q = p THEN id ELSE DefaultRows[q]
    BY <2>2, <2>3, Sole DEF DefaultRows
  <2>5. DefaultRows' = [DefaultRows EXCEPT ![p] = id]
    BY <2>4 DEF DefaultRows
  <2> QED  BY <1>5, <2>5 DEF Promotes
<1>7. CASE ~ Merged(r)
  <2>1. ~ rows[id].default
    BY <1>1, <1>2, <1>7, AvailabilityAssumption DEF Merged
  <2>2. \A q \in Profiles : Defaults(q)' = Defaults(q)
    BY <1>2, <1>3, <1>7, <2>1 DEF Defaults, IsRow
  <2> QED  BY <1>5, <2>2, SameDefaults
<1> QED  BY <1>6, <1>7

(* The transaction of remove is a removal, or has nothing to do.            *)
LEMMA Removing ==
  ASSUME TypeOK, HandlersInv, GivenInv, Disciplined, InOrder, NEW r \in Requests,
         ReadInv(r), RemoveRow(r)
  PROVE  \/ \E p \in Profiles, i \in Ids : Removes(p, i)
         \/ UNCHANGED <<Owners, DefaultRows, links>>
<1>1. PICK p \in Profiles, id \in Ids : p = Call(r).profile /\ id = Call(r).id
  BY Serving DEF RemoveRow, At, Steps
<1>2. /\ ~ (IsRow(id) /\ rows[id].default) /\ request[r].fallback \in Defaults(p)
  BY <1>1 DEF RemoveRow, ReadInv
<1>3. request[r].fallback = DefaultRows[p] /\ DefaultRows[p] # id
  BY <1>2, DefaultOf DEF Defaults
<1>4. CASE UNCHANGED <<rows, links>>
  BY <1>4, SameBook
<1>5. CASE ~ UNCHANGED <<rows, links>>
  <2>1. /\ links' = Relinked(LinkedTo(id), DefaultRows[p])
        /\ rows' = [rows EXCEPT ![id] = IF IsRow(id) THEN Gone ELSE @]
    BY <1>1, <1>3, <1>5 DEF RemoveRow
  <2>2. links' = [l \in LinkIds |-> IF links[l] = id THEN DefaultRows[p] ELSE links[l]]
    BY <2>1 DEF Relinked, LinkedTo
  <2>3. CASE ~ IsRow(id)
    <3>1. \A l \in LinkIds : links[l] # id
      BY <2>3 DEF InOrder, LinkedOwn
    <3>2. links' = links /\ rows' = rows
      BY <2>1, <2>2, <2>3, <3>1 DEF TypeOK
    <3> QED  BY <1>4, <3>2
  <2>4. CASE IsRow(id)
    <3>1. rows'[id] = Gone /\ \A i \in Ids \ {id} : rows'[i] = rows[i]
      BY <2>1, <2>4 DEF TypeOK
    <3>2. ~ IsRow(id)'
      BY <3>1, AvailabilityAssumption DEF IsRow
    <3>3. \A q \in Profiles : Defaults(q)' = Defaults(q)
      BY <1>2, <2>4, <3>1, <3>2 DEF Defaults, IsRow
    <3>4. \A i \in Ids : Owners'[i] = IF i = id THEN NoId ELSE Owners[i]
      BY <3>1, <3>2 DEF Owners, IsRow
    <3>5. Owners' = [Owners EXCEPT ![id] = NoId]
      BY <3>4 DEF Owners
    <3>6. Owners[id] = p
      BY <1>1, <2>4, NamesOwn, Serving
      DEF Owners, RemoveRow, At, CallType, StepsOf, Steps
    <3>7. DefaultRows' = DefaultRows
      BY <3>3, SameDefaults
    <3> QED  BY <1>3, <2>2, <3>5, <3>6, <3>7 DEF Removes, Replaces
  <2> QED  BY <2>3, <2>4
<1> QED  BY <1>4, <1>5

(* Linking one event is a use.                                              *)
LEMMA Linking ==
  ASSUME TypeOK, HandlersInv, GivenInv, Disciplined, NEW r \in Requests, LinkEventRow(r)
  PROVE  \/ \E p \in Profiles, i \in Ids, hosted \in SUBSET LinkIds : Uses(p, i, hosted)
         \/ UNCHANGED <<Owners, DefaultRows, links>>
<1>1. PICK p \in Profiles, id \in Ids : p = Call(r).profile /\ id = Call(r).id
  BY Serving DEF LinkEventRow, At, Steps
<1>2. IsRow(id) => rows[id].profile = p
  BY <1>1, NamesOwn, Serving DEF LinkEventRow, At, CallType, StepsOf, Steps
<1>3. rows' = rows
  BY DEF LinkEventRow
<1>4. \A q \in Profiles : Defaults(q)' = Defaults(q)
  BY <1>3 DEF Defaults, IsRow
<1>5. Owners' = Owners /\ DefaultRows' = DefaultRows
  BY <1>3, <1>4, SameDefaults DEF Owners, IsRow
<1>6. CASE links' = links
  BY <1>5, <1>6
<1>7. CASE links' # links
  <2>1. PICK hosted \in SUBSET LinkIds :
          /\ \A l \in hosted : LinkProfile[l] = p
          /\ hosted = {} \/ IsRow(id)
          /\ links' = [l \in LinkIds |-> IF l \in hosted THEN id ELSE links[l]]
    BY <1>1, <1>7 DEF LinkEventRow, ReferenceHolds, Relinked
  <2>2. hosted # {}
    BY <1>7, <2>1 DEF TypeOK
  <2>3. Owners[id] = p
    BY <1>2, <2>1, <2>2 DEF Owners
  <2> QED  BY <1>5, <2>1, <2>3 DEF Uses
<1> QED  BY <1>6, <1>7

(* Unlinking is a release.                                                  *)
LEMMA Unlinking ==
  ASSUME TypeOK, HandlersInv, GivenInv, Disciplined, InOrder, NEW r \in Requests,
         ReadInv(r), UnlinkRow(r)
  PROVE  \/ \E p \in Profiles, i \in Ids : Releases(p, i)
         \/ UNCHANGED <<Owners, DefaultRows, links>>
<1>1. PICK p \in Profiles, id \in Ids : p = Call(r).profile /\ id = Call(r).id
  BY Serving DEF UnlinkRow, At, Steps
<1>2. request[r].fallback \in Defaults(p)
  BY <1>1 DEF UnlinkRow, ReadInv
<1>3. request[r].fallback = DefaultRows[p]
  BY <1>2, DefaultOf
<1>4. rows' = rows
  BY DEF UnlinkRow
<1>5. \A q \in Profiles : Defaults(q)' = Defaults(q)
  BY <1>4 DEF Defaults, IsRow
<1>6. Owners' = Owners /\ DefaultRows' = DefaultRows
  BY <1>4, <1>5, SameDefaults DEF Owners, IsRow
<1>7. CASE links' = links
  BY <1>6, <1>7
<1>8. CASE links' # links
  <2>1. links' = [l \in LinkIds |-> IF links[l] = id THEN DefaultRows[p] ELSE links[l]]
    BY <1>1, <1>3, <1>8 DEF UnlinkRow, Relinked, LinkedTo
  <2>2. PICK l \in LinkIds : links[l] = id
    BY <1>8, <2>1 DEF TypeOK
  <2>3. IsRow(id)
    BY <2>2 DEF InOrder, LinkedOwn
  <2>4. Owners[id] = p
    BY <1>1, <2>3, NamesOwn, Serving DEF Owners, UnlinkRow, At, CallType, StepsOf, Steps
  <2> QED  BY <1>6, <2>1, <2>4 DEF Releases, Replaces
<1> QED  BY <1>7, <1>8

(* Every step of the service is a step of the book, or shows nothing there. *)
LEMMA BookStep ==
  ASSUME TypeOK, HandlersInv, GivenInv, Disciplined, InOrder,
         \A r \in Requests : ReadInv(r), [Next]_vars
  PROVE  Book!Next \/ UNCHANGED Book!vars
<1>1. CASE UNCHANGED <<Owners, DefaultRows, links>>
  BY <1>1 DEF Owners, DefaultRows, Chosen, Book!vars
<1>2. CASE UNCHANGED <<rows, links>>
  BY <1>1, <1>2, SameBook
<1>3. ASSUME NEW r \in Requests, CreateRow(r) PROVE Book!Next
  <2>1. PICK i \in Ids, p \in Profiles : /\ rows[i] = Unused
                        /\ p = Call(r).profile
                        /\ rows' = [rows EXCEPT ![i] = [profile |-> p, default |-> FALSE]]
    BY <1>3, Serving DEF CreateRow, Insert, At, Steps
  <2>2. [profile |-> p, default |-> FALSE] \in RowType
    BY DEF RowType
  <2>3. Adds(p, i)
    BY <1>3, <2>1, <2>2, Adding DEF CreateRow
  <2> QED  BY <2>3, BookSteps
<1>4. ASSUME NEW r \in Requests, CloneRow(r) PROVE Book!Next
  <2>1. PICK row \in RowType : row = request[r].loaded
    BY <1>4 DEF CloneRow, At, HandlersInv, HandlerInv
  <2>2. PICK i \in Ids : rows[i] = Unused /\ rows' = [rows EXCEPT ![i] = [row EXCEPT !.default = FALSE]]
    BY <1>4, <2>1 DEF CloneRow, Insert
  <2>3. /\ [row EXCEPT !.default = FALSE] \in RowType
        /\ [row EXCEPT !.default = FALSE].default = FALSE
    BY Flagged
  <2>4. Adds([row EXCEPT !.default = FALSE].profile, i)
    BY <1>4, <2>2, <2>3, Adding DEF CloneRow
  <2> QED  BY <2>3, <2>4, BookSteps DEF RowType
<1>5. ASSUME NEW r \in Requests, UpdateRow(r) \/ LinkEventsRow(r) PROVE FALSE
  BY <1>5, NamesOwn, Serving DEF UpdateRow, LinkEventsRow, At, CallType, StepsOf, Steps
<1>6. ASSUME NEW r \in Requests, PatchRow(r) PROVE Book!Next \/ UNCHANGED Book!vars
  BY <1>1, <1>6, Patching, BookSteps
<1>7. ASSUME NEW r \in Requests, RemoveRow(r) PROVE Book!Next \/ UNCHANGED Book!vars
  BY <1>1, <1>7, Removing, BookSteps
<1>8. ASSUME NEW r \in Requests, LinkEventRow(r) PROVE Book!Next \/ UNCHANGED Book!vars
  BY <1>1, <1>8, Linking, BookSteps
<1>9. ASSUME NEW r \in Requests, UnlinkRow(r) PROVE Book!Next \/ UNCHANGED Book!vars
  BY <1>1, <1>9, Unlinking, BookSteps
<1> QED
  BY <1>2, <1>3, <1>4, <1>5, <1>6, <1>7, <1>8, <1>9
  DEF Next, Serve, vars, Stores, Receive, Fail, CreateBody, UpdateFind, UpdateBody,
      PatchFind, PatchBody, PatchAllRead, PatchAllWrite, RemoveFind, RemoveDefault,
      RemoveBody, CloneFind, CloneRead, CloneBody, LinkEventsDefault, UnlinkDefault

LEMMA OrderIsBookNext == (TypeOK /\ InOrder)' => (Book!HasDefaults /\ Book!UsesOwn)'
  BY OrderIsBook, PTL

(* Requests about their own availabilities, served one at a time, implement *)
(* the book of availabilities.                                              *)
THEOREM SerialServiceIsBook == Spec => SerialKeepsBook
<1> DEFINE Inv == /\ TypeOK /\ HandlersInv /\ GivenInv /\ Waiting /\ OneDefaultInv
                  /\ LinkedOwnInv /\ SerialInv
<1>1. ASSUME Inv, Inv', [Next]_vars, ~ overlapped', Disciplined'
      PROVE  Book!HasDefaults' /\ Book!UsesOwn' /\ (Book!Next \/ UNCHANGED Book!vars)
  <2>1. InOrder' /\ TypeOK'
    BY <1>1 DEF OneDefaultInv, LinkedOwnInv, SerialInv, InOrder
  <2>2. Disciplined
    BY <1>1, WasDisciplined
  <2>3. ~ overlapped
    BY <1>1, StaysSerial
  <2>4. InOrder /\ \A r \in Requests : ReadInv(r)
    BY <1>1, <2>2, <2>3 DEF OneDefaultInv, LinkedOwnInv, SerialInv, InOrder
  <2>5. Book!Next \/ UNCHANGED Book!vars
    BY <1>1, <2>2, <2>4, BookStep
  <2>6. Book!HasDefaults' /\ Book!UsesOwn'
    BY <2>1, OrderIsBookNext
  <2> QED  BY <2>5, <2>6
<1>2. Inv /\ Inv' /\ [Next]_vars =>
         [~ overlapped' /\ Disciplined' =>
            Book!HasDefaults' /\ Book!UsesOwn' /\ (Book!Next \/ UNCHANGED Book!vars)]_vars
  BY <1>1
<1>3. Spec => []Inv
  BY InvCorrect, GivenCorrect, WaitingCorrect, OneDefaultCorrect, LinkedOwnCorrect,
     SerialCorrect, PTL
<1> HIDE DEF Inv
<1> QED  BY <1>2, <1>3, PTL DEF Spec, SerialKeepsBook
=============================================================================
