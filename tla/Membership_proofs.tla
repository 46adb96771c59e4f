------------------------- MODULE Membership_proofs -------------------------
(***************************************************************************)
(* Theorems about Membership, for any team, people, orders and requests.    *)
(***************************************************************************)
EXTENDS Membership, FiniteSetTheorems, TLAPS

-----------------------------------------------------------------------------
(* Where a handler can be, and a step of it: it goes to s with the order o, *)
(* the people it has found and the list it has read, for the same call.     *)
Status == {"idle", "done", "refused", "failed"} \cup Steps
Becomes(r, s, o, known, listed) ==
    /\ request' \in [Requests -> RequestType]
    /\ request'[r].step = s /\ request'[r].call = request[r].call
    /\ request'[r].order = o
    /\ request'[r].known = known /\ request'[r].listed = listed
    /\ \A q \in Requests \ {r} : request'[q] = request[q]

GoesWithOrder(r, s, o) == request' = [request EXCEPT ![r].step = s, ![r].order = o]
GoesWithKnown(r, s, known) == request' = [request EXCEPT ![r].step = s, ![r].known = known]
GoesWithList(r, s, listed) == request' = [request EXCEPT ![r].step = s, ![r].listed = listed]
GoesWithBoth(r, s, o, known) ==
    request' = [request EXCEPT ![r].known = known, ![r].order = o, ![r].step = s]

LEMMA Local ==
  ASSUME request \in [Requests -> RequestType], NEW r \in Requests, NEW local \in RequestType,
         request' = [request EXCEPT ![r] = local], local.call = request[r].call
  PROVE  Becomes(r, local.step, local.order, local.known, local.listed)
  BY DEF Becomes

LEMMA Going ==
  ASSUME TypeOK, NEW r \in Requests, NEW s, s \in Status, Goes(r, s)
  PROVE  Becomes(r, s, request[r].order, request[r].known, request[r].listed)
<1> DEFINE local == [request[r] EXCEPT !.step = s]
<1>1. request[r] \in RequestType
  BY DEF TypeOK
<1>2. /\ local \in RequestType /\ local.step = s /\ local.call = request[r].call
      /\ local.order = request[r].order
      /\ local.known = request[r].known /\ local.listed = request[r].listed
  BY <1>1 DEF RequestType, Status
<1>3. request' = [request EXCEPT ![r] = local]
  BY DEF Goes
<1> HIDE DEF local
<1> QED  BY <1>2, <1>3, Local DEF TypeOK

LEMMA GoingWithOrder ==
  ASSUME TypeOK, NEW r \in Requests, NEW s, s \in Status, NEW o, o \in Orders \cup {NoOrder},
         GoesWithOrder(r, s, o)
  PROVE  Becomes(r, s, o, request[r].known, request[r].listed)
<1> DEFINE local == [request[r] EXCEPT !.step = s, !.order = o]
<1>1. request[r] \in RequestType
  BY DEF TypeOK
<1>2. /\ local \in RequestType /\ local.step = s /\ local.call = request[r].call
      /\ local.order = o
      /\ local.known = request[r].known /\ local.listed = request[r].listed
  BY <1>1 DEF RequestType, Status
<1>3. request' = [request EXCEPT ![r] = local]
  BY DEF GoesWithOrder
<1> HIDE DEF local
<1> QED  BY <1>2, <1>3, Local DEF TypeOK

LEMMA GoingWithKnown ==
  ASSUME TypeOK, NEW r \in Requests, NEW s, s \in Status, NEW known, known \in SUBSET People,
         GoesWithKnown(r, s, known)
  PROVE  Becomes(r, s, request[r].order, known, request[r].listed)
<1> DEFINE local == [request[r] EXCEPT !.step = s, !.known = known]
<1>1. request[r] \in RequestType
  BY DEF TypeOK
<1>2. /\ local \in RequestType /\ local.step = s /\ local.call = request[r].call
      /\ local.order = request[r].order
      /\ local.known = known /\ local.listed = request[r].listed
  BY <1>1 DEF RequestType, Status
<1>3. request' = [request EXCEPT ![r] = local]
  BY DEF GoesWithKnown
<1> HIDE DEF local
<1> QED  BY <1>2, <1>3, Local DEF TypeOK

LEMMA GoingWithList ==
  ASSUME TypeOK, NEW r \in Requests, NEW s, s \in Status, NEW listed, listed \in SUBSET Ids,
         GoesWithList(r, s, listed)
  PROVE  Becomes(r, s, request[r].order, request[r].known, listed)
<1> DEFINE local == [request[r] EXCEPT !.step = s, !.listed = listed]
<1>1. request[r] \in RequestType
  BY DEF TypeOK
<1>2. /\ local \in RequestType /\ local.step = s /\ local.call = request[r].call
      /\ local.order = request[r].order
      /\ local.known = request[r].known /\ local.listed = listed
  BY <1>1 DEF RequestType, Status
<1>3. request' = [request EXCEPT ![r] = local]
  BY DEF GoesWithList
<1> HIDE DEF local
<1> QED  BY <1>2, <1>3, Local DEF TypeOK

LEMMA GoingWithBoth ==
  ASSUME TypeOK, NEW r \in Requests, NEW s, s \in Status, NEW o, o \in Orders \cup {NoOrder},
         NEW known, known \in SUBSET People,
         GoesWithBoth(r, s, o, known)
  PROVE  Becomes(r, s, o, known, request[r].listed)
<1> DEFINE local == [request[r] EXCEPT !.known = known, !.order = o, !.step = s]
<1>1. request[r] \in RequestType
  BY DEF TypeOK
<1>2. /\ local \in RequestType /\ local.step = s /\ local.call = request[r].call
      /\ local.order = o /\ local.known = known /\ local.listed = request[r].listed
  BY <1>1 DEF RequestType, Status
<1>3. request' = [request EXCEPT ![r] = local]
  BY DEF GoesWithBoth
<1> HIDE DEF local
<1> QED  BY <1>2, <1>3, Local DEF TypeOK

(* A request that comes in goes to the first step of its call.              *)
LEMMA Coming ==
  ASSUME TypeOK, NEW r \in Requests, NEW c \in Calls,
         request' = [request EXCEPT ![r].step = First[c.op], ![r].call = c]
  PROVE  /\ request' \in [Requests -> RequestType]
         /\ request'[r].step = First[c.op] /\ request'[r].call = c
         /\ request'[r].order = request[r].order
         /\ request'[r].known = request[r].known
         /\ request'[r].listed = request[r].listed
         /\ First[c.op] \in Steps \cap Unordered /\ First[c.op] \in StepsOf[c.op]
         /\ First[c.op] \notin Charging \cup Refunding \cup
               {"joinOrder", "joinComplete", "joinCommit", "closeCommit", "idle"}
         /\ \A q \in Requests \ {r} : request'[q] = request[q]
<1> DEFINE local == [request[r] EXCEPT !.step = First[c.op], !.call = c]
<1>1. request[r] \in RequestType
  BY DEF TypeOK
<1>2. /\ First[c.op] \in Steps \cap Unordered /\ First[c.op] \in StepsOf[c.op]
      /\ First[c.op] \notin Charging \cup Refunding \cup
            {"joinOrder", "joinComplete", "joinCommit", "closeCommit", "idle"}
  BY MembershipAssumption DEF CallType, First, Steps, Unordered, StepsOf, Charging, Refunding
<1>3. /\ local \in RequestType /\ local.step = First[c.op] /\ local.call = c
      /\ local.order = request[r].order
      /\ local.known = request[r].known /\ local.listed = request[r].listed
  BY <1>1, <1>2 DEF RequestType, Status
<1>4. request' = [request EXCEPT ![r] = local]
  OBVIOUS
<1> HIDE DEF local
<1>5. request \in [Requests -> RequestType]
  BY DEF TypeOK
<1>6. request' \in [Requests -> RequestType] /\ request'[r] = local
  BY <1>3, <1>4, <1>5
<1>7. \A q \in Requests \ {r} : request'[q] = request[q]
  BY <1>4, <1>5
<1> QED  BY <1>2, <1>3, <1>6, <1>7

(* A handler at work serves a call.                                         *)
LEMMA Serving ==
  ASSUME HandlersInv, NEW r \in Requests, request[r].step \in Steps
  PROVE  /\ Call(r) \in Calls /\ Call(r) \in CallType /\ Call(r) # NoCall
         /\ request[r].step \in StepsOf[Call(r).op]
         /\ Call(r).people \subseteq People /\ Call(r).target \in Ids
         /\ Call(r).role \in Roles
<1>1. Call(r) \in Calls /\ request[r].step \in StepsOf[Call(r).op]
  BY DEF HandlersInv, HandlerInv, InFlight, Call
<1>2. Call(r) \in CallType /\ Call(r) # NoCall
  BY <1>1, MembershipAssumption
<1> QED  BY <1>1, <1>2 DEF CallType

(* Sets of people and of profiles are finite.                               *)
LEMMA Finite ==
  /\ \A S \in SUBSET Ids : IsFiniteSet(S) /\ Cardinality(S) \in Nat
  /\ \A S \in SUBSET People : IsFiniteSet(S) /\ Cardinality(S) \in Nat
  BY FS_Subset, FS_CardinalityType, MembershipAssumption

(* Rows that a transaction adds are rows of the people, with their tokens.  *)
LEMMA Enrolled ==
  ASSUME TypeOK, NEW ids \in SUBSET Ids, NEW known \in SUBSET People,
         Cardinality(ids) = Cardinality(known), NEW new \in Numbering(known, ids),
         Enrol(ids, new)
  PROVE  /\ rows' \in [Ids -> RowType \cup {Unused, Gone}]
         /\ issued' \subseteq TokenType /\ issued \subseteq issued'
         /\ Members' = Members \cup ids
         /\ \A p \in known : \E t \in issued' : t.user = p
<1>1. new \in [ids -> known] /\ \A p \in People : NewRow(p) \in RowType
  BY DEF Numbering, NewRow, RowType, Roles
<1>2. rows' \in [Ids -> RowType \cup {Unused, Gone}]
  BY <1>1 DEF Enrol, TypeOK
<1>3. \A i \in ids : Token(i, NewRow(new[i])) \in TokenType
  BY <1>1 DEF Token, TokenType, NewRow, Roles
<1>4. issued' \subseteq TokenType /\ issued \subseteq issued'
  BY <1>3 DEF Enrol, TypeOK
<1>5. \A i \in Ids : IsRow(i)' <=> IsRow(i) \/ i \in ids
  BY <1>1, MembershipAssumption DEF Enrol, IsRow
<1>6. Members' = Members \cup ids
  BY <1>5 DEF Members
<1>7. new \in Surjection(ids, known)
  <2>1. new \in Injection(ids, known)
    BY <1>1 DEF Numbering, Injection, IsInjective
  <2>2. IsFiniteSet(known)
    BY Finite
  <2> QED  BY <2>1, <2>2, FS_Injection
<1>8. ASSUME NEW p \in known PROVE \E t \in issued' : t.user = p
  <2>1. PICK i \in ids : new[i] = p
    BY <1>7 DEF Surjection
  <2>2. Token(i, NewRow(new[i])) \in issued' /\ Token(i, NewRow(new[i])).user = p
    BY <2>1 DEF Enrol, Token, NewRow
  <2> QED  BY <2>2
<1> QED  BY <1>2, <1>4, <1>6, <1>8
-----------------------------------------------------------------------------
(* The types: of the initial states, ...                                    *)
LEMMA TypeInit == Init => TypeOK
<1> SUFFICES ASSUME Init PROVE TypeOK
  OBVIOUS
<1>1. PICK s \in Starts :
        LET given == {i \in Ids : s.rows[i] \in RowType}
            placed == {o \in Orders : s.orders[o] # NoOrder}
        IN
        /\ rows = s.rows
        /\ users = s.users
        /\ orders = s.orders
        /\ invited = s.invited
        /\ orderOf = [p \in People |-> IF p \in s.invited THEN s.invitedWith ELSE NoOrder]
        /\ memberCount = Cardinality(given) + Cardinality(s.invited)
        /\ plan = IF placed = {} THEN "FREE" ELSE "PRO"
        /\ result = [o \in Orders |-> IF o \in placed THEN "paid" ELSE "none"]
        /\ charged = placed
        /\ issued = {Token(i, s.rows[i]) : i \in given}
  BY DEF Init
<1>2. /\ s.rows \in [Ids -> RowType \cup {Unused}] /\ s.users \subseteq People
      /\ s.orders \in [Orders -> OrderType \cup {NoOrder}] /\ s.invited \subseteq People
      /\ s.invitedWith \in Orders
  BY MembershipAssumption DEF StartType
<1>3. orderOf \in [People -> Orders \cup {NoOrder}]
  BY <1>1, <1>2
<1>4. memberCount \in Int
  <2>1. /\ Cardinality({i \in Ids : s.rows[i] \in RowType}) \in Nat
        /\ Cardinality(s.invited) \in Nat
    BY <1>2, Finite
  <2> QED  BY <1>1, <2>1
<1>5. plan \in {"FREE", "PRO"}
  BY <1>1
<1>6. result \in [Orders -> {"none", "paid", "cancelled"}] /\ charged \subseteq Orders
  BY <1>1
<1>7. issued \subseteq TokenType
  <2>1. ASSUME NEW i \in Ids, s.rows[i] \in RowType PROVE Token(i, s.rows[i]) \in TokenType
    BY <2>1 DEF Token, TokenType, RowType
  <2> QED  BY <1>1, <2>1
<1>8. request \in [Requests -> RequestType]
  BY DEF Init, RequestType
<1>9. /\ closed \in BOOLEAN /\ returned \in [Orders -> Nat] /\ refunded \subseteq charged
      /\ orderly \in BOOLEAN
  BY DEF Init
<1> QED
  BY <1>1, <1>2, <1>3, <1>4, <1>5, <1>6, <1>7, <1>8, <1>9 DEF TypeOK

(* ... of what the handlers do to their own state, ...                      *)
LEMMA Chosen ==
  ASSUME NEW S, S # {}
  PROVE  (CHOOSE p \in S : TRUE) \in S
  OBVIOUS

(* ... each of the steps that find something to go on with, ...             *)
LEMMA InviteFindMoves ==
  ASSUME TypeOK, NEW r \in Requests, InviteFind(r)
  PROVE  \/ Becomes(r, "failed", request[r].order, request[r].known, request[r].listed)
         \/ Becomes(r, "inviteCharge", request[r].order, Call(r).people \cap users,
                    request[r].listed)
<1>1. CASE Goes(r, "failed")
  BY <1>1, Going DEF Status
<1>2. CASE request' = [request EXCEPT ![r].step = "inviteCharge",
                                     ![r].known = Call(r).people \cap users]
  <2>1. Call(r).people \cap users \in SUBSET People
    BY DEF TypeOK
  <2>2. GoesWithKnown(r, "inviteCharge", Call(r).people \cap users)
    BY <1>2 DEF GoesWithKnown
  <2> QED  BY <2>1, <2>2, GoingWithKnown DEF Status, Steps
<1> QED  BY <1>1, <1>2 DEF InviteFind

LEMMA InviteChargeMoves ==
  ASSUME TypeOK, NEW r \in Requests, InviteCharge(r)
  PROVE  \/ /\ Becomes(r, "failed", request[r].order, request[r].known, request[r].listed)
            /\ charged' = charged
         \/ \E o \in Free :
               /\ charged' = charged \cup {o}
               /\ Becomes(r, "inviteResult", o, request[r].known, request[r].listed)
<1>1. CASE Goes(r, "failed") /\ UNCHANGED charged
  BY <1>1, Going DEF Status
<1>2. ASSUME NEW o \in Free, charged' = charged \cup {o},
             request' = [request EXCEPT ![r].step = "inviteResult", ![r].order = o]
      PROVE  Becomes(r, "inviteResult", o, request[r].known, request[r].listed)
  <2>1. GoesWithOrder(r, "inviteResult", o)
    BY <1>2 DEF GoesWithOrder
  <2> QED  BY <2>1, GoingWithOrder DEF Free, Status, Steps
<1> QED  BY <1>1, <1>2 DEF InviteCharge

LEMMA JoinFindMoves ==
  ASSUME TypeOK, NEW r \in Requests, JoinFind(r)
  PROVE  LET found == Call(r).people \cap invited IN
         \/ /\ found = {}
            /\ Becomes(r, "joinCommit", NoOrder, {}, request[r].listed)
         \/ /\ found # {}
            /\ \E p \in found :
                  Becomes(r, "joinOrder", orderOf[p], found, request[r].listed)
<1> DEFINE found == Call(r).people \cap invited
<1>1. found \in SUBSET People
  BY DEF TypeOK
<1>2. CASE found = {}
  <2>1. GoesWithBoth(r, "joinCommit", NoOrder, {})
    BY <1>2 DEF JoinFind, GoesWithBoth
  <2> QED  BY <1>2, <2>1, GoingWithBoth DEF Status, Steps
<1>3. CASE found # {}
  <2>1. PICK p \in found : p = (CHOOSE q \in found : TRUE)
    BY <1>3, Chosen
  <2>2. orderOf[p] \in Orders
        \/ orderOf[p] = NoOrder
    BY <1>1, <2>1 DEF TypeOK
  <2>3. GoesWithBoth(r, "joinOrder", orderOf[p], found)
    BY <1>3, <2>1 DEF JoinFind, GoesWithBoth
  <2> HIDE DEF found
  <2>4. Becomes(r, "joinOrder", orderOf[p], found, request[r].listed)
    BY <1>1, <2>2, <2>3, GoingWithBoth DEF Status, Steps
  <2> QED  BY <1>3, <2>4 DEF found
<1> QED  BY <1>2, <1>3

LEMMA JoinOrderMoves ==
  ASSUME TypeOK, NEW r \in Requests, JoinOrder(r)
  PROVE  LET o == request[r].order IN
         \/ /\ o \in Orders /\ orders[o] # NoOrder
            /\ Becomes(r, "joinComplete", o, request[r].known, orders[o].profileIds)
         \/ /\ ~ (o \in Orders /\ orders[o] # NoOrder)
            /\ Becomes(r, "joinCommit", NoOrder, request[r].known, request[r].listed)
<1> DEFINE o == request[r].order
<1>1. CASE o \in Orders /\ orders[o] # NoOrder
  <2>1. orders[o].profileIds \in SUBSET Ids
    BY <1>1 DEF TypeOK, OrderType
  <2>2. GoesWithList(r, "joinComplete", orders[o].profileIds)
    BY <1>1 DEF JoinOrder, GoesWithList
  <2> QED  BY <1>1, <2>1, <2>2, GoingWithList DEF Status, Steps
<1>2. CASE ~ (o \in Orders /\ orders[o] # NoOrder)
  <2>1. GoesWithOrder(r, "joinCommit", NoOrder)
    BY <1>2 DEF JoinOrder, GoesWithOrder
  <2> QED  BY <1>2, <2>1, GoingWithOrder DEF Status, Steps
<1> QED  BY <1>1, <1>2

LEMMA RemoveOrderMoves ==
  ASSUME TypeOK, NEW r \in Requests, RemoveOrder(r)
  PROVE  \/ Becomes(r, "failed", request[r].order, request[r].known, request[r].listed)
         \/ \E o \in Orders :
               /\ orders[o] # NoOrder
               /\ Becomes(r, "removeTeam", o, request[r].known, request[r].listed)
<1>1. CASE Goes(r, "failed")
  BY <1>1, Going DEF Status
<1>2. ASSUME NEW o \in Orders,
             request' = [request EXCEPT ![r].step = "removeTeam", ![r].order = o]
      PROVE  Becomes(r, "removeTeam", o, request[r].known, request[r].listed)
  <2>1. GoesWithOrder(r, "removeTeam", o)
    BY <1>2 DEF GoesWithOrder
  <2> QED  BY <2>1, GoingWithOrder DEF Status, Steps
<1> QED  BY <1>1, <1>2 DEF RemoveOrder

LEMMA CloseOrderMoves ==
  ASSUME TypeOK, NEW r \in Requests, CloseOrder(r)
  PROVE  \/ /\ TeamOrder = NoOrder
            /\ Becomes(r, "closeCommit", NoOrder, request[r].known, request[r].listed)
         \/ /\ TeamOrder \in Orders
            /\ \/ Becomes(r, "failed", TeamOrder, request[r].known, request[r].listed)
               \/ Becomes(r, "refundRead", TeamOrder, request[r].known, request[r].listed)
<1> DEFINE s == IF TeamOrder = NoOrder THEN "closeCommit"
                ELSE IF closed THEN "failed" ELSE "refundRead"
<1>1. request[r] \in RequestType /\ TeamOrder \in Orders \cup {NoOrder}
  BY MembershipAssumption DEF TypeOK
<1>2. /\ s \in {"closeCommit", "failed", "refundRead"} /\ s \in Status
      /\ s = "closeCommit" <=> TeamOrder = NoOrder
  BY DEF Status, Steps
<1>3. GoesWithOrder(r, s, TeamOrder)
  <2> HIDE DEF s
  <2>1. request' = [request EXCEPT ![r].order = TeamOrder, ![r].step = s]
    BY DEF CloseOrder, s
  <2> QED  BY <2>1, <1>1 DEF GoesWithOrder, TypeOK, RequestType
<1> HIDE DEF s
<1>4. Becomes(r, s, TeamOrder, request[r].known, request[r].listed)
  BY <1>1, <1>2, <1>3, GoingWithOrder
<1> QED  BY <1>1, <1>2, <1>4

(* ... and all of them: only the own state changes, for the same call.      *)
LEMMA Moving ==
  ASSUME TypeOK, NEW r \in Requests, Serve(r)
  PROVE  /\ request[r].step \in Steps
         /\ request' \in [Requests -> RequestType]
         /\ request'[r].call = request[r].call
         /\ request'[r].step # "idle"
         /\ \A q \in Requests \ {r} : request'[q] = request[q]
<1> DEFINE Goal ==
        /\ request[r].step \in Steps
        /\ request' \in [Requests -> RequestType]
        /\ request'[r].call = request[r].call
        /\ request'[r].step # "idle"
        /\ \A q \in Requests \ {r} : request'[q] = request[q]
<1>1. ASSUME NEW s, s \in Status \ {"idle"}, Goes(r, s), request[r].step \in Steps PROVE Goal
  BY <1>1, Going DEF Becomes, Status, Steps
<1>2. CASE InviteFind(r)
  BY <1>2, InviteFindMoves DEF InviteFind, At, Becomes, Steps
<1>3. CASE InviteCharge(r)
  BY <1>3, InviteChargeMoves DEF InviteCharge, At, Becomes, Steps
<1>4. CASE \/ InviteResult(r) \/ InviteCount(r) \/ InviteCommit(r) \/ InvitePlan(r)
           \/ InviteSet(r) \/ JoinComplete(r) \/ JoinCommit(r) \/ Accept(r)
  BY <1>1, <1>4 DEF InviteResult, InviteCount, InviteCommit, InvitePlan, InviteSet,
     JoinComplete, JoinCommit, Accept, At, Status, Steps
<1>5. CASE JoinFind(r)
  BY <1>5, JoinFindMoves DEF JoinFind, At, Becomes, Steps
<1>6. CASE JoinOrder(r)
  BY <1>6, JoinOrderMoves DEF JoinOrder, At, Becomes, Steps
<1>7. CASE \/ RemoveFind(r) \/ RemoveTeam(r) \/ RemoveOwner(r) \/ RemoveCommit(r)
           \/ RemoveCount(r) \/ RefundSave(r) \/ WithdrawDelete(r) \/ WithdrawCount(r)
           \/ RolesCheck(r) \/ RolesCommit(r) \/ CloseProfiles(r) \/ CloseInvitations(r)
           \/ CloseCommit(r)
  BY <1>1, <1>7 DEF RemoveFind, RemoveTeam, RemoveOwner, RemoveCommit, RemoveCount,
     RefundSave, AfterRefund, WithdrawDelete, WithdrawCount, RolesCheck, RolesCommit,
     CloseProfiles, CloseInvitations, CloseCommit, At, Status, Steps
<1>8. CASE RemoveOrder(r)
  BY <1>8, RemoveOrderMoves DEF RemoveOrder, At, Becomes, Steps
<1>9. CASE RefundRead(r) \/ RefundCall(r)
  BY <1>1, <1>9 DEF RefundRead, RefundCall, AfterRefund, At, Status, Steps
<1>10. CASE CloseOrder(r)
  BY <1>10, CloseOrderMoves DEF CloseOrder, At, Becomes, Steps
<1> QED
  BY <1>2, <1>3, <1>4, <1>5, <1>6, <1>7, <1>8, <1>9, <1>10 DEF Serve

(* ... and of every step.                                                   *)
LEMMA TypeServe ==
  ASSUME TypeOK, HandlersInv, NEW r \in Requests, Serve(r)
  PROVE  TypeOK' /\ issued \subseteq issued'
<1> USE DEF tables, redis, gateway
<1>1. /\ request[r].step \in Steps
      /\ request' \in [Requests -> RequestType] /\ request[r] \in RequestType
  BY Moving DEF TypeOK
<1>2. /\ Call(r).people \subseteq People /\ Call(r).target \in Ids /\ Call(r).role \in Roles
      /\ Call(r) \in CallType
  BY <1>1, Serving
<1> DEFINE Rows == RowType \cup {Unused, Gone}
<1>3. CASE \/ InviteFind(r) \/ JoinFind(r) \/ JoinOrder(r) \/ RemoveFind(r) \/ RemoveOrder(r)
           \/ RemoveTeam(r) \/ RemoveOwner(r) \/ RefundRead(r) \/ RolesCheck(r)
           \/ CloseProfiles(r) \/ CloseInvitations(r) \/ CloseOrder(r)
  <2>1. UNCHANGED <<tables, redis, gateway, issued, orderly>>
    BY <1>3 DEF InviteFind, JoinFind, JoinOrder, RemoveFind, RemoveOrder, RemoveTeam,
       RemoveOwner, RefundRead, RolesCheck, CloseProfiles, CloseInvitations, CloseOrder
  <2> QED  BY <1>1, <2>1 DEF TypeOK
<1>4. CASE InviteCharge(r)
  BY <1>1, <1>4 DEF InviteCharge, Free, TypeOK
<1>5. CASE InviteResult(r)
  BY <1>1, <1>5 DEF InviteResult, TypeOK
<1>6. CASE InviteCount(r)
  <2>1. Cardinality(Call(r).people) \in Nat
    BY <1>2, Finite
  <2>2. memberCount' \in Int
    BY <1>6, <2>1 DEF InviteCount, TypeOK
  <2> QED  BY <1>1, <1>6, <2>2 DEF InviteCount, TypeOK
<1>7. CASE InviteCommit(r)
  <2>1. PICK ids \in SUBSET Ids :
          /\ Cardinality(ids) = Cardinality(request[r].known)
          /\ \E new \in Numbering(request[r].known, ids) : Enrol(ids, new)
          /\ orders' = [orders EXCEPT ![request[r].order] = OrderFor(ids)]
    BY <1>7 DEF InviteCommit
  <2>2. rows' \in [Ids -> Rows] /\ issued' \subseteq TokenType /\ issued \subseteq issued'
    BY <1>1, <2>1, Enrolled DEF RequestType
  <2>3. orders' \in [Orders -> OrderType \cup {NoOrder}]
    <3>1. OrderFor(ids) \in OrderType
      BY DEF OrderFor, OrderType
    <3> QED  BY <2>1, <3>1 DEF TypeOK
  <2> QED  BY <1>1, <1>7, <2>2, <2>3 DEF InviteCommit, TypeOK
<1>8. CASE InvitePlan(r)
  BY <1>1, <1>8 DEF InvitePlan, TypeOK
<1>9. CASE InviteSet(r)
  <2>1. request[r].order \in Orders
    BY <1>9 DEF HandlersInv, HandlerInv, InFlight, Steps, Unordered, InviteSet, At
  <2>2. orderOf' \in [People -> Orders \cup {NoOrder}]
    BY <1>9, <2>1 DEF InviteSet, TypeOK
  <2>3. invited' \subseteq People
    BY <1>9, <1>2 DEF InviteSet, TypeOK
  <2> QED  BY <1>1, <1>9, <2>2, <2>3 DEF InviteSet, TypeOK
<1>10. CASE JoinComplete(r)
  BY <1>1, <1>10 DEF JoinComplete, TypeOK
<1>11. CASE JoinCommit(r)
  <2> DEFINE o == request[r].order
  <2>1. PICK ids \in SUBSET Ids :
          /\ Cardinality(ids) = Cardinality(request[r].known)
          /\ \E new \in Numbering(request[r].known, ids) : Enrol(ids, new)
          /\ orders' = IF o = NoOrder THEN orders
                       ELSE [orders EXCEPT ![o] = OrderFor(request[r].listed \cup ids)]
    BY <1>11 DEF JoinCommit
  <2>2. rows' \in [Ids -> Rows] /\ issued' \subseteq TokenType /\ issued \subseteq issued'
    BY <1>1, <2>1, Enrolled DEF RequestType
  <2>3. orders' \in [Orders -> OrderType \cup {NoOrder}]
    <3>1. OrderFor(request[r].listed \cup ids) \in OrderType
      BY <1>1 DEF OrderFor, OrderType, RequestType
    <3> QED  BY <2>1, <3>1 DEF TypeOK
  <2>4. users' \subseteq People
    BY <1>11, <1>2 DEF JoinCommit, TypeOK
  <2> QED  BY <1>1, <1>11, <2>2, <2>3, <2>4 DEF JoinCommit, TypeOK
<1>12. CASE Accept(r)
  <2>1. ASSUME NEW row \in RowType PROVE [row EXCEPT !.active = TRUE] \in RowType
    BY DEF RowType
  <2>2. rows' \in [Ids -> Rows]
    BY <1>12, <2>1 DEF Accept, IsRow, TypeOK
  <2> QED  BY <1>1, <1>12, <2>2 DEF Accept, TypeOK
<1>13. CASE RemoveCommit(r)
  <2>1. rows' \in [Ids -> Rows]
    BY <1>13 DEF RemoveCommit, TypeOK
  <2>2. returned' \in [Orders -> Nat]
    <3>1. request[r].order \in Orders
      BY <1>13 DEF HandlersInv, HandlerInv, InFlight, Steps, Unordered, RemoveCommit, At
    <3> QED  BY <1>13, <3>1 DEF RemoveCommit, Returned, TypeOK
  <2> QED  BY <1>1, <1>13, <2>1, <2>2 DEF RemoveCommit, TypeOK
<1>14. CASE RemoveCount(r) \/ WithdrawCount(r)
  BY <1>1, <1>14 DEF RemoveCount, WithdrawCount, TypeOK
<1>15. CASE RefundCall(r)
  BY <1>1, <1>15 DEF RefundCall, TypeOK
<1>16. CASE RefundSave(r)
  BY <1>1, <1>16 DEF RefundSave, TypeOK
<1>17. CASE WithdrawDelete(r)
  BY <1>1, <1>17 DEF WithdrawDelete, TypeOK
<1>18. CASE RolesCommit(r)
  <2>1. ASSUME NEW row \in RowType, NEW role \in Roles
        PROVE  [row EXCEPT !.role = role] \in RowType
    BY DEF RowType
  <2>2. \A i \in Ids :
          /\ rows'[i] \in Rows
          /\ IsRow(i) => rows'[i] \in RowType
    <3>1. "MANAGER" \in Roles
      BY DEF Roles
    <3> QED  BY <1>2, <1>18, <2>1, <3>1 DEF RolesCommit, WithRoles, IsRow, TypeOK
  <2>3. rows' \in [Ids -> Rows]
    BY <1>18, <2>2 DEF RolesCommit, WithRoles
  <2>4. issued' \subseteq TokenType /\ issued \subseteq issued'
    <3>1. ASSUME NEW i \in Members PROVE Token(i, rows'[i]) \in TokenType
      <4>1. i \in Ids /\ rows'[i] \in RowType
        BY <2>2 DEF Members
      <4> QED  BY <4>1 DEF Token, TokenType, RowType
    <3> QED  BY <1>18, <3>1 DEF RolesCommit, TypeOK
  <2> QED  BY <1>1, <1>18, <2>3, <2>4 DEF RolesCommit, TypeOK
<1>19. CASE CloseCommit(r)
  <2>1. rows' \in [Ids -> Rows] /\ closed' \in BOOLEAN
    BY <1>19 DEF CloseCommit, TypeOK
  <2>2. returned' \in [Orders -> Nat]
    BY <1>19 DEF CloseCommit, Returned, TypeOK
  <2> QED  BY <1>1, <1>19, <2>1, <2>2 DEF CloseCommit, TypeOK
<1> QED
  BY <1>3, <1>4, <1>5, <1>6, <1>7, <1>8, <1>9, <1>10, <1>11, <1>12, <1>13, <1>14, <1>15,
     <1>16, <1>17, <1>18, <1>19 DEF Serve

-----------------------------------------------------------------------------
(* What a step of one handler leaves to the others: charges, orders and     *)
(* answers of the gateway stay, an order comes into the database only as    *)
(* that of its invitation, and a handler takes up no order that another     *)
(* has made and not yet saved.                                              *)
Placed(o) == o \in Orders /\ orders[o] # NoOrder
Grows(r) ==
    /\ charged \subseteq charged'
    /\ \A o \in Orders :
          /\ Placed(o) => orders'[o] # NoOrder
          /\ orders'[o] # NoOrder => Placed(o) \/ (At(r, "inviteCommit") /\ o = request[r].order)
          /\ result[o] # "none" => result'[o] # "none"
          /\ returned'[o] >= returned[o]
    /\ \/ request'[r].order \in {NoOrder, request[r].order} \cup Free
       \/ Placed(request'[r].order)
    /\ \A p \in People :
          orderOf'[p] = orderOf[p] \/ (At(r, "inviteSet") /\ orderOf'[p] = request[r].order)
    /\ \A p \in invited' : p \in invited \/ orderOf'[p] = request[r].order

LEMMA Growing ==
  ASSUME TypeOK, HandlersInv, OrdersInv, NEW r \in Requests, Serve(r)
  PROVE  Grows(r)
<1> USE DEF tables, redis, gateway
<1>1. request[r] \in RequestType
  BY DEF TypeOK
<1>2. ASSUME UNCHANGED <<charged, orders, result, returned, orderOf>>, invited' \subseteq invited,
             \/ request'[r].order \in {NoOrder, request[r].order}
             \/ Placed(request'[r].order)
      PROVE  Grows(r)
  BY <1>2 DEF Grows, Placed, TypeOK
<1>3. ASSUME NEW s, s \in Status, Goes(r, s) PROVE request'[r].order = request[r].order
  BY <1>3, Going DEF Becomes
<1>4. CASE InviteFind(r)
  BY <1>2, <1>4, InviteFindMoves DEF InviteFind, Becomes
<1>5. CASE InviteCharge(r)
  <2>1. /\ charged \subseteq charged'
        /\ request'[r].order \in {request[r].order} \cup Free
    BY <1>5, InviteChargeMoves DEF Becomes
  <2> QED  BY <1>5, <2>1 DEF InviteCharge, Grows, Placed, TypeOK
<1>6. CASE InviteResult(r)
  <2>1. request'[r].order = request[r].order
    BY <1>3, <1>6 DEF InviteResult, Status, Steps
  <2>2. \A o \in Orders : result[o] # "none" => result'[o] # "none"
    BY <1>6 DEF InviteResult, TypeOK
  <2> QED  BY <1>6, <2>1, <2>2 DEF InviteResult, Grows, Placed, TypeOK
<1>7. CASE InviteCommit(r)
  <2>1. request'[r].order = request[r].order
    BY <1>3, <1>7 DEF InviteCommit, Status, Steps
  <2>2. \A o \in Orders :
          /\ Placed(o) => orders'[o] # NoOrder
          /\ orders'[o] # NoOrder => Placed(o) \/ (At(r, "inviteCommit") /\ o = request[r].order)
    <3>1. PICK ids \in SUBSET Ids :
            orders' = [orders EXCEPT ![request[r].order] = OrderFor(ids)]
      BY <1>7 DEF InviteCommit
    <3>2. OrderFor(ids) # NoOrder
      BY MembershipAssumption DEF OrderFor, OrderType
    <3> QED  BY <1>7, <3>1, <3>2 DEF InviteCommit, Placed, TypeOK
  <2> QED  BY <1>7, <2>1, <2>2 DEF InviteCommit, Grows, TypeOK
<1>8. CASE InviteSet(r)
  <2>1. request'[r].order = request[r].order
    BY <1>3, <1>8 DEF InviteSet, Status
  <2>2. \A p \in People :
          orderOf'[p] = orderOf[p] \/ (At(r, "inviteSet") /\ orderOf'[p] = request[r].order)
    BY <1>8 DEF InviteSet
  <2>3. Call(r).people \subseteq People
    BY <1>8, Serving DEF InviteSet, At, Steps
  <2>4. \A p \in invited' : p \in invited \/ orderOf'[p] = request[r].order
    BY <1>8, <2>3 DEF InviteSet
  <2> QED  BY <1>8, <2>1, <2>2, <2>4 DEF InviteSet, Grows, Placed, TypeOK
<1>9. CASE JoinFind(r)
  <2>1. \/ request'[r].order = NoOrder
        \/ Placed(request'[r].order)
    <3>1. ASSUME NEW p \in Call(r).people \cap invited PROVE Placed(orderOf[p])
      BY <3>1 DEF OrdersInv, Placed, TypeOK
    <3> QED  BY <1>9, <3>1, JoinFindMoves DEF Becomes
  <2> QED  BY <1>2, <1>9, <2>1 DEF JoinFind
<1>10. CASE JoinOrder(r)
  <2>1. request'[r].order \in {NoOrder, request[r].order}
    BY <1>10, JoinOrderMoves DEF Becomes
  <2> QED  BY <1>2, <1>10, <2>1 DEF JoinOrder
<1>11. CASE JoinCommit(r)
  <2> DEFINE o == request[r].order
  <2>1. request'[r].order = request[r].order
    BY <1>3, <1>11 DEF JoinCommit, Status
  <2>2. o = NoOrder \/ Placed(o)
    BY <1>1, <1>11 DEF HandlersInv, HandlerInv, InFlight, Steps, Charging, JoinCommit, At,
       Placed, RequestType
  <2>3. \A q \in Orders :
          /\ Placed(q) => orders'[q] # NoOrder
          /\ orders'[q] # NoOrder => Placed(q)
    <3>1. PICK ids \in SUBSET Ids :
            orders' = IF o = NoOrder THEN orders
                      ELSE [orders EXCEPT ![o] = OrderFor(request[r].listed \cup ids)]
      BY <1>11 DEF JoinCommit
    <3>2. OrderFor(request[r].listed \cup ids) # NoOrder
      BY <1>1, MembershipAssumption DEF OrderFor, OrderType, RequestType
    <3> QED  BY <2>2, <3>1, <3>2 DEF Placed, TypeOK
  <2>4. UNCHANGED <<charged, result, returned, orderOf, invited>>
    BY <1>11 DEF JoinCommit
  <2> QED  BY <2>1, <2>3, <2>4 DEF Grows, TypeOK
<1>12. CASE RemoveOrder(r)
  <2>1. request'[r].order = request[r].order \/ Placed(request'[r].order)
    BY <1>12, RemoveOrderMoves DEF Becomes, Placed
  <2> QED  BY <1>2, <1>12, <2>1 DEF RemoveOrder
<1>13. CASE CloseOrder(r)
  <2>1. request'[r].order = NoOrder \/ Placed(request'[r].order)
    <3>1. TeamOrder # NoOrder => Placed(TeamOrder)
      BY MembershipAssumption DEF OrdersInv, Placed
    <3>2. TeamOrder \in Orders => TeamOrder # NoOrder
      BY MembershipAssumption
    <3> QED  BY <1>13, <3>1, <3>2, CloseOrderMoves DEF Becomes
  <2> QED  BY <1>2, <1>13, <2>1 DEF CloseOrder
<1>14. CASE \/ InviteCount(r) \/ InvitePlan(r) \/ JoinComplete(r) \/ Accept(r) \/ RemoveFind(r)
            \/ RemoveTeam(r) \/ RemoveOwner(r) \/ RemoveCount(r) \/ WithdrawDelete(r)
            \/ WithdrawCount(r) \/ RolesCheck(r) \/ RolesCommit(r) \/ CloseProfiles(r)
            \/ CloseInvitations(r)
  <2>1. request'[r].order = request[r].order
    BY <1>3, <1>14 DEF InviteCount, InvitePlan, JoinComplete, Accept, RemoveFind, RemoveTeam,
       RemoveOwner, RemoveCount, WithdrawDelete, WithdrawCount, RolesCheck, RolesCommit,
       CloseProfiles, CloseInvitations, Status, Steps
  <2> QED
    BY <1>2, <1>14, <2>1 DEF InviteCount, InvitePlan, JoinComplete, Accept, RemoveFind,
       RemoveTeam, RemoveOwner, RemoveCount, WithdrawDelete, WithdrawCount, RolesCheck,
       RolesCommit, CloseProfiles, CloseInvitations
<1>15. CASE RefundRead(r) \/ RefundCall(r)
  <2>1. request'[r].order = request[r].order
    BY <1>3, <1>15 DEF RefundRead, RefundCall, AfterRefund, Status, Steps
  <2> QED  BY <1>2, <1>15, <2>1 DEF RefundRead, RefundCall
<1>16. CASE RefundSave(r)
  <2>1. request'[r].order = request[r].order
    BY <1>3, <1>16 DEF RefundSave, AfterRefund, Status, Steps
  <2>2. \A o \in Orders : result[o] # "none" => result'[o] # "none"
    BY <1>16 DEF RefundSave, TypeOK
  <2> QED  BY <1>16, <2>1, <2>2 DEF RefundSave, Grows, Placed, TypeOK
<1>17. CASE RemoveCommit(r) \/ CloseCommit(r)
  <2>1. request'[r].order = request[r].order
    BY <1>3, <1>17 DEF RemoveCommit, CloseCommit, Status, Steps
  <2>2. \A o \in Orders : returned'[o] >= returned[o]
    BY <1>17 DEF RemoveCommit, CloseCommit, Returned, TypeOK
  <2> QED  BY <1>17, <2>1, <2>2 DEF RemoveCommit, CloseCommit, Grows, Placed, TypeOK
<1> QED
  BY <1>4, <1>5, <1>6, <1>7, <1>8, <1>9, <1>10, <1>11, <1>12, <1>13, <1>14, <1>15, <1>16,
     <1>17 DEF Serve

(* The state that a handler is left with.                                   *)
Fit(r, s, o, known, listed) ==
    /\ s # "idle"
    /\ s \in Steps => s \in StepsOf[Call(r).op]
    /\ s \in Unordered => o = NoOrder
    /\ s \in Steps /\ s \notin Unordered \cup {"joinCommit", "closeCommit"} => o \in Orders
    /\ s \in Charging =>
          /\ o \in charged' /\ orders'[o] = NoOrder
          /\ \A q \in Requests \ {r} : request[q].order # o
    /\ s \in Charging \ {"inviteResult"} => result'[o] # "none"
    /\ s \in Steps \ Charging /\ o # NoOrder => orders'[o] # NoOrder
    /\ Call(r).op = "close" /\ s \in Refunding \cup {"closeCommit"} => o = TeamOrder
    /\ s \in {"joinOrder", "joinComplete"} => known = Call(r).people
    /\ s = "joinCommit" => known = {} \/ o \in Orders

LEMMA Fitting ==
  ASSUME NEW r \in Requests, NEW s, NEW o, NEW known, NEW listed,
         Becomes(r, s, o, known, listed), Fit(r, s, o, known, listed),
         Call(r) \in Calls
  PROVE  HandlerInv(r)'
<1>1. /\ request'[r].step = s /\ request'[r].call = Call(r) /\ request'[r].order = o
      /\ request'[r].known = known
      /\ \A q \in Requests \ {r} : request'[q] = request[q]
  BY DEF Becomes, Call
<1>2. s \in Charging => \A q \in Requests \ {r} : request'[q].order # o
  BY <1>1 DEF Fit
<1> QED
  BY <1>1, <1>2 DEF Fit, HandlerInv, At, Op, Call, InFlight

LEMMA FittingEnd ==
  ASSUME NEW r \in Requests, NEW s \in {"done", "refused", "failed"}, NEW o, NEW known, NEW listed,
         Becomes(r, s, o, known, listed), Call(r) \in Calls
  PROVE  HandlerInv(r)'
<1>1. Fit(r, s, o, known, listed)
  BY DEF Fit, Steps, Unordered, Charging, Refunding
<1> QED  BY <1>1, Fitting

(* Every step of a handler keeps its own part: ...                          *)
LEMMA Own ==
  ASSUME TypeOK, HandlersInv, OrdersInv, NEW r \in Requests, Serve(r)
  PROVE  HandlerInv(r)'
<1> DEFINE o == request[r].order
<1> DEFINE known == request[r].known
<1> DEFINE listed == request[r].listed
<1>1. /\ request[r].step \in Steps /\ Call(r) \in Calls /\ Call(r) \in CallType
      /\ request[r].step \in StepsOf[Call(r).op]
  BY Moving, Serving
<1>2. HandlerInv(r) /\ Grows(r)
  BY Growing DEF HandlersInv
<1>3. request[r] \in RequestType
  BY DEF TypeOK
<1>4. ASSUME NEW s \in Status, Goes(r, s), Fit(r, s, o, known, listed) PROVE HandlerInv(r)'
  BY <1>1, <1>4, Going, Fitting
<1>5. ASSUME NEW s \in {"done", "refused", "failed"}, Goes(r, s) PROVE HandlerInv(r)'
  BY <1>1, <1>5, Going, FittingEnd DEF Status
<1>6. ASSUME o \in Orders, orders[o] # NoOrder
      PROVE  orders'[o] # NoOrder
  BY <1>2, <1>6 DEF Grows, Placed
<1>7. request[r].step \in Steps \ Charging /\ o # NoOrder => Placed(o)
  BY <1>2, <1>3 DEF HandlerInv, InFlight, Placed, RequestType
<1>p. ASSUME request[r].step \in
               Steps \ (Charging \cup Unordered \cup {"joinCommit", "closeCommit"})
      PROVE  Placed(o)
  <2>1. o \in Orders /\ o # NoOrder
    BY <1>2, <1>p, MembershipAssumption DEF HandlerInv, InFlight
  <2> QED  BY <1>7, <1>p, <2>1
<1>8. ASSUME NEW s \in Steps \ (Unordered \cup Charging \cup {"joinOrder", "joinComplete", "joinCommit", "closeCommit"}),
             Goes(r, s), s \in StepsOf[Call(r).op], Placed(o), orders'[o] # NoOrder,
             Call(r).op = "close" => o = TeamOrder
      PROVE  HandlerInv(r)'
  <2>1. Fit(r, s, o, known, listed)
    BY <1>8 DEF Fit, Placed, Steps, Unordered, Charging
  <2> QED  BY <1>4, <1>8, <2>1 DEF Status
<1>9. ASSUME NEW s \in Steps \cap Unordered, Goes(r, s), s \in StepsOf[Call(r).op], o = NoOrder, s # "idle"
      PROVE  HandlerInv(r)'
  <2>1. Fit(r, s, o, known, listed)
    BY <1>9 DEF Fit, Steps, Unordered, Charging, Refunding
  <2> QED  BY <1>4, <1>9, <2>1 DEF Status
<1>10. CASE InviteFind(r)
  <2>1. Call(r).op = "invite" /\ o = NoOrder
    BY <1>1, <1>2, <1>10 DEF InviteFind, HandlerInv, At, StepsOf, Unordered, CallType
  <2>2. CASE Becomes(r, "failed", o, known, listed)
    BY <1>1, <2>2, FittingEnd
  <2>3. CASE Becomes(r, "inviteCharge", o, Call(r).people \cap users, listed)
    <3>1. Fit(r, "inviteCharge", o, Call(r).people \cap users, listed)
      BY <2>1 DEF Fit, StepsOf, Steps, Unordered, Charging, Refunding
    <3> QED  BY <1>1, <2>3, <3>1, Fitting
  <2> QED  BY <1>10, <2>2, <2>3, InviteFindMoves
<1>11. CASE InviteCharge(r)
  <2>1. Call(r).op = "invite" /\ UNCHANGED orders
    BY <1>1, <1>11 DEF InviteCharge, At, StepsOf, CallType, tables
  <2>2. CASE Becomes(r, "failed", o, known, listed)
    BY <1>1, <2>2, FittingEnd
  <2>3. ASSUME NEW new \in Free, charged' = charged \cup {new},
               Becomes(r, "inviteResult", new, known, listed)
        PROVE  HandlerInv(r)'
    <3>1. Fit(r, "inviteResult", new, known, listed)
      BY <2>1, <2>3 DEF Fit, Free, StepsOf, Steps, Unordered, Charging, Refunding
    <3> QED  BY <1>1, <2>3, <3>1, Fitting
  <2> QED  BY <1>11, <2>2, <2>3, InviteChargeMoves
<1>12. CASE InviteResult(r)
  <2>1. /\ Call(r).op = "invite" /\ o \in Orders /\ o \in charged /\ orders[o] = NoOrder
        /\ \A q \in Requests \ {r} : request[q].order # o
    BY <1>1, <1>2, <1>12 DEF InviteResult, HandlerInv, InFlight, At, StepsOf, CallType, Steps, Unordered,
       Charging
  <2>2. result'[o] # "none"
    BY <1>2, <2>1, <1>12 DEF InviteResult, HandlerInv, At, Charging, TypeOK, redis
  <2>3. UNCHANGED <<orders, charged>>
    BY <1>12 DEF InviteResult, tables, gateway
  <2>4. Fit(r, "inviteCount", o, known, listed)
    BY <2>1, <2>2, <2>3 DEF Fit, StepsOf, Steps, Unordered, Charging, Refunding
  <2> QED  BY <1>4, <2>4, <1>12 DEF InviteResult, Status, Steps
<1>13. CASE InviteCount(r)
  <2>1. /\ Call(r).op = "invite" /\ o \in Orders /\ o \in charged /\ orders[o] = NoOrder
        /\ \A q \in Requests \ {r} : request[q].order # o
    BY <1>1, <1>2, <1>13 DEF InviteCount, HandlerInv, InFlight, At, StepsOf, CallType, Steps, Unordered,
       Charging
  <2>2. result'[o] # "none"
    BY <1>2, <2>1, <1>13 DEF InviteCount, HandlerInv, At, Charging, TypeOK, redis
  <2>3. UNCHANGED <<orders, charged>>
    BY <1>13 DEF InviteCount, tables, gateway
  <2>4. Fit(r, "inviteCommit", o, known, listed)
    BY <2>1, <2>2, <2>3 DEF Fit, StepsOf, Steps, Unordered, Charging, Refunding
  <2> QED  BY <1>4, <2>4, <1>13 DEF InviteCount, Status, Steps
<1>14. CASE InviteCommit(r)
  <2>1. Call(r).op = "invite" /\ o \in Orders
    BY <1>1, <1>2, <1>14 DEF InviteCommit, HandlerInv, InFlight, At, StepsOf, CallType, Steps,
       Unordered, Charging
  <2>2. orders'[o] # NoOrder
    <3>1. PICK ids \in SUBSET Ids : orders' = [orders EXCEPT ![o] = OrderFor(ids)]
      BY <1>14 DEF InviteCommit
    <3>2. OrderFor(ids) # NoOrder
      BY MembershipAssumption DEF OrderFor, OrderType
    <3> QED  BY <2>1, <3>1, <3>2 DEF TypeOK
  <2>3. Fit(r, "invitePlan", o, known, listed)
    BY <2>1, <2>2 DEF Fit, StepsOf, Steps, Unordered, Charging, Refunding
  <2> QED  BY <1>4, <2>3, <1>14 DEF InviteCommit, Status, Steps
<1>15. CASE InvitePlan(r)
  <2>a. request[r].step = "invitePlan"
    BY <1>15 DEF InvitePlan, At
  <2>b. Call(r).op = "invite"
    BY <1>1, <2>a DEF StepsOf, CallType
  <2>1. Call(r).op = "invite" /\ Placed(o)
    BY <1>p, <2>a, <2>b DEF Steps, Unordered, Charging
  <2>2. orders'[o] # NoOrder
    BY <1>6, <2>1 DEF Placed
  <2> QED
    BY <1>8, <2>1, <2>2, <1>15 DEF InvitePlan, StepsOf, Steps, Unordered, Charging
<1>16. CASE JoinFind(r)
  <2>a. request[r].step = "joinFind"
    BY <1>16 DEF JoinFind, At
  <2>1. Call(r).op = "join"
    BY <1>1, <2>a DEF StepsOf, CallType
  <2>2. PICK one \in People : Call(r).people = {one}
    BY <1>1, <2>1, MembershipAssumption
  <2>3. CASE Becomes(r, "joinCommit", NoOrder, {}, listed)
    <3>1. Fit(r, "joinCommit", NoOrder, {}, listed)
      BY <2>1 DEF Fit, StepsOf, Steps, Unordered, Charging, Refunding
    <3> QED  BY <1>1, <2>3, <3>1, Fitting
  <2>4. ASSUME NEW found, found = Call(r).people \cap invited, NEW p \in found,
               Becomes(r, "joinOrder", orderOf[p], found, listed)
        PROVE  HandlerInv(r)'
    <3>1. found = Call(r).people
      BY <2>2, <2>4
    <3>2. Placed(orderOf[p]) /\ UNCHANGED orders
      BY <1>16, <2>4 DEF OrdersInv, Placed, TypeOK, JoinFind, tables
    <3>3. Fit(r, "joinOrder", orderOf[p], found, listed)
      BY <2>1, <3>1, <3>2 DEF Fit, StepsOf, Steps, Unordered, Charging, Refunding, Placed
    <3> QED  BY <1>1, <2>4, <3>3, Fitting
  <2> QED  BY <1>16, <2>3, <2>4, JoinFindMoves
<1>17. CASE JoinOrder(r)
  <2>a. request[r].step = "joinOrder"
    BY <1>17 DEF JoinOrder, At
  <2>b. Call(r).op = "join"
    BY <1>1, <2>a DEF StepsOf, CallType
  <2>c. Call(r).op = "join" /\ Placed(o)
    BY <1>p, <2>a, <2>b DEF Steps, Unordered, Charging
  <2>1. /\ Call(r).op = "join" /\ Placed(o) /\ known = Call(r).people /\ UNCHANGED orders
    BY <1>2, <2>a, <2>c, <1>17 DEF JoinOrder, HandlerInv, tables, Call
  <2>2. Becomes(r, "joinComplete", o, known, orders[o].profileIds)
    BY <1>17, <2>1, JoinOrderMoves DEF Placed
  <2>3. Fit(r, "joinComplete", o, known, orders[o].profileIds)
    BY <2>1 DEF Fit, StepsOf, Steps, Unordered, Charging, Refunding, Placed
  <2> QED  BY <1>1, <2>2, <2>3, Fitting
<1>18. CASE JoinComplete(r)
  <2>a. request[r].step = "joinComplete"
    BY <1>18 DEF JoinComplete, At
  <2>b. Call(r).op = "join"
    BY <1>1, <2>a DEF StepsOf, CallType
  <2>c. Call(r).op = "join" /\ Placed(o)
    BY <1>p, <2>a, <2>b DEF Steps, Unordered, Charging
  <2>1. Call(r).op = "join" /\ Placed(o) /\ UNCHANGED orders
    BY <2>c, <1>18 DEF JoinComplete, tables
  <2>2. Fit(r, "joinCommit", o, known, listed)
    BY <2>1 DEF Fit, StepsOf, Steps, Unordered, Charging, Refunding, Placed
  <2> QED  BY <1>4, <2>2, <1>18 DEF JoinComplete, Status, Steps
<1>19. CASE RemoveFind(r)
  <2>1. Call(r).op = "remove" /\ o = NoOrder
    BY <1>1, <1>2, <1>19 DEF RemoveFind, HandlerInv, At, StepsOf, CallType, Unordered
  <2> QED
    BY <1>5, <1>9, <2>1, <1>19 DEF RemoveFind, StepsOf, Steps, Unordered
<1>20. CASE RemoveOrder(r)
  <2>1. Call(r).op = "remove" /\ UNCHANGED orders
    BY <1>1, <1>20 DEF RemoveOrder, At, StepsOf, CallType, tables
  <2>2. CASE Becomes(r, "failed", o, known, listed)
    BY <1>1, <2>2, FittingEnd
  <2>3. ASSUME NEW new \in Orders, orders[new] # NoOrder,
               Becomes(r, "removeTeam", new, known, listed)
        PROVE  HandlerInv(r)'
    <3>1. Fit(r, "removeTeam", new, known, listed)
      BY <2>1, <2>3 DEF Fit, StepsOf, Steps, Unordered, Charging, Refunding
    <3> QED  BY <1>1, <2>3, <3>1, Fitting
  <2> QED  BY <1>20, <2>2, <2>3, RemoveOrderMoves
<1>21. CASE RemoveTeam(r)
  <2>a. request[r].step = "removeTeam"
    BY <1>21 DEF RemoveTeam, At
  <2>b. Call(r).op = "remove"
    BY <1>1, <2>a DEF StepsOf, CallType
  <2>1. Call(r).op = "remove" /\ Placed(o)
    BY <1>p, <2>a, <2>b DEF Steps, Unordered, Charging
  <2>2. orders'[o] # NoOrder
    BY <1>6, <2>1 DEF Placed
  <2> QED
    BY <1>5, <1>8, <2>1, <2>2, <1>21 DEF RemoveTeam, StepsOf, Steps, Unordered, Charging
<1>22. CASE RemoveOwner(r)
  <2>a. request[r].step = "removeOwner"
    BY <1>22 DEF RemoveOwner, At
  <2>b. Call(r).op = "remove"
    BY <1>1, <2>a DEF StepsOf, CallType
  <2>1. Call(r).op = "remove" /\ Placed(o)
    BY <1>p, <2>a, <2>b DEF Steps, Unordered, Charging
  <2>2. orders'[o] # NoOrder
    BY <1>6, <2>1 DEF Placed
  <2> QED
    BY <1>5, <1>8, <2>1, <2>2, <1>22 DEF RemoveOwner, StepsOf, Steps, Unordered, Charging
<1>23. CASE RemoveCommit(r)
  <2>a. request[r].step = "removeCommit"
    BY <1>23 DEF RemoveCommit, At
  <2>b. Call(r).op = "remove"
    BY <1>1, <2>a DEF StepsOf, CallType
  <2>1. Call(r).op = "remove" /\ Placed(o)
    BY <1>p, <2>a, <2>b DEF Steps, Unordered, Charging
  <2>2. orders'[o] # NoOrder
    BY <1>6, <2>1 DEF Placed
  <2> QED
    BY <1>5, <1>8, <2>1, <2>2, <1>23 DEF RemoveCommit, StepsOf, Steps, Unordered, Charging
<1>24. CASE RefundRead(r)
  <2>1. /\ Call(r).op \in {"remove", "close"} /\ Placed(o)
        /\ Op(r, "close") <=> Call(r).op = "close"
        /\ Call(r).op = "close" => o = TeamOrder
    BY <1>1, <1>2, <1>7, MembershipAssumption, <1>24 DEF RefundRead, HandlerInv, InFlight, At, StepsOf, CallType,
       Steps, Unordered, Charging, Refunding, Placed, Op
  <2>2. orders'[o] # NoOrder
    BY <1>6, <2>1 DEF Placed
  <2>3. ASSUME Call(r).op = "close", Goes(r, "closeCommit") PROVE HandlerInv(r)'
    <3>1. Fit(r, "closeCommit", o, known, listed)
      BY <2>1, <2>2, <2>3 DEF Fit, StepsOf, Steps, Unordered, Charging, Refunding, Placed
    <3> QED  BY <1>4, <2>3, <3>1 DEF Status, Steps
  <2>4. PICK s \in {"refundCall", "refundSave", "closeCommit", "removeOwner", "failed"} :
           /\ Goes(r, s)
           /\ s = "closeCommit" => Call(r).op = "close"
           /\ s = "removeOwner" => Call(r).op = "remove"
    BY <2>1, <1>24 DEF RefundRead, AfterRefund, Op
  <2>5. CASE s \in {"refundCall", "refundSave", "removeOwner"}
    BY <1>8, <2>1, <2>2, <2>4, <2>5 DEF StepsOf, Steps, Unordered, Charging
  <2> QED  BY <1>5, <2>3, <2>4, <2>5
<1>25. CASE RefundCall(r)
  <2>1. /\ Call(r).op \in {"remove", "close"} /\ Placed(o)
        /\ Op(r, "close") <=> Call(r).op = "close"
        /\ Call(r).op = "close" => o = TeamOrder
    BY <1>1, <1>2, <1>7, MembershipAssumption, <1>25 DEF RefundCall, HandlerInv, InFlight, At, StepsOf, CallType,
       Steps, Unordered, Charging, Refunding, Placed, Op
  <2>2. orders'[o] # NoOrder
    BY <1>6, <2>1 DEF Placed
  <2>3. ASSUME Call(r).op = "close", Goes(r, "closeCommit") PROVE HandlerInv(r)'
    <3>1. Fit(r, "closeCommit", o, known, listed)
      BY <2>1, <2>2, <2>3 DEF Fit, StepsOf, Steps, Unordered, Charging, Refunding, Placed
    <3> QED  BY <1>4, <2>3, <3>1 DEF Status, Steps
  <2>4. PICK s \in {"refundCall", "refundSave", "closeCommit", "removeOwner", "failed"} :
           /\ Goes(r, s)
           /\ s = "closeCommit" => Call(r).op = "close"
           /\ s = "removeOwner" => Call(r).op = "remove"
    BY <2>1, <1>25 DEF RefundCall, AfterRefund
  <2>5. CASE s \in {"refundCall", "refundSave", "removeOwner"}
    BY <1>8, <2>1, <2>2, <2>4, <2>5 DEF StepsOf, Steps, Unordered, Charging
  <2> QED  BY <1>5, <2>3, <2>4, <2>5
<1>26. CASE RefundSave(r)
  <2>1. /\ Call(r).op \in {"remove", "close"} /\ Placed(o)
        /\ Op(r, "close") <=> Call(r).op = "close"
        /\ Call(r).op = "close" => o = TeamOrder
    BY <1>1, <1>2, <1>7, MembershipAssumption, <1>26 DEF RefundSave, HandlerInv, InFlight, At, StepsOf, CallType,
       Steps, Unordered, Charging, Refunding, Placed, Op
  <2>2. orders'[o] # NoOrder
    BY <1>6, <2>1 DEF Placed
  <2>3. ASSUME Call(r).op = "close", Goes(r, "closeCommit") PROVE HandlerInv(r)'
    <3>1. Fit(r, "closeCommit", o, known, listed)
      BY <2>1, <2>2, <2>3 DEF Fit, StepsOf, Steps, Unordered, Charging, Refunding, Placed
    <3> QED  BY <1>4, <2>3, <3>1 DEF Status, Steps
  <2>4. PICK s \in {"refundCall", "refundSave", "closeCommit", "removeOwner", "failed"} :
           /\ Goes(r, s)
           /\ s = "closeCommit" => Call(r).op = "close"
           /\ s = "removeOwner" => Call(r).op = "remove"
    BY <2>1, <1>26 DEF RefundSave, AfterRefund
  <2>5. CASE s \in {"refundCall", "refundSave", "removeOwner"}
    BY <1>8, <2>1, <2>2, <2>4, <2>5 DEF StepsOf, Steps, Unordered, Charging
  <2> QED  BY <1>5, <2>3, <2>4, <2>5
<1>27. CASE WithdrawDelete(r)
  <2>1. Call(r).op = "withdraw" /\ o = NoOrder
    BY <1>1, <1>2, <1>27 DEF WithdrawDelete, HandlerInv, At, StepsOf, CallType, Unordered
  <2> QED  BY <1>9, <2>1, <1>27 DEF WithdrawDelete, StepsOf, Steps, Unordered
<1>28. CASE RolesCheck(r)
  <2>1. Call(r).op = "roles" /\ o = NoOrder
    BY <1>1, <1>2, <1>28 DEF RolesCheck, HandlerInv, At, StepsOf, CallType, Unordered
  <2>2. Goes(r, "rolesCommit") \/ Goes(r, "refused")
    BY <1>28 DEF RolesCheck
  <2> QED  BY <1>5, <1>9, <2>1, <2>2 DEF StepsOf, Steps, Unordered
<1>29. CASE CloseProfiles(r)
  <2>1. Call(r).op = "close" /\ o = NoOrder
    BY <1>1, <1>2, <1>29 DEF CloseProfiles, HandlerInv, At, StepsOf, CallType, Unordered
  <2> QED  BY <1>5, <1>9, <2>1, <1>29 DEF CloseProfiles, StepsOf, Steps, Unordered
<1>30. CASE CloseInvitations(r)
  <2>1. Call(r).op = "close" /\ o = NoOrder
    BY <1>1, <1>2, <1>30 DEF CloseInvitations, HandlerInv, At, StepsOf, CallType, Unordered
  <2> QED  BY <1>5, <1>9, <2>1, <1>30 DEF CloseInvitations, StepsOf, Steps, Unordered
<1>31. CASE CloseOrder(r)
  <2>1. Call(r).op = "close" /\ UNCHANGED orders
    BY <1>1, <1>31 DEF CloseOrder, At, StepsOf, CallType, tables
  <2>2. CASE TeamOrder = NoOrder /\ Becomes(r, "closeCommit", NoOrder, known, listed)
    <3>1. Fit(r, "closeCommit", NoOrder, known, listed)
      BY <2>1, <2>2 DEF Fit, StepsOf, Steps, Unordered, Charging, Refunding
    <3> QED  BY <1>1, <2>2, <3>1, Fitting
  <2>3. CASE TeamOrder \in Orders /\ Becomes(r, "refundRead", TeamOrder, known, listed)
    <3>1. orders[TeamOrder] # NoOrder
      BY <2>3, MembershipAssumption DEF OrdersInv
    <3>2. Fit(r, "refundRead", TeamOrder, known, listed)
      BY <2>1, <2>3, <3>1 DEF Fit, StepsOf, Steps, Unordered, Charging, Refunding
    <3> QED  BY <1>1, <2>3, <3>2, Fitting
  <2>4. CASE Becomes(r, "failed", TeamOrder, known, listed)
    BY <1>1, <2>4, FittingEnd
  <2> QED  BY <1>31, <2>2, <2>3, <2>4, CloseOrderMoves
<1>32. CASE \/ InviteSet(r) \/ JoinCommit(r) \/ Accept(r) \/ RemoveCount(r)
            \/ WithdrawCount(r) \/ RolesCommit(r) \/ CloseCommit(r)
  BY <1>5, <1>32 DEF InviteSet, JoinCommit, Accept, RemoveCount, WithdrawCount, RolesCommit, CloseCommit
<1> QED
  BY <1>10, <1>11, <1>12, <1>13, <1>14, <1>15, <1>16, <1>17, <1>18, <1>19, <1>20, <1>21,
     <1>22, <1>23, <1>24, <1>25, <1>26, <1>27, <1>28, <1>29, <1>30, <1>31, <1>32 DEF Serve

(* ... and that of every other: what it has charged stays its own.          *)
LEMMA Others ==
  ASSUME TypeOK, HandlersInv, OrdersInv, NEW r \in Requests, Serve(r), NEW q \in Requests \ {r}
  PROVE  HandlerInv(q)'
<1> DEFINE o == request[q].order
<1>1. request'[q] = request[q] /\ request[q] \in RequestType
  BY Moving DEF TypeOK
<1>2. HandlerInv(q) /\ HandlerInv(r) /\ Grows(r) /\ request[r] \in RequestType
  BY Growing DEF HandlersInv, TypeOK
<1>3. o \in Orders => (orders[o] # NoOrder => orders'[o] # NoOrder)
                      /\ (result[o] # "none" => result'[o] # "none")
  BY <1>2 DEF Grows, Placed
<1>4. o \in Orders \cup {NoOrder}
  BY <1>1 DEF RequestType
<1>5. ASSUME request[q].step \in Charging
      PROVE  /\ o \in charged' /\ orders'[o] = NoOrder
             /\ \A p \in Requests \ {q} : request'[p].order # o
  <2>1. /\ o \in charged /\ orders[o] = NoOrder
        /\ \A p \in Requests \ {q} : request[p].order # o
    BY <1>2, <1>5 DEF HandlerInv
  <2>2. o \in Orders /\ o # NoOrder /\ ~ Placed(o)
    BY <2>1, MembershipAssumption DEF TypeOK, Placed
  <2>3. o \in charged' /\ orders'[o] = NoOrder
    BY <1>2, <2>1, <2>2 DEF Grows
  <2>4. request'[r].order # o
    BY <1>2, <2>1, <2>2 DEF Grows, Free
  <2>5. \A p \in Requests \ {q} : p # r => request'[p] = request[p]
    BY Moving
  <2> QED  BY <2>1, <2>3, <2>4, <2>5
<1>6. request[q].step \in Charging => o \in Orders
  <2> QED  BY <1>2 DEF HandlerInv, TypeOK
<1>7. ASSUME q \in InFlight, request[q].step \notin Charging, o # NoOrder PROVE orders'[o] # NoOrder
  BY <1>2, <1>3, <1>4, <1>7 DEF HandlerInv
<1>8. request[q].step \in Charging \ {"inviteResult"} => result'[o] # "none"
  BY <1>2, <1>3, <1>6 DEF HandlerInv
<1> QED
  BY <1>1, <1>2, <1>5, <1>7, <1>8 DEF HandlerInv, At, Op, Call, InFlight

(* A request that comes in, and one that fails.                             *)
LEMMA Arriving ==
  ASSUME TypeOK, HandlersInv, NEW r \in Requests, Receive(r)
  PROVE  /\ request' \in [Requests -> RequestType]
         /\ \E c \in Calls :
               /\ request'[r].call = c /\ request'[r].step = First[c.op]
               /\ c.op = "join" => /\ c.people \cap users = {}
                                   /\ \A q \in Requests : Op(q, "join") =>
                                         Call(q).people # c.people \/ At(q, "failed")
         /\ Call(r) = NoCall
         /\ request[r].step = "idle" /\ request[r].order = NoOrder
         /\ request'[r].step \in Steps \cap Unordered
         /\ request'[r].order = request[r].order /\ request'[r].known = request[r].known
         /\ request'[r].listed = request[r].listed
         /\ \A q \in Requests \ {r} : request'[q] = request[q]
         /\ \A q \in Requests : HandlerInv(q)'
         /\ UNCHANGED <<tables, redis, gateway, issued>>
<1>1. PICK c \in Calls :
        /\ request' = [request EXCEPT ![r].step = First[c.op], ![r].call = c]
        /\ c.op = "join" => /\ c.people \cap users = {}
                            /\ \A q \in Requests : Op(q, "join") =>
                                  Call(q).people # c.people \/ At(q, "failed")
  BY DEF Receive
<1>2. /\ request' \in [Requests -> RequestType]
      /\ request'[r].step = First[c.op] /\ request'[r].call = c
      /\ request'[r].order = request[r].order
      /\ request'[r].known = request[r].known
      /\ request'[r].listed = request[r].listed
      /\ First[c.op] \in Steps \cap Unordered /\ First[c.op] \in StepsOf[c.op]
      /\ First[c.op] \notin Charging \cup Refunding \cup
            {"joinOrder", "joinComplete", "joinCommit", "closeCommit", "idle"}
      /\ \A q \in Requests \ {r} : request'[q] = request[q]
  BY <1>1, Coming
<1>3. UNCHANGED <<tables, redis, gateway, issued>>
  BY DEF Receive
<1>4. request[r].step = "idle" /\ Call(r) = NoCall /\ request[r].order = NoOrder
  BY DEF HandlersInv, HandlerInv, Receive, At, Unordered, Call
<1>5. HandlerInv(r)'
  <2>1. request'[r].step \notin Charging /\ request'[r].order = NoOrder
    BY <1>2, <1>4
  <2> QED  BY <1>2, <2>1 DEF HandlerInv, At, Op, Call, InFlight
<1>6. ASSUME NEW q \in Requests \ {r} PROVE HandlerInv(q)'
  <2>1. HandlerInv(q) /\ request'[q] = request[q]
    BY <1>2 DEF HandlersInv
  <2>2. UNCHANGED <<orders, charged, result>>
    BY <1>3 DEF tables, redis, gateway
  <2>3. \A p \in Requests : request'[p].order = request[p].order
    BY <1>2
  <2> QED  BY <2>1, <2>2, <2>3 DEF HandlerInv, At, Op, Call, InFlight
<1>7. request'[r].step \in Steps \cap Unordered
  BY <1>2
<1> QED  BY <1>1, <1>2, <1>3, <1>4, <1>5, <1>6, <1>7

LEMMA Failing ==
  ASSUME TypeOK, HandlersInv, NEW r \in Requests, Fail(r)
  PROVE  /\ Becomes(r, "failed", request[r].order, request[r].known, request[r].listed)
         /\ request[r].step \in Steps
         /\ \A q \in Requests : HandlerInv(q)'
         /\ UNCHANGED <<tables, redis, gateway, issued>>
<1>1. Becomes(r, "failed", request[r].order, request[r].known, request[r].listed)
  BY Going DEF Fail, Status
<1>2. request[r].step \in Steps /\ Call(r) \in Calls
  BY Serving DEF Fail, InFlight
<1>3. UNCHANGED <<tables, redis, gateway, issued>>
  BY DEF Fail
<1>4. HandlerInv(r)'
  BY <1>1, <1>2, FittingEnd
<1>5. ASSUME NEW q \in Requests \ {r} PROVE HandlerInv(q)'
  <2>1. HandlerInv(q) /\ request'[q] = request[q]
    BY <1>1 DEF HandlersInv, Becomes
  <2>2. UNCHANGED <<orders, charged, result>>
    BY <1>3 DEF tables, redis, gateway
  <2>3. \A p \in Requests : request'[p].order = request[p].order
    BY <1>1 DEF Becomes
  <2> QED  BY <2>1, <2>2, <2>3 DEF HandlerInv, At, Op, Call, InFlight
<1> QED  BY <1>1, <1>2, <1>3, <1>4, <1>5

LEMMA OrdersServe ==
  ASSUME TypeOK, HandlersInv, OrdersInv, NEW r \in Requests, Serve(r)
  PROVE  OrdersInv'
<1>1. TypeOK' /\ Grows(r) /\ HandlerInv(r) /\ request[r] \in RequestType
  BY TypeServe, Growing DEF HandlersInv, TypeOK
<1>2. TeamOrder # NoOrder => orders'[TeamOrder] # NoOrder
  BY <1>1, MembershipAssumption DEF OrdersInv, Grows, Placed
<1>3. At(r, "inviteSet") => Placed(request[r].order)
  <2>1. ASSUME At(r, "inviteSet") PROVE request[r].order \in Orders /\ request[r].order # NoOrder
    BY <1>1, <2>1, MembershipAssumption DEF HandlerInv, At, InFlight, Steps, Unordered
  <2> QED  BY <1>1, <2>1 DEF HandlerInv, At, InFlight, Steps, Charging, Placed
<1>4. ASSUME NEW p \in People, orderOf'[p] # NoOrder PROVE orders'[orderOf'[p]] # NoOrder
  <2>1. Placed(orderOf'[p])
    BY <1>1, <1>3, <1>4 DEF Grows, OrdersInv, TypeOK, Placed
  <2> QED  BY <1>1, <2>1 DEF Grows, Placed
<1>5. ASSUME NEW p \in invited' PROVE orderOf'[p] # NoOrder
  <2>1. p \in People
    BY <1>1 DEF TypeOK
  <2>2. CASE p \in invited
    BY <1>1, <1>3, <2>1, <2>2, MembershipAssumption DEF Grows, OrdersInv, Placed
  <2>3. CASE p \notin invited /\ orderOf'[p] = request[r].order
    <3>1. At(r, "inviteSet")
      BY <2>3 DEF Serve, InviteFind, InviteCharge, InviteResult, InviteCount, InviteCommit,
         InvitePlan, InviteSet, JoinFind, JoinOrder, JoinComplete, JoinCommit, Accept, RemoveFind,
         RemoveOrder, RemoveTeam, RemoveOwner, RemoveCommit, RemoveCount, RefundRead, RefundCall,
         RefundSave, WithdrawDelete, WithdrawCount, RolesCheck, RolesCommit, CloseProfiles,
         CloseInvitations, CloseOrder, CloseCommit, redis
    <3> QED  BY <1>3, <2>3, <3>1, MembershipAssumption DEF Placed
  <2> QED  BY <1>1, <2>2, <2>3 DEF Grows
<1> QED  BY <1>2, <1>4, <1>5 DEF OrdersInv

(* Types, handlers and orders hold together.                                *)
CoreInv == TypeOK /\ HandlersInv /\ OrdersInv

LEMMA CoreInit == Init => CoreInv
<1> SUFFICES ASSUME Init PROVE CoreInv
  OBVIOUS
<1>1. TypeOK
  BY TypeInit
<1>2. HandlersInv
  BY MembershipAssumption DEF Init, HandlersInv, HandlerInv, At, Op, Call, InFlight, Steps, Unordered, Charging,
     Refunding
<1>3. PICK s \in Starts :
        /\ orders = s.orders /\ invited = s.invited
        /\ orderOf = [p \in People |-> IF p \in s.invited THEN s.invitedWith ELSE NoOrder]
  BY DEF Init
<1>4. /\ TeamOrder \in Orders => orders[TeamOrder] = [profileIds |-> {}]
      /\ invited # {} => orders[s.invitedWith] # NoOrder
      /\ s.invitedWith \in Orders /\ invited \subseteq People
  BY <1>3, MembershipAssumption DEF StartType
<1>5. [profileIds |-> {}] # NoOrder
  BY MembershipAssumption DEF OrderType
<1>6. OrdersInv
  BY <1>3, <1>4, <1>5, MembershipAssumption DEF OrdersInv
<1> QED  BY <1>1, <1>2, <1>6 DEF CoreInv

LEMMA CoreStep == CoreInv /\ [Next]_vars => CoreInv'
<1> SUFFICES ASSUME CoreInv, [Next]_vars PROVE CoreInv'
  OBVIOUS
<1> USE DEF CoreInv
<1>1. ASSUME NEW r \in Requests, Receive(r) PROVE CoreInv'
  <2>1. request' \in [Requests -> RequestType] /\ UNCHANGED <<tables, redis, gateway, issued>>
    BY <1>1, Arriving
  <2>2. orderly' \in BOOLEAN
    BY <1>1 DEF Receive, TypeOK
  <2>3. TypeOK'
    BY <2>1, <2>2 DEF TypeOK, tables, redis, gateway
  <2>4. HandlersInv'
    BY <1>1, Arriving DEF HandlersInv
  <2>5. OrdersInv'
    BY <2>1 DEF OrdersInv, tables, redis, gateway
  <2> QED  BY <2>3, <2>4, <2>5
<1>2. ASSUME NEW r \in Requests, Serve(r) PROVE CoreInv'
  <2>1. \A q \in Requests : HandlerInv(q)'
    BY <1>2, Own, Others
  <2> QED  BY <1>2, <2>1, TypeServe, OrdersServe DEF HandlersInv
<1>3. ASSUME NEW r \in Requests, Fail(r) PROVE CoreInv'
  <2>1. request' \in [Requests -> RequestType] /\ UNCHANGED <<tables, redis, gateway, issued>>
    BY <1>3, Failing DEF Becomes
  <2>2. orderly' \in BOOLEAN
    BY <1>3 DEF Fail
  <2>3. TypeOK'
    BY <2>1, <2>2 DEF TypeOK, tables, redis, gateway
  <2>4. HandlersInv'
    BY <1>3, Failing DEF HandlersInv
  <2>5. OrdersInv'
    BY <2>1 DEF OrdersInv, tables, redis, gateway
  <2> QED  BY <2>3, <2>4, <2>5
<1>4. CASE UNCHANGED vars
  <2>1. TypeOK' /\ OrdersInv'
    BY <1>4 DEF vars, tables, redis, gateway, TypeOK, OrdersInv
  <2>2. \A r \in Requests : HandlerInv(r)'
    BY <1>4 DEF vars, tables, redis, gateway, HandlersInv, HandlerInv, At, Op, Call, InFlight
  <2> QED  BY <2>1, <2>2 DEF HandlersInv
<1> QED  BY <1>1, <1>2, <1>3, <1>4 DEF Next

LEMMA CoreCorrect == Spec => []CoreInv
  BY CoreInit, CoreStep, PTL DEF Spec

(* Whatever overlaps or fails half way, every store holds values of its     *)
(* type: the ids and roles of the rows, the orders and the tokens.          *)
THEOREM TypeCorrect == Spec => []TypeOK
  BY CoreCorrect, PTL DEF CoreInv

(* A handler goes on with an order of the database, and one that it has     *)
(* made and not yet saved is no one else's.                                 *)
THEOREM HandlersCorrect == Spec => []HandlersInv
  BY CoreCorrect, PTL DEF CoreInv

-----------------------------------------------------------------------------
(* Money.  An order that only its invitation knows is charged and gets into *)
(* the database with its answer, or the invitation has failed; a handler    *)
(* whose refund went through goes on to book it.                            *)
Booking == {"refundSave", "closeCommit", "removeOwner", "removeCommit", "failed"}

LEMMA MoneyInit == Init => ChargesAccounted /\ RefundsInv
<1> SUFFICES ASSUME Init PROVE ChargesAccounted /\ RefundsInv
  OBVIOUS
<1>1. PICK s \in Starts :
        /\ orders = s.orders
        /\ result = [o \in Orders |->
              IF o \in {q \in Orders : s.orders[q] # NoOrder} THEN "paid" ELSE "none"]
        /\ charged = {q \in Orders : s.orders[q] # NoOrder}
  BY DEF Init
<1> QED  BY <1>1 DEF Init, ChargesAccounted, RefundsInv

LEMMA ChargesStep ==
  ASSUME CoreInv, ChargesAccounted, NEW r \in Requests, Serve(r)
  PROVE  ChargesAccounted'
<1>1. /\ TypeOK /\ TypeOK' /\ HandlerInv(r) /\ Grows(r) /\ request[r] \in RequestType
      /\ HandlerInv(r)' /\ request[r].step \in Steps /\ CoreInv'
  <2>1. CoreInv'
    BY CoreStep DEF Next
  <2> QED  BY <2>1, Growing, Moving DEF CoreInv, HandlersInv, TypeOK
<1>2. ASSUME NEW o \in Orders, orders'[o] # NoOrder
      PROVE  o \in charged' /\ result'[o] # "none"
  <2>1. CASE Placed(o)
    BY <1>1, <2>1 DEF ChargesAccounted, Grows, Placed
  <2>2. CASE At(r, "inviteCommit") /\ o = request[r].order
    <3>1. o \in charged /\ result[o] # "none"
      BY <1>1, <2>2 DEF HandlerInv, At, Charging
    <3> QED  BY <1>1, <3>1 DEF Grows
  <2> QED  BY <1>1, <1>2, <2>1, <2>2 DEF Grows
<1>3. ASSUME NEW o \in charged', orders'[o] = NoOrder
      PROVE  \E q \in Requests : request'[q].order = o /\ ~ At(q, "done")'
  <2>1. o \in Orders /\ orders[o] = NoOrder
    BY <1>1, <1>3 DEF TypeOK, Grows, Placed
  <2>2. CASE o \notin charged
    <3>1. InviteCharge(r)
      BY <1>3, <2>2 DEF Serve, InviteFind, InviteCharge, InviteResult, InviteCount, InviteCommit,
         InvitePlan, InviteSet, JoinFind, JoinOrder, JoinComplete, JoinCommit, Accept, RemoveFind,
         RemoveOrder, RemoveTeam, RemoveOwner, RemoveCommit, RemoveCount, RefundRead, RefundCall,
         RefundSave, WithdrawDelete, WithdrawCount, RolesCheck, RolesCommit, CloseProfiles,
         CloseInvitations, CloseOrder, CloseCommit, gateway
    <3>2. request'[r].order = o /\ request'[r].step = "inviteResult"
      BY <1>1, <1>3, <2>2, <3>1, InviteChargeMoves DEF Becomes
    <3> QED  BY <3>2 DEF At
  <2>3. CASE o \in charged
    <3>1. PICK q \in Requests : request[q].order = o /\ ~ At(q, "done")
      BY <2>1, <2>3 DEF ChargesAccounted
    <3>2. CASE q # r
      BY <1>1, <3>1, <3>2, Moving DEF At
    <3>3. CASE q = r
      <4>1. o # NoOrder
        BY <2>1, MembershipAssumption
      <4>2. request[r].step \in Charging
        BY <1>1, <2>1, <3>1, <3>3, <4>1 DEF HandlerInv, InFlight
      <4>3. Call(r).op = "invite"
        <5>1. Call(r) \in CallType /\ request[r].step \in StepsOf[Call(r).op]
          BY <1>1, Serving DEF CoreInv
        <5> QED  BY <4>2, <5>1 DEF Charging, StepsOf, CallType
      <4>4. InviteResult(r) \/ InviteCount(r) \/ InviteCommit(r)
        BY <4>2 DEF Charging, Serve, InviteFind, InviteCharge,
         InvitePlan, InviteSet, JoinFind, JoinOrder, JoinComplete, JoinCommit, Accept, RemoveFind,
         RemoveOrder, RemoveTeam, RemoveOwner, RemoveCommit, RemoveCount, RefundRead, RefundCall,
         RefundSave, WithdrawDelete, WithdrawCount, RolesCheck, RolesCommit, CloseProfiles,
         CloseInvitations, CloseOrder, CloseCommit, At
      <4>5. PICK s \in {"inviteCount", "inviteCommit", "invitePlan"} : Goes(r, s)
        BY <4>4 DEF InviteResult, InviteCount, InviteCommit
      <4>6. request'[r].order = o /\ request'[r].step = s
        BY <1>1, <3>1, <3>3, <4>5, Going DEF Becomes, Status, Steps
      <4> QED  BY <4>6 DEF At
    <3> QED  BY <3>2, <3>3
  <2> QED  BY <2>2, <2>3
<1>4. ASSUME NEW o \in charged' PROVE o \in Orders
  BY <1>1, <1>4 DEF TypeOK
<1> QED  BY <1>2, <1>3, <1>4 DEF ChargesAccounted

LEMMA RefundsStep ==
  ASSUME CoreInv, RefundsInv, NEW r \in Requests, Serve(r)
  PROVE  RefundsInv'
<1>1. /\ TypeOK /\ TypeOK' /\ HandlerInv(r) /\ Grows(r) /\ request[r] \in RequestType
      /\ request[r].step \in Steps /\ CoreInv'
  <2>1. CoreInv'
    BY CoreStep DEF Next
  <2> QED  BY <2>1, Growing, Moving DEF CoreInv, HandlersInv, TypeOK
<1> SUFFICES ASSUME NEW o \in refunded', ~ (returned'[o] > 0)
             PROVE  \E q \in Requests : request'[q].order = o /\ request'[q].step \in Booking
  BY DEF RefundsInv, Booking
<1>2. o \in Orders
  BY <1>1 DEF TypeOK
<1>3. ~ (returned[o] > 0)
  BY <1>1, <1>2 DEF Grows, TypeOK
<1>4. CASE o \notin refunded
  <2>1. RefundCall(r) /\ o = request[r].order /\ Goes(r, "refundSave")
    BY <1>4 DEF Serve, InviteFind, InviteCharge, InviteResult, InviteCount, InviteCommit,
       InvitePlan, InviteSet, JoinFind, JoinOrder, JoinComplete, JoinCommit, Accept, RemoveFind,
       RemoveOrder, RemoveTeam, RemoveOwner, RemoveCommit, RemoveCount, RefundRead, RefundCall,
       RefundSave, WithdrawDelete, WithdrawCount, RolesCheck, RolesCommit, CloseProfiles,
       CloseInvitations, CloseOrder, CloseCommit, gateway
  <2>2. request'[r].order = o /\ request'[r].step = "refundSave"
    BY <1>1, <2>1, Going DEF Becomes, Status, Steps
  <2> QED  BY <2>2 DEF Booking
<1>5. CASE o \in refunded
  <2>1. PICK q \in Requests : request[q].order = o /\ request[q].step \in Booking
    BY <1>3, <1>5 DEF RefundsInv, Booking
  <2>2. CASE q # r
    <3>1. request'[q] = request[q]
      BY <1>1, <2>2, Moving
    <3> QED  BY <2>1, <3>1
  <2>3. CASE q = r
    <3>1. CASE RefundSave(r)
      <4>1. PICK s \in {"closeCommit", "removeOwner"} : Goes(r, s)
        BY <3>1 DEF RefundSave, AfterRefund
      <4>2. request'[r].order = o /\ request'[r].step = s
        BY <1>1, <2>1, <2>3, <4>1, Going DEF Becomes, Status, Steps
      <4> QED  BY <4>2 DEF Booking
    <3>2. CASE RemoveOwner(r)
      <4>1. PICK s \in {"failed", "removeCommit"} : Goes(r, s)
        BY <3>2 DEF RemoveOwner
      <4>2. request'[r].order = o /\ request'[r].step = s
        BY <1>1, <2>1, <2>3, <4>1, Going DEF Becomes, Status, Steps
      <4> QED  BY <4>2 DEF Booking
    <3>3. CASE RemoveCommit(r)
      <4>1. returned'[o] = returned[o] + 1
        BY <1>1, <1>2, <2>1, <2>3, <3>3 DEF RemoveCommit, Returned, TypeOK
      <4>2. returned[o] \in Nat
        BY <1>1, <1>2 DEF TypeOK
      <4> QED  BY <4>1, <4>2
    <3>4. CASE CloseCommit(r)
      <4>1. o = TeamOrder
        <5>1. request[r].step = "closeCommit"
          BY <3>4 DEF CloseCommit, At
        <5>2. Call(r) # NoCall /\ Call(r).op = "close"
          BY <1>1, <5>1, Serving DEF CoreInv, StepsOf, CallType
        <5> QED  BY <1>1, <2>1, <2>3, <5>1, <5>2 DEF HandlerInv, Op
      <4>2. TeamOrder # NoOrder
        BY <1>2, <4>1, MembershipAssumption
      <4>3. CASE closed
        <5>1. Goes(r, "failed")
          BY <3>4, <4>2, <4>3 DEF CloseCommit
        <5>2. request'[r].order = o /\ request'[r].step = "failed"
          BY <1>1, <2>1, <2>3, <5>1, Going DEF Becomes, Status
        <5> QED  BY <5>2 DEF Booking
      <4>4. CASE ~ closed
        <5>1. returned'[o] = returned[o] + 1
          BY <1>1, <1>2, <3>4, <4>1, <4>2, <4>4 DEF CloseCommit, Returned, TypeOK
        <5>2. returned[o] \in Nat
          BY <1>1, <1>2 DEF TypeOK
        <5> QED  BY <5>1, <5>2
      <4> QED  BY <4>3, <4>4
    <3>5. RefundSave(r) \/ RemoveOwner(r) \/ RemoveCommit(r) \/ CloseCommit(r)
      BY <1>1, <2>1, <2>3 DEF Booking, Steps, Serve, InviteFind, InviteCharge, InviteResult,
         InviteCount, InviteCommit,
         InvitePlan, InviteSet, JoinFind, JoinOrder, JoinComplete, JoinCommit, Accept, RemoveFind,
         RemoveOrder, RemoveTeam, RemoveCount, RefundRead, RefundCall,
         WithdrawDelete, WithdrawCount, RolesCheck, RolesCommit, CloseProfiles,
         CloseInvitations, CloseOrder, At
    <3> QED  BY <3>1, <3>2, <3>3, <3>4, <3>5
  <2> QED  BY <2>2, <2>3
<1> QED  BY <1>4, <1>5

LEMMA MoneyStep == CoreInv /\ ChargesAccounted /\ RefundsInv /\ [Next]_vars
                   => (ChargesAccounted /\ RefundsInv)'
<1> SUFFICES ASSUME CoreInv, ChargesAccounted, RefundsInv, [Next]_vars
             PROVE  ChargesAccounted' /\ RefundsInv'
  OBVIOUS
<1>1. ASSUME NEW r \in Requests, Receive(r) \/ Fail(r)
      PROVE  ChargesAccounted' /\ RefundsInv'
  <2>1. /\ UNCHANGED <<tables, redis, gateway>>
        /\ \A q \in Requests : request'[q].order = request[q].order
        /\ \A q \in Requests \ {r} : request'[q].step = request[q].step
        /\ request'[r].step = "failed"
           \/ (request'[r].step \in Steps /\ request[r].order = NoOrder)
    BY <1>1, Arriving, Failing DEF CoreInv, Becomes
  <2>2. \A o \in charged \cup refunded : o # NoOrder
    BY MembershipAssumption DEF CoreInv, TypeOK
  <2>3. ChargesAccounted'
    <3>1. ASSUME NEW o \in charged, NEW q \in Requests, request[q].order = o, ~ At(q, "done")
          PROVE  request'[q].order = o /\ ~ At(q, "done")'
      BY <2>1, <2>2, <3>1 DEF At
    <3> QED  BY <2>1, <3>1 DEF ChargesAccounted, tables, redis, gateway
  <2>4. RefundsInv'
    <3>1. ASSUME NEW o \in refunded, NEW q \in Requests, request[q].order = o,
                 request[q].step \in Booking
          PROVE  request'[q].order = o /\ request'[q].step \in Booking
      BY <2>1, <2>2, <3>1 DEF Booking
    <3> QED  BY <2>1, <3>1 DEF RefundsInv, Booking, tables, redis, gateway
  <2> QED  BY <2>3, <2>4
<1>2. CASE UNCHANGED vars
  BY <1>2 DEF vars, tables, redis, gateway, ChargesAccounted, RefundsInv, At
<1> QED  BY <1>1, <1>2, ChargesStep, RefundsStep DEF Next

(* Charges, orders and refunds agree between the gateway and the database   *)
(* although the card is charged inside a transaction that may roll back and *)
(* a refund comes before the transaction that books it: what differs is     *)
(* that of a request under way or of one that failed.                       *)
THEOREM MoneyCorrect == Spec => []MoneyAccounted
<1>1. Spec => [](ChargesAccounted /\ RefundsInv)
  BY MoneyInit, MoneyStep, CoreCorrect, PTL DEF Spec
<1>2. RefundsInv => RefundsBooked
  BY DEF RefundsInv, RefundsBooked, At
<1>3. ChargesAccounted /\ RefundsInv => MoneyAccounted
  BY <1>2 DEF MoneyAccounted
<1> QED  BY <1>1, <1>3, PTL

-----------------------------------------------------------------------------
(* Seats.  Who is seated stays so: the invitation that a sign up uses up    *)
(* becomes a profile or the sign up fails.                                  *)
LEMMA InvitedTaken ==
  ASSUME NEW r \in Requests, Serve(r)
  PROVE  UNCHANGED invited \/ InviteSet(r) \/ JoinComplete(r) \/ WithdrawDelete(r)
  BY DEF Serve, InviteFind, InviteCharge, InviteResult, InviteCount, InviteCommit,
     InvitePlan, JoinFind, JoinOrder, JoinCommit, Accept, RemoveFind, RemoveOrder, RemoveTeam,
     RemoveOwner, RemoveCommit, RemoveCount, RefundRead, RefundCall, RefundSave, WithdrawCount,
     RolesCheck, RolesCommit, CloseProfiles, CloseInvitations, CloseOrder, CloseCommit, redis

LEMMA SeatKept ==
  ASSUME CoreInv, NEW r \in Requests, Serve(r), NEW p \in People, Seated(p)
  PROVE  Seated(p)'
<1>1. /\ TypeOK /\ HandlerInv(r) /\ request[r] \in RequestType /\ issued \subseteq issued'
      /\ request[r].step \in Steps /\ \A q \in Requests : request'[q].call = request[q].call
      /\ \A q \in Requests \ {r} : request'[q] = request[q]
      /\ Call(r) \in CallType /\ Call(r) # NoCall /\ request[r].step \in StepsOf[Call(r).op]
  BY TypeServe, Moving, Serving DEF CoreInv, HandlersInv, TypeOK
<1>2. CASE p \in invited
  <2>1. CASE p \in invited'
    BY <2>1 DEF Seated
  <2>2. CASE p \notin invited'
    <3>1. JoinComplete(r) \/ WithdrawDelete(r)
      BY <1>2, <2>2, InvitedTaken DEF InviteSet
    <3>2. CASE JoinComplete(r)
      <4>1. request[r].step = "joinComplete" /\ p \in Call(r).people /\ Goes(r, "joinCommit")
        BY <1>2, <2>2, <3>2 DEF JoinComplete, At
      <4>2. Call(r).op = "join" /\ p \in request[r].known
        BY <1>1, <4>1 DEF HandlerInv, StepsOf, CallType, Call
      <4>3. request'[r].step = "joinCommit" /\ request'[r].known = request[r].known
        BY <1>1, <4>1, Going DEF Becomes, Status, Steps
      <4> QED  BY <1>1, <4>1, <4>2, <4>3 DEF Seated, Op, Call, At
    <3>3. CASE WithdrawDelete(r)
      <4>1. request[r].step = "withdrawDelete" /\ p \in Call(r).people
        BY <1>2, <2>2, <3>3 DEF WithdrawDelete, At
      <4>2. Call(r).op = "withdraw"
        BY <1>1, <4>1 DEF StepsOf, CallType
      <4> QED  BY <1>1, <4>1, <4>2 DEF Seated, Op, Call
    <3> QED  BY <3>1, <3>2, <3>3
  <2> QED  BY <2>1, <2>2
<1>3. CASE \E t \in issued : t.user = p
  BY <1>1, <1>3 DEF Seated
<1>4. CASE \E q \in Requests : Op(q, "withdraw") /\ p \in Call(q).people
  BY <1>1, <1>4 DEF Seated, Op, Call
<1>5. ASSUME NEW q \in Requests, Op(q, "join"), p \in Call(q).people,
             At(q, "failed") \/ (At(q, "joinCommit") /\ p \in request[q].known)
      PROVE  Seated(p)'
  <2>1. CASE q # r
    <3>1. request'[q] = request[q]
      BY <1>1, <2>1
    <3> QED  BY <1>5, <3>1 DEF Seated, Op, Call, At
  <2>2. CASE q = r
    <3>1. request[r].step = "joinCommit" /\ p \in request[r].known
      BY <1>1, <1>5, <2>2 DEF At, Steps
    <3>2. JoinCommit(r)
      BY <3>1 DEF Serve, InviteFind, InviteCharge, InviteResult, InviteCount, InviteCommit,
         InvitePlan, InviteSet, JoinFind, JoinOrder, JoinComplete, Accept, RemoveFind, RemoveOrder,
         RemoveTeam, RemoveOwner, RemoveCommit, RemoveCount, RefundRead, RefundCall, RefundSave,
         WithdrawDelete, WithdrawCount, RolesCheck, RolesCommit, CloseProfiles, CloseInvitations,
         CloseOrder, CloseCommit, At
    <3>3. PICK ids \in SUBSET Ids :
             /\ Cardinality(ids) = Cardinality(request[r].known)
             /\ \E new \in Numbering(request[r].known, ids) : Enrol(ids, new)
      BY <3>2 DEF JoinCommit
    <3>4. request[r].known \in SUBSET People
      BY <1>1 DEF RequestType
    <3>5. \E t \in issued' : t.user = p
      BY <1>1, <3>1, <3>3, <3>4, Enrolled
    <3> QED  BY <3>5 DEF Seated
  <2> QED  BY <2>1, <2>2
<1> QED  BY <1>2, <1>3, <1>4, <1>5 DEF Seated

LEMMA SeatsServe ==
  ASSUME CoreInv, SeatsInv, NEW r \in Requests, Serve(r)
  PROVE  SeatsInv'
<1>1. /\ TypeOK /\ HandlerInv(r) /\ request[r] \in RequestType /\ issued \subseteq issued'
      /\ request[r].step \in Steps /\ request'[r].call = request[r].call
      /\ \A q \in Requests \ {r} : request'[q] = request[q]
      /\ Call(r).people \subseteq People
  BY TypeServe, Moving, Serving DEF CoreInv, HandlersInv, TypeOK
<1>2. ASSUME NEW q \in Requests \ {r}
      PROVE  /\ request'[q].step \in {"invitePlan", "inviteSet"} =>
                   \A p \in request'[q].known : \E t \in issued' : t.user = p
             /\ Op(q, "invite")' /\ At(q, "done")' => \A p \in Call(q)'.people : Seated(p)'
  <2>1. request'[q] = request[q]
    BY <1>1
  <2>2. ASSUME Op(q, "invite"), At(q, "done"), NEW p \in Call(q).people PROVE Seated(p)'
    <3>1. Seated(p)
      BY <2>2 DEF SeatsInv
    <3>2. p \in People
      <4>1. Call(q) \in Calls
        BY <1>1, <2>2 DEF Op, Call, TypeOK, RequestType
      <4> QED  BY <2>2, <4>1, MembershipAssumption DEF CallType
    <3> QED  BY <3>1, <3>2, SeatKept
  <2> QED  BY <1>1, <2>1, <2>2 DEF SeatsInv, Op, At, Call
<1>3. ASSUME request'[r].step \in {"invitePlan", "inviteSet"}
      PROVE  \A p \in request'[r].known : \E t \in issued' : t.user = p
  <2>1. InviteCommit(r) \/ InvitePlan(r)
    <3>1. ASSUME NEW s \in Status, Goes(r, s) PROVE request'[r].step = s
      BY <1>1, <3>1, Going DEF Becomes
    <3>2. ~ (InviteFind(r) \/ InviteCharge(r) \/ JoinFind(r) \/ JoinOrder(r) \/ RemoveOrder(r)
             \/ CloseOrder(r))
      BY <1>1, <1>3, InviteFindMoves, InviteChargeMoves, JoinFindMoves, JoinOrderMoves,
         RemoveOrderMoves, CloseOrderMoves DEF Becomes
    <3>3. ~ (InviteResult(r) \/ InviteCount(r) \/ InviteSet(r) \/ JoinComplete(r) \/ JoinCommit(r)
             \/ Accept(r) \/ RemoveFind(r) \/ RemoveTeam(r) \/ RemoveOwner(r) \/ RemoveCommit(r))
      BY <1>3, <3>1 DEF InviteResult, InviteCount, InviteSet, JoinComplete, JoinCommit,
         Accept, RemoveFind, RemoveTeam, RemoveOwner, RemoveCommit, Status, Steps
    <3>4. ~ (RemoveCount(r) \/ RefundRead(r) \/ RefundCall(r) \/ RefundSave(r) \/ WithdrawDelete(r)
             \/ WithdrawCount(r) \/ RolesCheck(r) \/ RolesCommit(r) \/ CloseProfiles(r)
             \/ CloseInvitations(r) \/ CloseCommit(r))
      BY <1>3, <3>1 DEF RemoveCount, RefundRead, RefundCall, RefundSave, AfterRefund,
         WithdrawDelete, WithdrawCount, RolesCheck, RolesCommit, CloseProfiles,
         CloseInvitations, CloseCommit, Status, Steps
    <3> QED  BY <3>2, <3>3, <3>4 DEF Serve
  <2>2. PICK s \in {"invitePlan", "inviteSet"} : Goes(r, s)
    BY <2>1 DEF InviteCommit, InvitePlan
  <2>3. request'[r].known = request[r].known
    BY <1>1, <2>2, Going DEF Becomes, Status, Steps
  <2>4. CASE InviteCommit(r)
    <3>1. PICK ids \in SUBSET Ids :
             /\ Cardinality(ids) = Cardinality(request[r].known)
             /\ \E new \in Numbering(request[r].known, ids) : Enrol(ids, new)
      BY <2>4 DEF InviteCommit
    <3>2. request[r].known \in SUBSET People
      BY <1>1 DEF RequestType
    <3>3. \A p \in request[r].known : \E t \in issued' : t.user = p
      BY <1>1, <3>1, <3>2, Enrolled
    <3> QED  BY <2>3, <3>3
  <2>5. CASE InvitePlan(r)
    BY <1>1, <2>3, <2>5 DEF InvitePlan, At, SeatsInv
  <2> QED  BY <2>1, <2>4, <2>5
<1>4. ASSUME Op(r, "invite")', At(r, "done")', NEW p \in Call(r).people
      PROVE  Seated(p)'
  <2>1. request[r].step \in StepsOf["invite"]
    BY <1>1, <1>4, Serving DEF CoreInv, Op, Call
  <2>2. InviteSet(r)
    <3>1. CASE InviteFind(r) \/ InviteCharge(r)
      BY <1>1, <1>4, <3>1, InviteFindMoves, InviteChargeMoves DEF Becomes, At
    <3>2. CASE InviteResult(r) \/ InviteCount(r) \/ InviteCommit(r) \/ InvitePlan(r)
      <4>1. PICK s \in {"inviteCount", "inviteCommit", "invitePlan", "inviteSet"} : Goes(r, s)
        BY <3>2 DEF InviteResult, InviteCount, InviteCommit, InvitePlan
      <4> QED  BY <1>1, <1>4, <4>1, Going DEF Becomes, At, Status, Steps
    <3> QED
      BY <2>1, <3>1, <3>2 DEF StepsOf, Serve, JoinFind, JoinOrder, JoinComplete, JoinCommit, Accept,
         RemoveFind, RemoveOrder,
         RemoveTeam, RemoveOwner, RemoveCommit, RemoveCount, RefundRead, RefundCall, RefundSave,
         WithdrawDelete, WithdrawCount, RolesCheck, RolesCommit, CloseProfiles, CloseInvitations,
         CloseOrder, CloseCommit, At
  <2>3. CASE p \in request[r].known
    <3>1. \E t \in issued : t.user = p
      BY <2>2, <2>3 DEF SeatsInv, InviteSet, At
    <3> QED  BY <1>1, <3>1 DEF Seated
  <2>4. CASE p \notin request[r].known
    BY <1>4, <2>2, <2>4 DEF InviteSet, Seated
  <2> QED  BY <2>3, <2>4
<1>5. Call(r)' = Call(r)
  BY <1>1 DEF Call
<1> QED  BY <1>2, <1>3, <1>4, <1>5 DEF SeatsInv

LEMMA SeatsStep == CoreInv /\ SeatsInv /\ [Next]_vars => SeatsInv'
<1> SUFFICES ASSUME CoreInv, SeatsInv, [Next]_vars PROVE SeatsInv'
  OBVIOUS
<1>1. ASSUME NEW r \in Requests, Receive(r) \/ Fail(r) PROVE SeatsInv'
  <2>1. /\ UNCHANGED <<redis, issued>>
        /\ \A q \in Requests \ {r} : request'[q] = request[q]
        /\ \/ /\ request'[r].step = "failed" /\ request'[r].call = request[r].call
              /\ request'[r].known = request[r].known
           \/ request'[r].step \in Steps \cap Unordered /\ Call(r) = NoCall
    BY <1>1, Arriving, Failing DEF CoreInv, Becomes
  <2>2. \A p \in People : Seated(p) => Seated(p)'
    <3>1. \A q \in Requests : Op(q, "withdraw") => Op(q, "withdraw")' /\ Call(q)' = Call(q)
      BY <2>1 DEF Op, Call
    <3>2. ASSUME NEW p \in People, NEW q \in Requests, Op(q, "join"), p \in Call(q).people,
                 At(q, "failed") \/ (At(q, "joinCommit") /\ p \in request[q].known)
          PROVE  /\ Op(q, "join")' /\ p \in Call(q)'.people
                 /\ At(q, "failed")' \/ (At(q, "joinCommit")' /\ p \in request'[q].known)
      BY <2>1, <3>2 DEF Op, Call, At
    <3> QED  BY <2>1, <3>1, <3>2 DEF Seated, redis
  <2>3. request'[r].step \notin {"invitePlan", "inviteSet", "done"}
    BY <2>1 DEF Unordered
  <2>4. ASSUME NEW q \in Requests, Op(q, "invite")', At(q, "done")', NEW p \in Call(q)'.people
        PROVE  Seated(p)'
    <3>1. q # r
      BY <2>3, <2>4 DEF At
    <3>2. Op(q, "invite") /\ At(q, "done") /\ p \in Call(q).people
      BY <2>1, <2>4, <3>1 DEF Op, At, Call
    <3>3. Call(q) \in Calls
      BY <3>2 DEF Op, Call, CoreInv, TypeOK, RequestType
    <3>4. p \in People /\ Seated(p)
      BY <3>2, <3>3, MembershipAssumption DEF CallType, SeatsInv
    <3> QED  BY <2>2, <3>4
  <2>5. ASSUME NEW q \in Requests, request'[q].step \in {"invitePlan", "inviteSet"},
               NEW p \in request'[q].known
        PROVE  \E t \in issued' : t.user = p
    BY <2>1, <2>3, <2>5 DEF SeatsInv
  <2> QED  BY <2>4, <2>5 DEF SeatsInv
<1>2. CASE UNCHANGED vars
  BY <1>2 DEF vars, redis, SeatsInv, Seated, At, Op, Call
<1> QED  BY <1>1, <1>2, SeatsServe DEF Next

(* Nobody whose seat was paid for gets lost, however invitations, sign ups  *)
(* and withdrawals of the same people overlap: a finished invitation has    *)
(* invited him or made him a member, and what takes the invitation away is  *)
(* his sign up or a withdrawal.                                             *)
THEOREM SeatsCorrect == Spec => []SeatsAccounted
<1>1. Init => SeatsInv
  BY DEF Init, SeatsInv, At
<1>2. SeatsInv => SeatsAccounted
  <2>1. ASSUME NEW p, Seated(p)
        PROVE  \/ p \in invited
               \/ \E t \in issued : t.user = p
               \/ \E q \in Requests :
                     /\ Op(q, "withdraw") \/ (Op(q, "join") /\ ~ At(q, "done"))
                     /\ p \in Call(q).people
    BY <2>1 DEF Seated, At
  <2> QED  BY <2>1 DEF SeatsInv, SeatsAccounted
<1> QED  BY <1>1, <1>2, SeatsStep, CoreCorrect, PTL DEF Spec

-----------------------------------------------------------------------------
(* Lists.  Calls stay, so a lone sign up was alone before.                  *)
LEMMA Lonely ==
  ASSUME CoreInv, [Next]_vars, LoneJoin'
  PROVE  LoneJoin
<1>1. ASSUME NEW q \in Requests, Op(q, "join") PROVE Op(q, "join")'
  <2>1. ASSUME NEW r \in Requests, Receive(r) PROVE Op(q, "join")'
    <3>1. q # r
      BY <1>1, <2>1, Arriving DEF CoreInv, Op
    <3> QED  BY <1>1, <2>1, <3>1, Arriving DEF CoreInv, Op, Call
  <2>2. ASSUME NEW r \in Requests, Serve(r) PROVE Op(q, "join")'
    BY <1>1, <2>2, Moving DEF CoreInv, Op, Call
  <2>3. ASSUME NEW r \in Requests, Fail(r) PROVE Op(q, "join")'
    BY <1>1, <2>3, Failing DEF CoreInv, Op, Call, Becomes
  <2>4. CASE UNCHANGED vars
    BY <1>1, <2>4 DEF vars, Op, Call
  <2> QED  BY <2>1, <2>2, <2>3, <2>4 DEF Next
<1> QED  BY <1>1 DEF LoneJoin

(* What a step does to the orders in the database: nothing, or it brings in *)
(* that of an invitation, or a sign up adds its profiles to what it read.   *)
LEMMA OrdersTaken ==
  ASSUME NEW r \in Requests, Serve(r)
  PROVE  UNCHANGED orders \/ InviteCommit(r) \/ JoinCommit(r)
  BY DEF Serve, InviteFind, InviteCharge, InviteResult, InviteCount, InviteSet,
     InvitePlan, JoinFind, JoinOrder, JoinComplete, Accept, RemoveFind, RemoveOrder, RemoveTeam,
     RemoveOwner, RemoveCommit, RemoveCount, RefundRead, RefundCall, RefundSave, WithdrawDelete,
     WithdrawCount, RolesCheck, RolesCommit, CloseProfiles, CloseInvitations, CloseOrder,
     CloseCommit, tables

LEMMA RowsTaken ==
  ASSUME TypeOK, NEW r \in Requests, Serve(r), ~ InviteCommit(r), ~ JoinCommit(r)
  PROVE  Members' \subseteq Members
<1>1. \/ UNCHANGED rows
      \/ Accept(r) \/ RemoveCommit(r) \/ RolesCommit(r) \/ CloseCommit(r)
  BY DEF Serve, InviteFind, InviteCharge, InviteResult, InviteCount, InviteSet,
     InvitePlan, JoinFind, JoinOrder, JoinComplete, RemoveFind, RemoveOrder, RemoveTeam,
     RemoveOwner, RemoveCount, RefundRead, RefundCall, RefundSave, WithdrawDelete,
     WithdrawCount, RolesCheck, CloseProfiles, CloseInvitations, CloseOrder,
     CloseCommit, tables
<1>2. ASSUME NEW i \in Ids, ~ IsRow(i) PROVE ~ IsRow(i)'
  BY <1>1, <1>2, MembershipAssumption
     DEF IsRow, Accept, RemoveCommit, RolesCommit, WithRoles, CloseCommit, TypeOK
<1> QED  BY <1>2 DEF Members

LEMMA ListsServe ==
  ASSUME CoreInv, ListsInv, NEW r \in Requests, Serve(r), LoneJoin'
  PROVE  ListsInv'
<1>1. /\ TypeOK /\ HandlerInv(r) /\ request[r] \in RequestType /\ issued \subseteq issued'
      /\ request[r].step \in Steps /\ request'[r].call = request[r].call
      /\ \A q \in Requests \ {r} : request'[q] = request[q]
      /\ Grows(r) /\ LoneJoin
      /\ Call(r) \in CallType /\ Call(r) # NoCall /\ request[r].step \in StepsOf[Call(r).op]
  <2>1. LoneJoin
    BY Lonely DEF Next
  <2> QED  BY <2>1, TypeServe, Moving, Serving, Growing DEF CoreInv, HandlersInv, TypeOK
<1>2. /\ \A q \in Requests :
           request[q].step \in {"joinComplete", "joinCommit"} /\ request[q].order # NoOrder
           => request[q].listed = orders[request[q].order].profileIds
      /\ \A i \in Members : Listed(i)
  BY <1>1 DEF ListsInv
<1> DEFINE o == request[r].order
<1>3. CASE InviteCommit(r)
  <2>1. PICK ids \in SUBSET Ids :
          /\ Cardinality(ids) = Cardinality(request[r].known)
          /\ \E new \in Numbering(request[r].known, ids) : Enrol(ids, new)
          /\ orders' = [orders EXCEPT ![o] = OrderFor(ids)]
    BY <1>3 DEF InviteCommit
  <2>2. request[r].known \in SUBSET People
    BY <1>1 DEF RequestType
  <2>3. Members' = Members \cup ids
    BY <1>1, <2>1, <2>2, Enrolled
  <2>4. /\ o \in Orders /\ orders[o] = NoOrder
        /\ \A q \in Requests \ {r} : request[q].order # o
    BY <1>1, <1>3 DEF InviteCommit, HandlerInv, At, Charging, TypeOK
  <2>5. /\ orders'[o] = OrderFor(ids) /\ OrderFor(ids) # NoOrder /\ OrderFor(ids).profileIds = ids
        /\ \A q \in Orders \ {o} : orders'[q] = orders[q]
    BY <1>1, <2>1, <2>4, MembershipAssumption DEF TypeOK, OrderFor, OrderType
  <2>6. ASSUME NEW i \in Members' PROVE Listed(i)'
    <3>1. CASE i \in Members
      BY <1>1, <1>2, <2>4, <2>5, <3>1 DEF Listed
    <3>2. CASE i \in ids
      BY <2>4, <2>5, <3>2 DEF Listed
    <3> QED  BY <2>3, <3>1, <3>2
  <2>7. ASSUME NEW q \in Requests,
               request'[q].step \in {"joinComplete", "joinCommit"}, request'[q].order # NoOrder
        PROVE  request'[q].listed = orders'[request'[q].order].profileIds
    <3>1. request'[r].step = "invitePlan"
      BY <1>1, <1>3, Going DEF InviteCommit, Becomes, Status, Steps
    <3>2. q # r /\ request'[q] = request[q]
      BY <1>1, <2>7, <3>1
    <3>3. request[q].order \in Orders \ {o}
      BY <1>1, <2>4, <2>7, <3>2 DEF TypeOK, RequestType
    <3> QED  BY <1>2, <2>5, <2>7, <3>2, <3>3
  <2> QED  BY <2>6, <2>7 DEF ListsInv
<1>4. CASE JoinCommit(r)
  <2>1. PICK ids \in SUBSET Ids :
          /\ Cardinality(ids) = Cardinality(request[r].known)
          /\ \E new \in Numbering(request[r].known, ids) : Enrol(ids, new)
          /\ orders' = IF o = NoOrder THEN orders
                       ELSE [orders EXCEPT ![o] = OrderFor(request[r].listed \cup ids)]
    BY <1>4 DEF JoinCommit
  <2>2. request[r].known \in SUBSET People /\ request[r].listed \in SUBSET Ids
    BY <1>1 DEF RequestType
  <2>3. Members' = Members \cup ids
    BY <1>1, <2>1, <2>2, Enrolled
  <2>4. request[r].step = "joinCommit" /\ Call(r).op = "join"
    BY <1>1, <1>4 DEF JoinCommit, At, StepsOf, CallType
  <2>5. \A i \in Members' : Listed(i)'
    <3>1. CASE o = NoOrder
      <4>1. request[r].known = {}
        BY <1>1, <2>4, <3>1, MembershipAssumption DEF HandlerInv, At
      <4>2. IsFiniteSet(ids) /\ IsFiniteSet(request[r].known)
        BY <2>2, Finite
      <4>3. ids = {}
        <5>1. Cardinality({}) = 0
          BY FS_EmptySet
        <5>2. Cardinality(ids) = 0
          BY <2>1, <4>1, <5>1
        <5> QED  BY <4>2, <5>2, FS_EmptySet
      <4>4. orders' = orders /\ Members' = Members
        BY <2>1, <2>3, <3>1, <4>3
      <4> QED  BY <1>1, <1>2, <4>4 DEF Listed
    <3>2. CASE o # NoOrder
      <4>1. o \in Orders /\ orders[o] # NoOrder /\ request[r].listed = orders[o].profileIds
        BY <1>1, <1>2, <2>4, <3>2 DEF HandlerInv, InFlight, Steps, Charging, RequestType
      <4>2. PICK all \in SUBSET Ids : all = request[r].listed \cup ids
        BY <2>2
      <4>3. OrderFor(all) # NoOrder /\ OrderFor(all).profileIds = all
        BY MembershipAssumption DEF OrderFor, OrderType
      <4>4. orders' = [orders EXCEPT ![o] = OrderFor(all)]
        BY <2>1, <3>2, <4>2
      <4>5. orders'[o] = OrderFor(all) /\ \A q \in Orders \ {o} : orders'[q] = orders[q]
        BY <1>1, <4>1, <4>4 DEF TypeOK
      <4>6. ASSUME NEW i \in Members, Listed(i) PROVE Listed(i)'
        <5>1. CASE \E t \in issued : t.id = i /\ t.role = "OWNER"
          BY <1>1, <5>1 DEF Listed
        <5>2. ASSUME NEW q \in Orders, orders[q] # NoOrder, i \in orders[q].profileIds
              PROVE  orders'[q] # NoOrder /\ i \in orders'[q].profileIds
          BY <4>1, <4>2, <4>3, <4>5, <5>2
        <5> QED  BY <4>6, <5>1, <5>2 DEF Listed
      <4>7. ASSUME NEW i \in ids PROVE Listed(i)'
        BY <4>1, <4>2, <4>3, <4>5 DEF Listed
      <4> QED  BY <1>2, <2>3, <4>6, <4>7
    <3> QED  BY <3>1, <3>2
  <2>6. ASSUME NEW q \in Requests, request'[q].step \in {"joinComplete", "joinCommit"}
        PROVE  FALSE
    <3>1. request'[r].step = "done"
      BY <1>1, <1>4, Going DEF JoinCommit, Becomes, Status
    <3>2. q # r /\ request'[q] = request[q]
      BY <1>1, <2>6, <3>1
    <3>3. Op(q, "join")
      <4>1. Call(q) \in CallType /\ Call(q) # NoCall /\ request[q].step \in StepsOf[Call(q).op]
        BY <2>6, <3>2, Serving DEF CoreInv, Steps
      <4> QED  BY <2>6, <3>2, <4>1 DEF StepsOf, CallType, Op
    <3> QED  BY <1>1, <2>4, <3>2, <3>3 DEF LoneJoin, Op
  <2> QED  BY <2>5, <2>6 DEF ListsInv
<1>5. CASE ~ InviteCommit(r) /\ ~ JoinCommit(r)
  <2>1. UNCHANGED orders /\ Members' \subseteq Members
    BY <1>1, <1>5, OrdersTaken, RowsTaken
  <2>2. \A i \in Members' : Listed(i)'
    BY <1>1, <1>2, <2>1 DEF Listed
  <2>3. ASSUME NEW q \in Requests,
               request'[q].step \in {"joinComplete", "joinCommit"}, request'[q].order # NoOrder
        PROVE  request'[q].listed = orders[request'[q].order].profileIds
    <3>1. CASE q # r
      <4>1. request'[q] = request[q]
        BY <1>1, <3>1
      <4> QED  BY <1>2, <2>3, <4>1
    <3>2. CASE q = r /\ JoinFind(r)
      BY <1>1, <2>3, <3>2, JoinFindMoves DEF Becomes
    <3>3. CASE q = r /\ JoinOrder(r)
      BY <1>1, <2>3, <3>3, JoinOrderMoves DEF Becomes
    <3>4. CASE q = r /\ JoinComplete(r)
      <4>1. /\ request'[r].listed = request[r].listed /\ request'[r].order = request[r].order
            /\ request[r].step = "joinComplete"
        BY <1>1, <3>4, Going DEF JoinComplete, Becomes, Status, Steps, At
      <4> QED  BY <1>2, <2>3, <3>4, <4>1
    <3>5. CASE q = r /\ ~ JoinFind(r) /\ ~ JoinOrder(r) /\ ~ JoinComplete(r)
      <4>1. request'[r].step \in {"joinComplete", "joinCommit"}
        BY <2>3, <3>5
      <4>2. Call(r).op # "join"
        BY <1>1, <1>5, <3>5 DEF StepsOf, Serve, InviteFind, InviteCharge, InviteResult,
         InviteCount, InvitePlan, InviteSet, Accept, RemoveFind, RemoveOrder,
         RemoveTeam, RemoveOwner, RemoveCommit, RemoveCount, RefundRead, RefundCall, RefundSave,
         WithdrawDelete, WithdrawCount, RolesCheck, RolesCommit, CloseProfiles, CloseInvitations,
         CloseOrder, CloseCommit, At
      <4>3. request'[r].step \in StepsOf[Call(r).op]
        <5>1. HandlerInv(r)' /\ request'[r].step \in Steps
          BY <4>1, Own DEF CoreInv, Steps
        <5>2. Call(r)' = Call(r)
          BY <1>1 DEF Call
        <5> QED  BY <5>1, <5>2 DEF HandlerInv, InFlight, Call
      <4> QED  BY <1>1, <4>1, <4>2, <4>3 DEF StepsOf, CallType
    <3> QED  BY <3>1, <3>2, <3>3, <3>4, <3>5
  <2> QED  BY <2>1, <2>2, <2>3 DEF ListsInv
<1> QED  BY <1>3, <1>4, <1>5

LEMMA ListsInit == Init => ListsInv
<1> SUFFICES ASSUME Init PROVE ListsInv
  OBVIOUS
<1>1. PICK s \in Starts :
        /\ rows = s.rows /\ orders = s.orders
        /\ issued = {Token(i, s.rows[i]) : i \in {j \in Ids : s.rows[j] \in RowType}}
  BY DEF Init
<1>2. ASSUME NEW i \in Members PROVE Listed(i)
  <2>1. i \in Ids /\ s.rows[i] \in RowType
    BY <1>1 DEF Members, IsRow
  <2>2. CASE s.rows[i].role = "OWNER"
    <3>1. Token(i, s.rows[i]) \in issued
      BY <1>1, <2>1
    <3>2. Token(i, s.rows[i]).id = i /\ Token(i, s.rows[i]).role = "OWNER"
      BY <2>2 DEF Token
    <3> QED  BY <3>1, <3>2 DEF Listed
  <2>3. CASE \E o \in Orders : s.orders[o] # NoOrder /\ i \in s.orders[o].profileIds
    BY <1>1, <2>3 DEF Listed
  <2> QED  BY <2>1, <2>2, <2>3, ListingAssumption
<1> QED  BY <1>2 DEF Init, ListsInv

LEMMA ListsStep == CoreInv /\ ListsInv /\ [Next]_vars => ListsInv'
<1> SUFFICES ASSUME CoreInv, ListsInv, [Next]_vars, LoneJoin' PROVE ListsInv'
  BY DEF ListsInv
<1>1. ASSUME NEW r \in Requests, Receive(r) \/ Fail(r) PROVE ListsInv'
  <2>1. /\ UNCHANGED <<tables, issued>>
        /\ \A q \in Requests \ {r} : request'[q] = request[q]
        /\ request'[r].step \notin {"joinComplete", "joinCommit"}
    BY <1>1, Arriving, Failing DEF CoreInv, Becomes, Unordered
  <2>2. LoneJoin
    BY Lonely
  <2>3. Members' = Members
    BY <2>1 DEF Members, IsRow, tables
  <2>4. \A i \in Members' : Listed(i)'
    BY <2>1, <2>2, <2>3 DEF ListsInv, Listed, tables
  <2>5. ASSUME NEW q \in Requests,
               request'[q].step \in {"joinComplete", "joinCommit"}, request'[q].order # NoOrder
        PROVE  request'[q].listed = orders'[request'[q].order].profileIds
    <3>1. request'[q] = request[q]
      BY <2>1, <2>5
    <3> QED  BY <2>1, <2>2, <2>5, <3>1 DEF ListsInv, tables
  <2> QED  BY <2>4, <2>5 DEF ListsInv
<1>2. CASE UNCHANGED vars
  BY <1>2 DEF vars, tables, ListsInv, LoneJoin, Listed, Members, IsRow, Op, Call
<1> QED  BY <1>1, <1>2, ListsServe DEF Next

(* As long as no two people sign up, every member but the owners, present   *)
(* and past, is in the list of an order, which remove cannot do without.    *)
THEOREM RemovableCorrect == Spec => []Removable
<1>1. ListsInv => Removable
  BY DEF ListsInv, Removable
<1> QED  BY <1>1, ListsInit, ListsStep, CoreCorrect, PTL DEF Spec

-----------------------------------------------------------------------------
(* While one proper request is served at a time.  The roster at each step of *)
(* the one that is, and what the member count is ahead of it by then.        *)
Persons == {rows[i].person : i \in Members}
Total == Cardinality(Members) + Cardinality(invited)
Ahead(r) ==
    LET local == request[r] IN
    IF local.step = "inviteCommit" THEN Cardinality(local.call.people)
    ELSE IF local.step \in {"invitePlan", "inviteSet"}
         THEN Cardinality(local.call.people \ local.known)
    ELSE IF local.step = "joinCommit" THEN Cardinality(local.known)
    ELSE IF local.step \in {"removeCount", "withdrawCount"} THEN 1 ELSE 0
Inviting(local) ==
    /\ local.step \notin {"invitePlan", "inviteSet"} =>
          local.call.people \cap (invited \cup Persons) = {}
    /\ local.step # "inviteFind" => ~closed /\ local.known \subseteq local.call.people
    /\ (local.call.people \ local.known) \cap (invited \cup Persons) = {}
SigningUp(local) ==
    /\ local.step \in {"joinOrder", "joinComplete"} => local.call.people \subseteq invited
    /\ local.step = "joinCommit" =>
          \/ local.known = {} /\ local.order = NoOrder
          \/ /\ local.known = local.call.people /\ local.order # NoOrder /\ ~closed
             /\ local.known \cap invited = {}
Removing(local) ==
    local.step \notin {"removeFind", "removeCount"} => local.call.target \in Members \ Owners
ChangingRoles(local) ==
    LET c == local.call IN
    /\ IsRow(c.token.id) /\ rows[c.token.id].role = c.token.role
    /\ c.target \in Members \ Owners
    /\ local.step = "rolesCommit" /\ c.role = "OWNER" => c.token.role = "OWNER"
Closing(local) ==
    /\ ~closed /\ Owners = {local.call.token.id}
    /\ local.step # "closeProfiles" => Members = Owners
    /\ local.step \notin {"closeProfiles", "closeInvitations"} => invited = {}
Serves(local) ==
    /\ local.call.op = "invite" => Inviting(local)
    /\ local.call.op = "join" => SigningUp(local)
    /\ local.call.op = "remove" => Removing(local)
    /\ local.step = "withdrawDelete" => local.call.people \subseteq invited
    /\ local.call.op = "roles" => ChangingRoles(local)
    /\ local.call.op = "close" => Closing(local)
RosterInv ==
    /\ \A q, r \in InFlight : q = r
    /\ IF closed THEN Members = {} /\ invited = {} ELSE \E i \in Ids : Owners = {i}
    /\ Persons \cap (invited \cup Joining) = {}
    /\ InFlight = {} /\ ~closed => memberCount = Total
    /\ \A r \in InFlight : Serves(request[r]) /\ (~closed => memberCount = Total + Ahead(r))
OrderlyInv == orderly => RosterInv

LEMMA OneElement ==
  ASSUME NEW i PROVE Cardinality({i}) = 1 /\ (CHOOSE j \in {i} : TRUE) = i
<1>1. (CHOOSE j \in {i} : TRUE) \in {i}
  BY Chosen
<1> QED  BY <1>1, FS_Singleton

LEMMA MembersAre ==
  ASSUME TypeOK
  PROVE  /\ Members \subseteq Ids /\ Owners \subseteq Members /\ Persons \subseteq People
         /\ \A i \in Members : rows[i] \in RowType
         /\ \A i \in Ids : i \in Members <=> IsRow(i)
         /\ \A i \in Ids : i \in Owners <=> IsRow(i) /\ rows[i].role = "OWNER"
         /\ IsFiniteSet(Members) /\ IsFiniteSet(invited) /\ Total \in Nat
         /\ Cardinality(Members) \in Nat /\ Cardinality(invited) \in Nat
<1>1. /\ Members \subseteq Ids /\ Owners \subseteq Members
      /\ \A i \in Members : rows[i] \in RowType
      /\ \A i \in Ids : i \in Members <=> IsRow(i)
      /\ \A i \in Ids : i \in Owners <=> IsRow(i) /\ rows[i].role = "OWNER"
  BY DEF Members, Owners, IsRow
<1>2. Persons \subseteq People
  BY <1>1 DEF Persons, RowType
<1>3. /\ IsFiniteSet(Members) /\ IsFiniteSet(invited)
      /\ Cardinality(Members) \in Nat /\ Cardinality(invited) \in Nat
  BY <1>1, Finite DEF TypeOK
<1> QED  BY <1>1, <1>2, <1>3 DEF Total

(* The owner, by the rows.                                                  *)
LEMMA OwnerIs ==
  /\ Owners = {} => TheOwner = Nobody
  /\ \A i : Owners = {i} => TheOwner = rows[i].person
<1>1. Owners = {} => TheOwner = Nobody
  <2>1. Cardinality({}) = 0
    BY FS_EmptySet
  <2> QED  BY <2>1 DEF TheOwner
<1>2. ASSUME NEW i, Owners = {i} PROVE TheOwner = rows[i].person
  BY <1>2, OneElement DEF TheOwner
<1> QED  BY <1>1, <1>2

LEMMA OwnerIsThen ==
  /\ Owners' = {} => TheOwner' = Nobody
  /\ \A i : Owners' = {i} => TheOwner' = rows'[i].person
<1>1. Owners' = {} => TheOwner' = Nobody
  <2>1. Cardinality({}) = 0
    BY FS_EmptySet
  <2> QED  BY <2>1 DEF TheOwner
<1>2. ASSUME NEW i, Owners' = {i} PROVE TheOwner' = rows'[i].person
  BY <1>2, OneElement DEF TheOwner
<1> QED  BY <1>1, <1>2

LEMMA OwnersKnown ==
  ASSUME RosterInv
  PROVE  /\ closed => Members = {} /\ Owners = {} /\ invited = {}
         /\ ~closed => \E i \in Ids : Owners = {i} /\ i \in Members /\ TheOwner = rows[i].person
<1>1. closed => Members = {} /\ Owners = {} /\ invited = {}
  BY DEF RosterInv, Owners
<1>2. ~closed => \E i \in Ids : Owners = {i} /\ i \in Members /\ TheOwner = rows[i].person
  BY OwnerIs DEF RosterInv, Owners
<1> QED  BY <1>1, <1>2

LEMMA SameOwner ==
  ASSUME RosterInv, Owners' = Owners, \A i \in Owners : rows'[i].person = rows[i].person
  PROVE  TheOwner' = TheOwner
<1>1. CASE closed
  BY <1>1, OwnersKnown, OwnerIs, OwnerIsThen
<1>2. CASE ~closed
  <2>1. PICK i : Owners = {i}
    BY <1>2, OwnersKnown
  <2> QED  BY <2>1, OwnerIs, OwnerIsThen
<1> QED  BY <1>1, <1>2

(* The handler at work is the only one.                                     *)
LEMMA AtWork ==
  ASSUME CoreInv, RosterInv, NEW r \in Requests, request[r].step \in Steps
  PROVE  /\ InFlight = {r} /\ Serves(request[r]) /\ (~closed => memberCount = Total + Ahead(r))
         /\ \A q \in Requests \ {r} : request[q].step \notin Steps
         /\ Call(r) \in CallType /\ Call(r) # NoCall /\ request[r].step \in StepsOf[Call(r).op]
         /\ \A op : Op(r, op) <=> Call(r).op = op
         /\ Call(r).people \subseteq People /\ Call(r).target \in Ids /\ Call(r).role \in Roles
<1>1. r \in InFlight
  BY DEF InFlight
<1>2. InFlight = {r}
  BY <1>1 DEF RosterInv
<1>3. \A q \in Requests \ {r} : request[q].step \notin Steps
  BY <1>2 DEF InFlight
<1>4. Serves(request[r]) /\ (~closed => memberCount = Total + Ahead(r))
  BY <1>1 DEF RosterInv
<1> QED  BY <1>2, <1>3, <1>4, Serving DEF CoreInv, Op

LEMMA JoiningIs ==
  ASSUME NEW r \in Requests, \A q \in Requests \ {r} : request[q].step \notin Steps
  PROVE  /\ Op(r, "join") /\ At(r, "joinCommit") /\ request[r].order # NoOrder
               => Joining = request[r].known
         /\ ~(Op(r, "join") /\ At(r, "joinCommit") /\ request[r].order # NoOrder)
               => Joining = {}
<1>1. \A q \in Requests : At(q, "joinCommit") => q = r
  BY DEF At, Steps
<1>2. CASE Op(r, "join") /\ At(r, "joinCommit") /\ request[r].order # NoOrder
  <2>1. {q \in Requests : Op(q, "join") /\ At(q, "joinCommit") /\ request[q].order # NoOrder} = {r}
    BY <1>1, <1>2
  <2>2. {request[q].known : q \in {r}} = {request[r].known}
    OBVIOUS
  <2> QED  BY <1>2, <2>1, <2>2 DEF Joining
<1>3. CASE ~(Op(r, "join") /\ At(r, "joinCommit") /\ request[r].order # NoOrder)
  <2>1. {q \in Requests : Op(q, "join") /\ At(q, "joinCommit") /\ request[q].order # NoOrder} = {}
    BY <1>1, <1>3
  <2> QED  BY <1>3, <2>1 DEF Joining
<1> QED  BY <1>2, <1>3

LEMMA JoiningBecomes ==
  ASSUME NEW r \in Requests, \A q \in Requests \ {r} : request[q].step \notin Steps,
         NEW s, NEW o, NEW known, NEW listed, Becomes(r, s, o, known, listed)
  PROVE  /\ Op(r, "join") /\ s = "joinCommit" /\ o # NoOrder => Joining' = known
         /\ ~(Op(r, "join") /\ s = "joinCommit" /\ o # NoOrder) => Joining' = {}
<1>1. \A q \in Requests : At(q, "joinCommit")' => q = r
  BY DEF At, Steps, Becomes
<1>2. /\ request'[r].step = s /\ request'[r].order = o /\ request'[r].known = known
      /\ (Op(r, "join")' <=> Op(r, "join"))
  BY DEF Becomes, Op, Call
<1>3. CASE Op(r, "join") /\ s = "joinCommit" /\ o # NoOrder
  <2>1. {q \in Requests : Op(q, "join")' /\ At(q, "joinCommit")' /\ request'[q].order # NoOrder} = {r}
    BY <1>1, <1>2, <1>3 DEF At
  <2>2. {request'[q].known : q \in {r}} = {known}
    BY <1>2
  <2> QED  BY <1>3, <2>1, <2>2 DEF Joining
<1>4. CASE ~(Op(r, "join") /\ s = "joinCommit" /\ o # NoOrder)
  <2>1. {q \in Requests : Op(q, "join")' /\ At(q, "joinCommit")' /\ request'[q].order # NoOrder} = {}
    BY <1>1, <1>2, <1>4 DEF At
  <2> QED  BY <1>4, <2>1 DEF Joining
<1> QED  BY <1>3, <1>4

(* What its step needs when it gets there.                                  *)
Ready(r, s, o, known) ==
    s \in Steps =>
        \A local : (local.step = s /\ local.call = Call(r) /\ local.order = o /\ local.known = known)
                   => Serves(local)'

(* What there is to show of its step.                                       *)
LEMMA Onward ==
  ASSUME CoreInv, RosterInv, NEW r \in Requests, request[r].step \in Steps,
         NEW s, NEW o, NEW known, NEW listed, Becomes(r, s, o, known, listed),
         IF closed' THEN Members' = {} /\ invited' = {} ELSE \E i \in Ids : Owners' = {i},
         Persons' \cap (invited \cup Joining)' = {},
         Ready(r, s, o, known),
         ~closed' => memberCount' = Total' + Ahead(r)', ~closed' => Total' \in Int
  PROVE  RosterInv'
<1>1. \A q \in Requests \ {r} : request[q].step \notin Steps
  BY AtWork
<1>2. InFlight' \subseteq {r}
  BY <1>1 DEF InFlight, Becomes
<1>3. s \notin Steps => Ahead(r)' = 0
  BY DEF Ahead, Becomes, Steps
<1>4. InFlight' = {} => s \notin Steps
  BY DEF InFlight, Becomes
<1>5. InFlight' = {} /\ ~closed' => memberCount' = Total'
  BY <1>3, <1>4
<1>6. \A q \in InFlight' : q = r /\ s \in Steps
  BY <1>2 DEF InFlight, Becomes
<1>7. ASSUME s \in Steps PROVE Serves(request[r])'
  <2>1. PICK local : local = request'[r]
    OBVIOUS
  <2>2. Serves(local)'
    BY <1>7, <2>1 DEF Becomes, Call, Ready
  <2> QED  BY <2>1, <2>2 DEF Serves, Inviting, SigningUp, Removing, ChangingRoles, Closing
<1> QED  BY <1>5, <1>6, <1>7 DEF RosterInv

(* Steps that leave the members, the invitations and the team alone.        *)
LEMMA SameDemands ==
  ASSUME UNCHANGED <<rows, invited, closed>>
  PROVE  /\ Members' = Members /\ Owners' = Owners /\ Persons' = Persons /\ Total' = Total
         /\ TheOwner' = TheOwner /\ \A i : IsRow(i)' <=> IsRow(i)
         /\ \A local : Serves(local)' <=> Serves(local)
<1>1. /\ Members' = Members /\ Owners' = Owners /\ Persons' = Persons /\ Total' = Total
      /\ TheOwner' = TheOwner /\ \A i : IsRow(i)' <=> IsRow(i)
  BY DEF Members, Owners, Persons, Total, TheOwner, IsRow
<1>2. ASSUME NEW local PROVE Serves(local)' <=> Serves(local)
  BY <1>1 DEF Serves, Inviting, SigningUp, Removing, ChangingRoles, Closing
<1> QED  BY <1>1, <1>2

ReadyNow(r, s, o, known) ==
    s \in Steps =>
        \A local : (local.step = s /\ local.call = Call(r) /\ local.order = o /\ local.known = known)
                   => Serves(local)

LEMMA Quiet ==
  ASSUME CoreInv, RosterInv, NEW r \in Requests, request[r].step \in Steps, ~At(r, "joinCommit"),
         NEW s, NEW o, NEW known, NEW listed, Becomes(r, s, o, known, listed),
         s = "joinCommit" => o = NoOrder,
         UNCHANGED <<rows, invited, closed>>,
         ReadyNow(r, s, o, known),
         ~closed => memberCount' = Total + Ahead(r)'
  PROVE  RosterInv' /\ UNCHANGED Roster!vars
<1>1. /\ Members' = Members /\ Owners' = Owners /\ Persons' = Persons /\ Total' = Total
      /\ TheOwner' = TheOwner /\ Joining' = {} /\ Joining = {}
  BY SameDemands, AtWork, JoiningIs, JoiningBecomes
<1>2. IF closed' THEN Members' = {} /\ invited' = {} ELSE \E i \in Ids : Owners' = {i}
  BY <1>1 DEF RosterInv
<1>3. Persons' \cap (invited \cup Joining)' = {}
  BY <1>1 DEF RosterInv
<1>4. Total' \in Int
  BY <1>1, MembersAre DEF CoreInv
<1>5. RosterInv'
  BY <1>1, <1>2, <1>3, <1>4, SameDemands, Onward DEF Ready, ReadyNow
<1> QED  BY <1>1, <1>5 DEF Roster!vars, Persons

(* ... and the count as well.                                               *)
NothingAhead ==
    {"inviteCommit", "invitePlan", "inviteSet", "joinCommit", "removeCount", "withdrawCount"}
LEMMA Quieter ==
  ASSUME CoreInv, RosterInv, NEW r \in Requests, request[r].step \in Steps \ NothingAhead,
         NEW s, s \notin NothingAhead,
         NEW o, NEW known, NEW listed, Becomes(r, s, o, known, listed),
         UNCHANGED <<rows, invited, closed, memberCount>>,
         ReadyNow(r, s, o, known)
  PROVE  RosterInv' /\ UNCHANGED Roster!vars
<1>1. Ahead(r) = 0 /\ Ahead(r)' = 0
  BY DEF Ahead, Becomes, NothingAhead
<1>2. ~At(r, "joinCommit") /\ s # "joinCommit"
  BY DEF At, NothingAhead
<1>3. ~closed => memberCount' = Total + Ahead(r)'
  BY <1>1, AtWork
<1> QED  BY <1>2, <1>3, Quiet

(* A handler that ends, with nothing ahead.                                 *)
LEMMA QuietEnd ==
  ASSUME CoreInv, RosterInv, NEW r \in Requests, request[r].step \in Steps \ NothingAhead,
         NEW s \in {"done", "refused", "failed"},
         NEW o, NEW known, NEW listed, Becomes(r, s, o, known, listed),
         UNCHANGED <<rows, invited, closed, memberCount>>
  PROVE  RosterInv' /\ UNCHANGED Roster!vars
<1>1. s \notin Steps /\ s \notin NothingAhead
  BY DEF Steps, NothingAhead
<1> QED  BY <1>1, Quieter DEF ReadyNow

-----------------------------------------------------------------------------
(* One step of each call, in the order of Serve.                            *)
Keeps == RosterInv' /\ (Roster!Next \/ UNCHANGED Roster!vars)

LEMMA InviteFindKeeps ==
  ASSUME CoreInv, RosterInv, NEW r \in Requests, InviteFind(r)
  PROVE  Keeps
<1>1. /\ request[r].step = "inviteFind" /\ request[r].step \in Steps \ NothingAhead
      /\ UNCHANGED <<rows, invited, closed, memberCount>>
  BY DEF InviteFind, At, Steps, NothingAhead, tables, redis
<1>2. Call(r).op = "invite" /\ Serves(request[r])
  BY <1>1, AtWork DEF StepsOf, CallType
<1>3. CASE Becomes(r, "failed", request[r].order, request[r].known, request[r].listed)
  BY <1>1, <1>3, QuietEnd DEF Keeps
<1>4. CASE /\ Becomes(r, "inviteCharge", request[r].order, Call(r).people \cap users,
                      request[r].listed)
           /\ Owners # {}
  <2>1. ~closed
    BY <1>4, OwnersKnown
  <2>2. Call(r).people \cap (invited \cup Persons) = {}
    BY <1>1, <1>2 DEF Serves, Inviting, Call
  <2>3. ASSUME NEW local, local.step = "inviteCharge", local.call = Call(r),
               local.known = Call(r).people \cap users
        PROVE  Serves(local)
    BY <1>2, <2>1, <2>2, <2>3 DEF Serves, Inviting
  <2>4. "inviteCharge" \notin NothingAhead
    BY DEF NothingAhead
  <2> QED  BY <1>1, <1>4, <2>3, <2>4, Quieter DEF Keeps, ReadyNow
<1>5. Owners = {} => Goes(r, "failed")
  BY DEF InviteFind
<1>6. Owners = {} => Becomes(r, "failed", request[r].order, request[r].known, request[r].listed)
  BY <1>5, Going DEF CoreInv, Status
<1> QED  BY <1>3, <1>4, <1>6, InviteFindMoves DEF CoreInv

LEMMA InviteChargeKeeps ==
  ASSUME CoreInv, RosterInv, NEW r \in Requests, InviteCharge(r)
  PROVE  Keeps
<1>1. /\ request[r].step = "inviteCharge" /\ request[r].step \in Steps \ NothingAhead
      /\ UNCHANGED <<rows, invited, closed, memberCount>>
  BY DEF InviteCharge, At, Steps, NothingAhead, tables, redis
<1>2. Call(r).op = "invite" /\ Serves(request[r])
  BY <1>1, AtWork DEF StepsOf, CallType
<1>3. CASE Becomes(r, "failed", request[r].order, request[r].known, request[r].listed)
  BY <1>1, <1>3, QuietEnd DEF Keeps
<1>4. CASE \E o \in Free : Becomes(r, "inviteResult", o, request[r].known, request[r].listed)
  <2>1. PICK o : Becomes(r, "inviteResult", o, request[r].known, request[r].listed)
    BY <1>4
  <2>2. ASSUME NEW local, local.step = "inviteResult", local.call = Call(r),
               local.known = request[r].known
        PROVE  Serves(local)
    BY <1>1, <1>2, <2>2 DEF Serves, Inviting, Call
  <2>3. "inviteResult" \notin NothingAhead
    BY DEF NothingAhead
  <2> QED  BY <1>1, <2>1, <2>2, <2>3, Quieter DEF Keeps, ReadyNow
<1> QED  BY <1>3, <1>4, InviteChargeMoves DEF CoreInv

LEMMA InviteResultKeeps ==
  ASSUME CoreInv, RosterInv, NEW r \in Requests, InviteResult(r)
  PROVE  Keeps
<1>1. /\ request[r].step = "inviteResult" /\ request[r].step \in Steps \ NothingAhead
      /\ UNCHANGED <<rows, invited, closed, memberCount>>
      /\ Goes(r, "inviteCount")
  BY DEF InviteResult, At, Steps, NothingAhead, tables
<1>2. Call(r).op = "invite" /\ Serves(request[r])
  BY <1>1, AtWork DEF StepsOf, CallType
<1>3. Becomes(r, "inviteCount", request[r].order, request[r].known, request[r].listed)
  BY <1>1, Going DEF CoreInv, Status, Steps
<1>4. ASSUME NEW local, local.step = "inviteCount", local.call = Call(r),
             local.known = request[r].known
      PROVE  Serves(local)
  BY <1>1, <1>2, <1>4 DEF Serves, Inviting, Call
<1>5. "inviteCount" \notin NothingAhead
  BY DEF NothingAhead
<1> QED  BY <1>1, <1>3, <1>4, <1>5, Quieter DEF Keeps, ReadyNow

LEMMA InviteCountKeeps ==
  ASSUME CoreInv, RosterInv, NEW r \in Requests, InviteCount(r)
  PROVE  Keeps
<1>1. /\ request[r].step = "inviteCount" /\ request[r].step \in Steps
      /\ UNCHANGED <<rows, invited, closed>> /\ ~At(r, "joinCommit")
      /\ memberCount' = memberCount + Cardinality(Call(r).people)
      /\ Goes(r, "inviteCommit")
  BY DEF InviteCount, At, Steps, tables
<1>2. Call(r).op = "invite" /\ Serves(request[r]) /\ (~closed => memberCount = Total + Ahead(r))
  BY <1>1, AtWork DEF StepsOf, CallType
<1>3. Becomes(r, "inviteCommit", request[r].order, request[r].known, request[r].listed)
  BY <1>1, Going DEF CoreInv, Status, Steps
<1>4. ASSUME NEW local, local.step = "inviteCommit", local.call = Call(r),
             local.known = request[r].known
      PROVE  Serves(local)
  BY <1>1, <1>2, <1>4 DEF Serves, Inviting, Call
<1>5. Ahead(r) = 0 /\ Ahead(r)' = Cardinality(Call(r).people)
  BY <1>1, <1>3 DEF Ahead, Becomes, Call
<1>6. ~closed => memberCount' = Total + Ahead(r)'
  <2>1. Total \in Nat
    BY MembersAre DEF CoreInv
  <2> QED  BY <1>1, <1>2, <1>5, <2>1
<1> QED  BY <1>1, <1>3, <1>4, <1>6, Quiet DEF Keeps, ReadyNow

LEMMA InvitePlanKeeps ==
  ASSUME CoreInv, RosterInv, NEW r \in Requests, InvitePlan(r)
  PROVE  Keeps
<1>1. /\ request[r].step = "invitePlan" /\ request[r].step \in Steps
      /\ UNCHANGED <<rows, invited, closed, memberCount>> /\ ~At(r, "joinCommit")
      /\ Goes(r, "inviteSet")
  BY DEF InvitePlan, At, Steps, tables
<1>2. Call(r).op = "invite" /\ Serves(request[r]) /\ (~closed => memberCount = Total + Ahead(r))
  BY <1>1, AtWork DEF StepsOf, CallType
<1>3. Becomes(r, "inviteSet", request[r].order, request[r].known, request[r].listed)
  BY <1>1, Going DEF CoreInv, Status, Steps
<1>4. ASSUME NEW local, local.step = "inviteSet", local.call = Call(r),
             local.known = request[r].known
      PROVE  Serves(local)
  BY <1>1, <1>2, <1>4 DEF Serves, Inviting, Call
<1>5. Ahead(r)' = Ahead(r)
  BY <1>1, <1>3 DEF Ahead, Becomes
<1> QED  BY <1>1, <1>2, <1>3, <1>4, <1>5, Quiet DEF Keeps, ReadyNow

LEMMA JoinFindKeeps ==
  ASSUME CoreInv, RosterInv, NEW r \in Requests, JoinFind(r)
  PROVE  Keeps
<1>1. /\ request[r].step = "joinFind" /\ request[r].step \in Steps \ NothingAhead
      /\ UNCHANGED <<rows, invited, closed, memberCount>> /\ ~At(r, "joinCommit")
  BY DEF JoinFind, At, Steps, NothingAhead, tables, redis
<1>2. /\ Call(r).op = "join" /\ Serves(request[r]) /\ Call(r) \in Calls
      /\ (~closed => memberCount = Total + Ahead(r))
  BY <1>1, AtWork, Serving DEF StepsOf, CallType, CoreInv
<1>3. PICK p \in People : Call(r).people = {p}
  BY <1>2, MembershipAssumption
<1>4. CASE Becomes(r, "joinCommit", NoOrder, {}, request[r].listed)
  <2>1. ASSUME NEW local, local.step = "joinCommit", local.call = Call(r),
               local.order = NoOrder, local.known = {}
        PROVE  Serves(local)
    BY <1>2, <2>1 DEF Serves, SigningUp
  <2>2. Ahead(r) = 0 /\ Ahead(r)' = 0
    <3>1. Cardinality({}) = 0
      BY FS_EmptySet
    <3> QED  BY <1>1, <1>4, <3>1 DEF Ahead, Becomes
  <2> QED  BY <1>1, <1>2, <1>4, <2>1, <2>2, Quiet DEF Keeps, ReadyNow
<1>5. CASE \E found, o : /\ found = Call(r).people \cap invited /\ found # {}
                         /\ Becomes(r, "joinOrder", o, found, request[r].listed)
  <2>1. PICK found, o : /\ found = Call(r).people \cap invited /\ found # {}
                        /\ Becomes(r, "joinOrder", o, found, request[r].listed)
    BY <1>5
  <2>2. ASSUME NEW local, local.step = "joinOrder", local.call = Call(r)
        PROVE  Serves(local)
    BY <1>2, <1>3, <2>1, <2>2 DEF Serves, SigningUp
  <2>3. "joinOrder" \notin NothingAhead
    BY DEF NothingAhead
  <2> QED  BY <1>1, <2>1, <2>2, <2>3, Quieter DEF Keeps, ReadyNow
<1> QED  BY <1>4, <1>5, JoinFindMoves DEF CoreInv

(* Invitations name an order that is there, so that it is found.            *)
LEMMA JoinOrderKeeps ==
  ASSUME CoreInv, RosterInv, NEW r \in Requests, JoinOrder(r)
  PROVE  Keeps
<1>1. /\ request[r].step = "joinOrder" /\ request[r].step \in Steps \ NothingAhead
      /\ UNCHANGED <<rows, invited, closed, memberCount>>
  BY DEF JoinOrder, At, Steps, NothingAhead, tables, redis
<1>2. Call(r).op = "join" /\ Serves(request[r]) /\ r \in InFlight
  BY <1>1, AtWork DEF StepsOf, CallType
<1>3. request[r].order \in Orders /\ orders[request[r].order] # NoOrder
  <2>1. request[r].step \notin Unordered \cup Charging \cup {"joinCommit", "closeCommit"}
    BY <1>1 DEF Unordered, Charging
  <2>2. HandlerInv(r)
    BY DEF CoreInv, HandlersInv
  <2>3. request[r].order \in Orders
    BY <1>2, <2>1, <2>2 DEF HandlerInv
  <2> QED  BY <1>2, <2>1, <2>2, <2>3, MembershipAssumption DEF HandlerInv
<1>4. PICK o : o = request[r].order /\ o \in Orders /\ orders[o] # NoOrder
  BY <1>3
<1>5. Becomes(r, "joinComplete", o, request[r].known, orders[o].profileIds)
  BY <1>4, JoinOrderMoves DEF CoreInv
<1>6. ASSUME NEW local, local.step = "joinComplete", local.call = Call(r)
      PROVE  Serves(local)
  BY <1>1, <1>2, <1>6 DEF Serves, SigningUp, Call
<1>7. "joinComplete" \notin NothingAhead
  BY DEF NothingAhead
<1> QED  BY <1>1, <1>5, <1>6, <1>7, Quieter DEF Keeps, ReadyNow

LEMMA RemoveFindKeeps ==
  ASSUME CoreInv, RosterInv, NEW r \in Requests, RemoveFind(r)
  PROVE  Keeps
<1>1. /\ request[r].step = "removeFind" /\ request[r].step \in Steps \ NothingAhead
      /\ UNCHANGED <<rows, invited, closed, memberCount>>
  BY DEF RemoveFind, At, Steps, NothingAhead, tables, redis
<1>2. Call(r).op = "remove" /\ Call(r).target \in Ids
  BY <1>1, AtWork DEF StepsOf, CallType
<1>3. CASE Goes(r, "refused")
  <2>1. Becomes(r, "refused", request[r].order, request[r].known, request[r].listed)
    BY <1>3, Going DEF CoreInv, Status
  <2> QED  BY <1>1, <2>1, QuietEnd DEF Keeps
<1>4. CASE Goes(r, "removeOrder") /\ IsRow(Call(r).target) /\ MayRemove(Call(r))
  <2>1. Becomes(r, "removeOrder", request[r].order, request[r].known, request[r].listed)
    BY <1>4, Going DEF CoreInv, Status, Steps
  <2>2. Call(r).target \in Members \ Owners
    BY <1>2, <1>4, MembersAre DEF CoreInv, MayRemove
  <2>3. ASSUME NEW local, local.step = "removeOrder", local.call = Call(r)
        PROVE  Serves(local)
    BY <1>2, <2>2, <2>3 DEF Serves, Removing
  <2>4. "removeOrder" \notin NothingAhead
    BY DEF NothingAhead
  <2> QED  BY <1>1, <2>1, <2>3, <2>4, Quieter DEF Keeps, ReadyNow
<1> QED  BY <1>3, <1>4 DEF RemoveFind

(* A removal on its way, which knows the member from the first step on.     *)
LEMMA RemovalGoesOn ==
  ASSUME CoreInv, RosterInv, NEW r \in Requests, Call(r).op = "remove",
         request[r].step \in Steps \ (NothingAhead \cup {"removeFind"}),
         UNCHANGED <<rows, invited, closed, memberCount>>,
         NEW s \in {"removeTeam", "refundRead", "refundCall", "refundSave", "removeOwner",
                    "removeCommit"},
         NEW o, NEW known, NEW listed, Becomes(r, s, o, known, listed)
  PROVE  Keeps
<1>1. Call(r).target \in Members \ Owners
  <2>1. Serves(request[r]) /\ request[r].step # "removeCount"
    BY AtWork DEF NothingAhead
  <2> QED  BY <2>1 DEF Serves, Removing, Call
<1>2. s \notin NothingAhead /\ s # "withdrawDelete"
  BY DEF NothingAhead
<1>3. ASSUME NEW local, local.step = s, local.call = Call(r) PROVE Serves(local)
  BY <1>1, <1>2, <1>3 DEF Serves, Removing
<1> QED  BY <1>2, <1>3, Quieter DEF Keeps, ReadyNow

LEMMA RemoveOrderKeeps ==
  ASSUME CoreInv, RosterInv, NEW r \in Requests, RemoveOrder(r)
  PROVE  Keeps
<1>1. /\ request[r].step = "removeOrder"
      /\ request[r].step \in Steps \ (NothingAhead \cup {"removeFind"})
      /\ UNCHANGED <<rows, invited, closed, memberCount>>
  BY DEF RemoveOrder, At, Steps, NothingAhead, tables, redis
<1>2. Call(r).op = "remove"
  BY <1>1, AtWork DEF StepsOf, CallType
<1>3. CASE Becomes(r, "failed", request[r].order, request[r].known, request[r].listed)
  BY <1>1, <1>3, QuietEnd DEF Keeps
<1>4. CASE \E o \in Orders : Becomes(r, "removeTeam", o, request[r].known, request[r].listed)
  BY <1>1, <1>2, <1>4, RemovalGoesOn
<1> QED  BY <1>3, <1>4, RemoveOrderMoves DEF CoreInv

LEMMA RemoveTeamKeeps ==
  ASSUME CoreInv, RosterInv, NEW r \in Requests, RemoveTeam(r)
  PROVE  Keeps
<1>1. /\ request[r].step = "removeTeam"
      /\ request[r].step \in Steps \ (NothingAhead \cup {"removeFind"})
      /\ UNCHANGED <<rows, invited, closed, memberCount>>
  BY DEF RemoveTeam, At, Steps, NothingAhead, tables, redis
<1>2. Call(r).op = "remove"
  BY <1>1, AtWork DEF StepsOf, CallType
<1>3. CASE Goes(r, "failed")
  <2>1. Becomes(r, "failed", request[r].order, request[r].known, request[r].listed)
    BY <1>3, Going DEF CoreInv, Status
  <2> QED  BY <1>1, <2>1, QuietEnd DEF Keeps
<1>4. CASE Goes(r, "refundRead")
  <2>1. Becomes(r, "refundRead", request[r].order, request[r].known, request[r].listed)
    BY <1>4, Going DEF CoreInv, Status, Steps
  <2> QED  BY <1>1, <1>2, <2>1, RemovalGoesOn
<1> QED  BY <1>3, <1>4 DEF RemoveTeam

LEMMA RemoveOwnerKeeps ==
  ASSUME CoreInv, RosterInv, NEW r \in Requests, RemoveOwner(r)
  PROVE  Keeps
<1>1. /\ request[r].step = "removeOwner"
      /\ request[r].step \in Steps \ (NothingAhead \cup {"removeFind"})
      /\ UNCHANGED <<rows, invited, closed, memberCount>>
  BY DEF RemoveOwner, At, Steps, NothingAhead, tables, redis
<1>2. Call(r).op = "remove"
  BY <1>1, AtWork DEF StepsOf, CallType
<1>3. CASE Goes(r, "failed")
  <2>1. Becomes(r, "failed", request[r].order, request[r].known, request[r].listed)
    BY <1>3, Going DEF CoreInv, Status
  <2> QED  BY <1>1, <2>1, QuietEnd DEF Keeps
<1>4. CASE Goes(r, "removeCommit")
  <2>1. Becomes(r, "removeCommit", request[r].order, request[r].known, request[r].listed)
    BY <1>4, Going DEF CoreInv, Status, Steps
  <2> QED  BY <1>1, <1>2, <2>1, RemovalGoesOn
<1> QED  BY <1>3, <1>4 DEF RemoveOwner

(* The closing of a team on its way, which nobody and nothing stops.        *)
LEMMA ClosingGoesOn ==
  ASSUME CoreInv, RosterInv, NEW r \in Requests, Call(r).op = "close",
         request[r].step \in Steps \ (NothingAhead \cup {"closeProfiles", "closeInvitations"}),
         UNCHANGED <<rows, invited, closed, memberCount>>,
         NEW s \in {"refundRead", "refundCall", "refundSave", "closeCommit"},
         NEW o, NEW known, NEW listed, Becomes(r, s, o, known, listed)
  PROVE  Keeps
<1>1. ~closed /\ Owners = {Call(r).token.id} /\ Members = Owners /\ invited = {}
  <2>1. Serves(request[r])
    BY AtWork
  <2> QED  BY <2>1 DEF Serves, Closing, Call
<1>2. s \notin NothingAhead /\ s # "withdrawDelete"
  BY DEF NothingAhead
<1>3. ASSUME NEW local, local.step = s, local.call = Call(r) PROVE Serves(local)
  BY <1>1, <1>2, <1>3 DEF Serves, Closing
<1> QED  BY <1>2, <1>3, Quieter DEF Keeps, ReadyNow

(* A refund, of a removal or of a closing.                                  *)
LEMMA RefundGoesOn ==
  ASSUME CoreInv, RosterInv, NEW r \in Requests, request[r].step \in Refunding,
         UNCHANGED <<rows, invited, closed, memberCount>>,
         NEW s, s \in {"failed", "refundCall", "refundSave"} \/ s = AfterRefund(r), Goes(r, s)
  PROVE  Keeps
<1>1. /\ request[r].step \in Steps \ (NothingAhead \cup {"removeFind"})
      /\ request[r].step \in Steps \ (NothingAhead \cup {"closeProfiles", "closeInvitations"})
  BY DEF Refunding, Steps, NothingAhead
<1>2. Call(r).op \in {"remove", "close"} /\ (Op(r, "close") <=> Call(r).op = "close")
  BY <1>1, AtWork DEF StepsOf, CallType, Refunding
<1>3. s \in Status
  BY DEF Status, Steps, AfterRefund
<1>4. Becomes(r, s, request[r].order, request[r].known, request[r].listed)
  BY <1>3, Going DEF CoreInv
<1>5. CASE s = "failed"
  BY <1>1, <1>4, <1>5, QuietEnd DEF Keeps
<1>6. CASE s # "failed" /\ Call(r).op = "remove"
  <2>1. s \in {"refundCall", "refundSave", "removeOwner"}
    BY <1>2, <1>6 DEF AfterRefund
  <2> QED  BY <1>1, <1>4, <1>6, <2>1, RemovalGoesOn
<1>7. CASE s # "failed" /\ Call(r).op = "close"
  <2>1. s \in {"refundCall", "refundSave", "closeCommit"}
    BY <1>2, <1>7 DEF AfterRefund
  <2> QED  BY <1>1, <1>4, <1>7, <2>1, ClosingGoesOn
<1> QED  BY <1>2, <1>5, <1>6, <1>7

LEMMA RefundReadKeeps ==
  ASSUME CoreInv, RosterInv, NEW r \in Requests, RefundRead(r)
  PROVE  Keeps
<1>1. request[r].step \in Refunding /\ UNCHANGED <<rows, invited, closed, memberCount>>
  BY DEF RefundRead, At, Refunding, tables, redis
<1>2. PICK s : (s \in {"failed", "refundCall"} \/ s = AfterRefund(r)) /\ Goes(r, s)
  <2>0. Op(r, "remove") => AfterRefund(r) = "removeOwner"
    BY DEF Op, AfterRefund
  <2>1. CASE result[request[r].order] = "paid"
    BY <2>0, <2>1 DEF RefundRead
  <2>2. CASE result[request[r].order] = "cancelled"
    BY <2>0, <2>2 DEF RefundRead
  <2>3. CASE result[request[r].order] \notin {"paid", "cancelled"}
    BY <2>0, <2>3 DEF RefundRead, AfterRefund
  <2> QED  BY <2>1, <2>2, <2>3
<1> QED  BY <1>1, <1>2, RefundGoesOn

LEMMA RefundCallKeeps ==
  ASSUME CoreInv, RosterInv, NEW r \in Requests, RefundCall(r)
  PROVE  Keeps
<1>1. request[r].step \in Refunding /\ UNCHANGED <<rows, invited, closed, memberCount>>
  BY DEF RefundCall, At, Refunding, tables, redis
<1>2. PICK s : (s = "refundSave" \/ s = AfterRefund(r)) /\ Goes(r, s)
  BY DEF RefundCall
<1> QED  BY <1>1, <1>2, RefundGoesOn

LEMMA RefundSaveKeeps ==
  ASSUME CoreInv, RosterInv, NEW r \in Requests, RefundSave(r)
  PROVE  Keeps
<1>1. /\ request[r].step \in Refunding /\ UNCHANGED <<rows, invited, closed, memberCount>>
      /\ Goes(r, AfterRefund(r))
  BY DEF RefundSave, At, Refunding, tables
<1> QED  BY <1>1, RefundGoesOn

LEMMA RolesCheckKeeps ==
  ASSUME CoreInv, RosterInv, NEW r \in Requests, RolesCheck(r)
  PROVE  Keeps
<1>1. /\ request[r].step = "rolesCheck" /\ request[r].step \in Steps \ NothingAhead
      /\ UNCHANGED <<rows, invited, closed, memberCount>>
  BY DEF RolesCheck, At, Steps, NothingAhead, tables, redis
<1>2. Call(r).op = "roles" /\ Serves(request[r])
  BY <1>1, AtWork DEF StepsOf, CallType
<1>3. CASE Goes(r, "refused")
  <2>1. Becomes(r, "refused", request[r].order, request[r].known, request[r].listed)
    BY <1>3, Going DEF CoreInv, Status
  <2> QED  BY <1>1, <2>1, QuietEnd DEF Keeps
<1>4. CASE Goes(r, "rolesCommit") /\ (Call(r).role = "OWNER" => Call(r).token.role = "OWNER")
  <2>1. Becomes(r, "rolesCommit", request[r].order, request[r].known, request[r].listed)
    BY <1>4, Going DEF CoreInv, Status, Steps
  <2>2. ASSUME NEW local, local.step = "rolesCommit", local.call = Call(r)
        PROVE  Serves(local)
    BY <1>2, <1>4, <2>2 DEF Serves, ChangingRoles, Call
  <2>3. "rolesCommit" \notin NothingAhead
    BY DEF NothingAhead
  <2> QED  BY <1>1, <2>1, <2>2, <2>3, Quieter DEF Keeps, ReadyNow
<1> QED  BY <1>3, <1>4 DEF RolesCheck

(* An owner who is alone is the only member, ...                            *)
LEMMA CloseProfilesKeeps ==
  ASSUME CoreInv, RosterInv, NEW r \in Requests, CloseProfiles(r)
  PROVE  Keeps
<1>1. /\ request[r].step = "closeProfiles" /\ request[r].step \in Steps \ NothingAhead
      /\ UNCHANGED <<rows, invited, closed, memberCount>>
  BY DEF CloseProfiles, At, Steps, NothingAhead, tables, redis
<1>2. Call(r).op = "close" /\ Serves(request[r])
  BY <1>1, AtWork DEF StepsOf, CallType
<1>3. CASE Goes(r, "refused")
  <2>1. Becomes(r, "refused", request[r].order, request[r].known, request[r].listed)
    BY <1>3, Going DEF CoreInv, Status
  <2> QED  BY <1>1, <2>1, QuietEnd DEF Keeps
<1>4. CASE Goes(r, "closeInvitations") /\ ~(Cardinality(Members) > 1)
  <2>1. Becomes(r, "closeInvitations", request[r].order, request[r].known, request[r].listed)
    BY <1>4, Going DEF CoreInv, Status, Steps
  <2>2. ~closed /\ Owners = {Call(r).token.id}
    BY <1>2 DEF Serves, Closing, Call
  <2>3. Members = Owners
    <3>1. PICK i : Owners = {i}
      BY <2>2
    <3>2. Owners \subseteq Members /\ IsFiniteSet(Members) /\ Cardinality(Members) \in Nat
      BY MembersAre DEF CoreInv
    <3>3. Cardinality(Owners) = 1
      BY <3>1, OneElement
    <3>4. Cardinality(Owners) = Cardinality(Members)
      <4>1. Cardinality(Owners) <= Cardinality(Members)
        BY <3>2, FS_Subset
      <4> QED  BY <1>4, <3>2, <3>3, <4>1
    <3> QED  BY <3>2, <3>4, FS_Subset
  <2>4. ASSUME NEW local, local.step = "closeInvitations", local.call = Call(r)
        PROVE  Serves(local)
    BY <1>2, <2>2, <2>3, <2>4 DEF Serves, Closing
  <2>5. "closeInvitations" \notin NothingAhead
    BY DEF NothingAhead
  <2> QED  BY <1>1, <2>1, <2>4, <2>5, Quieter DEF Keeps, ReadyNow
<1> QED  BY <1>3, <1>4 DEF CloseProfiles

LEMMA CloseInvitationsKeeps ==
  ASSUME CoreInv, RosterInv, NEW r \in Requests, CloseInvitations(r)
  PROVE  Keeps
<1>1. /\ request[r].step = "closeInvitations" /\ request[r].step \in Steps \ NothingAhead
      /\ UNCHANGED <<rows, invited, closed, memberCount>>
  BY DEF CloseInvitations, At, Steps, NothingAhead, tables, redis
<1>2. Call(r).op = "close" /\ Serves(request[r])
  BY <1>1, AtWork DEF StepsOf, CallType
<1>3. CASE Goes(r, "refused")
  <2>1. Becomes(r, "refused", request[r].order, request[r].known, request[r].listed)
    BY <1>3, Going DEF CoreInv, Status
  <2> QED  BY <1>1, <2>1, QuietEnd DEF Keeps
<1>4. CASE Goes(r, "closeOrder") /\ invited = {}
  <2>1. Becomes(r, "closeOrder", request[r].order, request[r].known, request[r].listed)
    BY <1>4, Going DEF CoreInv, Status, Steps
  <2>2. ASSUME NEW local, local.step = "closeOrder", local.call = Call(r)
        PROVE  Serves(local)
    BY <1>1, <1>2, <1>4, <2>2 DEF Serves, Closing, Call
  <2>3. "closeOrder" \notin NothingAhead
    BY DEF NothingAhead
  <2> QED  BY <1>1, <2>1, <2>2, <2>3, Quieter DEF Keeps, ReadyNow
<1> QED  BY <1>3, <1>4 DEF CloseInvitations

LEMMA CloseOrderKeeps ==
  ASSUME CoreInv, RosterInv, NEW r \in Requests, CloseOrder(r)
  PROVE  Keeps
<1>1. /\ request[r].step = "closeOrder" /\ request[r].step \in Steps \ NothingAhead
      /\ request[r].step \in Steps \ (NothingAhead \cup {"closeProfiles", "closeInvitations"})
      /\ UNCHANGED <<rows, invited, closed, memberCount>>
  BY DEF CloseOrder, At, Steps, NothingAhead, tables, redis
<1>2. Call(r).op = "close"
  BY <1>1, AtWork DEF StepsOf, CallType
<1>3. PICK s, o : /\ s \in {"failed", "refundRead", "closeCommit"}
                  /\ Becomes(r, s, o, request[r].known, request[r].listed)
  BY CloseOrderMoves DEF CoreInv
<1>4. CASE s = "failed"
  BY <1>1, <1>3, <1>4, QuietEnd DEF Keeps
<1>5. CASE s # "failed"
  BY <1>1, <1>2, <1>3, <1>5, ClosingGoesOn
<1> QED  BY <1>4, <1>5

-----------------------------------------------------------------------------
(* Steps of the roster: what they do to the people, the invitations and the *)
(* owner.                                                                   *)
Invitees == invited \cup Joining

LEMMA RosterEnrols ==
  ASSUME NEW someone \in SUBSET People, TheOwner # Nobody, TheOwner' = TheOwner,
         Persons' = Persons \cup someone, Invitees' = Invitees
  PROVE  Roster!Next
<1>1. Roster!Enrol(someone)
  BY DEF Roster!Enrol, Persons, Invitees
<1> QED  BY <1>1 DEF Roster!Next

LEMMA RosterInvites ==
  ASSUME NEW someone \in SUBSET People, TheOwner # Nobody, TheOwner' = TheOwner,
         Persons' = Persons, Invitees' = Invitees \cup someone
  PROVE  Roster!Next
<1>1. Roster!Invite(someone)
  BY DEF Roster!Invite, Persons, Invitees
<1> QED  BY <1>1 DEF Roster!Next

LEMMA RosterJoins ==
  ASSUME NEW p \in People, p \in Invitees, TheOwner' = TheOwner,
         Persons' = Persons \cup {p}, Invitees' = Invitees \ {p}
  PROVE  Roster!Next
<1>1. Roster!Join(p)
  BY DEF Roster!Join, Persons, Invitees
<1> QED  BY <1>1 DEF Roster!Next

LEMMA RosterWithdraws ==
  ASSUME NEW p \in People, p \in Invitees, TheOwner' = TheOwner,
         Persons' = Persons, Invitees' = Invitees \ {p}
  PROVE  Roster!Next
<1>1. Roster!Withdraw(p)
  BY DEF Roster!Withdraw, Persons, Invitees
<1> QED  BY <1>1 DEF Roster!Next

LEMMA RosterLeaves ==
  ASSUME NEW p \in People, p \in Persons \ {TheOwner}, TheOwner' = TheOwner,
         Persons' = Persons \ {p}, Invitees' = Invitees
  PROVE  Roster!Next
<1>1. Roster!Leave(p)
  BY DEF Roster!Leave, Persons, Invitees
<1> QED  BY <1>1 DEF Roster!Next

LEMMA RosterHandsOver ==
  ASSUME NEW p \in People, p \in Persons \ {TheOwner}, TheOwner' = p,
         Persons' = Persons, Invitees' = Invitees
  PROVE  Roster!Next
<1>1. Roster!HandOver(p)
  BY DEF Roster!HandOver, Persons, Invitees
<1> QED  BY <1>1 DEF Roster!Next

LEMMA RosterCloses ==
  ASSUME Persons = {TheOwner}, Invitees = {}, Invitees' = {}, Persons' = {}, TheOwner' = Nobody
  PROVE  Roster!Next
<1>1. Roster!Close
  BY DEF Roster!Close, Persons, Invitees
<1> QED  BY <1>1 DEF Roster!Next

LEMMA RosterStays ==
  ASSUME Persons' = Persons, Invitees' = Invitees, TheOwner' = TheOwner
  PROVE  UNCHANGED Roster!vars
  BY DEF Roster!vars, Persons, Invitees

(* Who has invitations or will, when the handler at work has gone on.       *)
LEMMA InviteesThen ==
  ASSUME CoreInv, RosterInv, NEW r \in Requests, request[r].step \in Steps,
         NEW s, NEW o, NEW known, NEW listed, Becomes(r, s, o, known, listed)
  PROVE  /\ ~At(r, "joinCommit") => Invitees = invited
         /\ At(r, "joinCommit") /\ request[r].order # NoOrder =>
               Invitees = invited \cup request[r].known
         /\ At(r, "joinCommit") /\ request[r].order = NoOrder => Invitees = invited
         /\ s # "joinCommit" => Invitees' = invited'
         /\ s = "joinCommit" /\ o # NoOrder /\ Call(r).op = "join" => Invitees' = invited' \cup known
<1>1. /\ \A q \in Requests \ {r} : request[q].step \notin Steps
      /\ Op(r, "join") <=> Call(r).op = "join"
      /\ At(r, "joinCommit") => Call(r).op = "join"
  BY AtWork DEF At, StepsOf, CallType
<1> QED  BY <1>1, JoiningIs, JoiningBecomes DEF Invitees

(* Sizes.                                                                   *)
LEMMA SizeOfBoth ==
  ASSUME NEW S, NEW T, IsFiniteSet(S), IsFiniteSet(T), S \cap T = {}
  PROVE  /\ Cardinality(S \cup T) = Cardinality(S) + Cardinality(T)
         /\ Cardinality(S) \in Nat /\ Cardinality(T) \in Nat
<1>1. Cardinality(S) \in Nat /\ Cardinality(T) \in Nat /\ Cardinality(S \cap T) = 0
  BY FS_CardinalityType, FS_EmptySet
<1>2. Cardinality(S \cup T) = Cardinality(S) + Cardinality(T) - Cardinality(S \cap T)
  BY FS_Union
<1> QED  BY <1>1, <1>2

LEMMA SizeOfRest ==
  ASSUME NEW S, NEW T \in SUBSET S, IsFiniteSet(S)
  PROVE  /\ Cardinality(S) = Cardinality(S \ T) + Cardinality(T)
         /\ Cardinality(S \ T) \in Nat /\ Cardinality(T) \in Nat
<1>1. IsFiniteSet(T) /\ IsFiniteSet(S \ T)
  BY FS_Subset
<1>2. (S \ T) \cap T = {} /\ (S \ T) \cup T = S
  OBVIOUS
<1> QED  BY <1>1, <1>2, SizeOfBoth

(* People who get a profile.                                                *)
LEMMA EnrolledPeople ==
  ASSUME TypeOK, NEW ids \in SUBSET Ids, NEW known \in SUBSET People,
         Cardinality(ids) = Cardinality(known), NEW new \in Numbering(known, ids),
         Enrol(ids, new)
  PROVE  /\ Members' = Members \cup ids /\ ids \cap Members = {}
         /\ Persons' = Persons \cup known /\ Owners' = Owners
         /\ \A i \in Owners : rows'[i] = rows[i]
         /\ Cardinality(Members') = Cardinality(Members) + Cardinality(known)
<1>1. Members' = Members \cup ids
  BY Enrolled
<1>2. ids \cap Members = {}
  BY MembershipAssumption DEF Enrol, Members, IsRow
<1>3. new \in [ids -> known]
  BY DEF Numbering
<1>4. \A i \in Ids : rows'[i] = IF i \in ids THEN NewRow(new[i]) ELSE rows[i]
  BY DEF Enrol
<1>5. \A p \in known : \E i \in ids : new[i] = p
  <2>1. new \in Injection(ids, known)
    BY <1>3 DEF Numbering, Injection, IsInjective
  <2>2. IsFiniteSet(known)
    BY Finite
  <2>3. new \in Surjection(ids, known)
    BY <2>1, <2>2, FS_Injection
  <2> QED  BY <2>3 DEF Surjection
<1>6. Members \subseteq Ids /\ Owners \subseteq Members
  BY MembersAre
<1>7. \A i \in Members : rows'[i] = rows[i]
  BY <1>2, <1>4, <1>6
<1>8. ASSUME NEW i \in ids PROVE rows'[i].person = new[i] /\ rows'[i].role = "MEMBER"
  <2>1. rows'[i] = NewRow(new[i])
    BY <1>4
  <2> QED  BY <2>1 DEF NewRow
<1>9. Persons' = Persons \cup known
  <2>1. ASSUME NEW p \in Persons' PROVE p \in Persons \cup known
    <3>1. PICK i \in Members' : p = rows'[i].person
      BY DEF Persons
    <3>2. CASE i \in ids
      BY <1>3, <1>8, <3>1, <3>2
    <3>3. CASE i \in Members
      BY <1>7, <3>1, <3>3 DEF Persons
    <3> QED  BY <1>1, <3>1, <3>2, <3>3
  <2>2. ASSUME NEW p \in Persons PROVE p \in Persons'
    <3>1. PICK i \in Members : p = rows[i].person
      BY DEF Persons
    <3>2. i \in Members' /\ p = rows'[i].person
      BY <1>1, <1>7, <3>1
    <3> QED  BY <3>2 DEF Persons
  <2>3. ASSUME NEW p \in known PROVE p \in Persons'
    <3>1. PICK i \in ids : p = new[i]
      BY <1>5
    <3>2. i \in Members' /\ p = rows'[i].person
      BY <1>1, <1>8, <3>1
    <3> QED  BY <3>2 DEF Persons
  <2> QED  BY <2>1, <2>2, <2>3
<1>10. Owners' = Owners
  <2>1. \A i \in ids : i \notin Owners' /\ i \notin Owners
    BY <1>2, <1>6, <1>8 DEF Owners
  <2>2. \A i \in Members : i \in Owners' <=> i \in Owners
    BY <1>1, <1>7 DEF Owners
  <2>3. Owners' \subseteq Members'
    BY DEF Owners
  <2> QED  BY <1>1, <1>6, <2>1, <2>2, <2>3
<1>11. Cardinality(Members') = Cardinality(Members) + Cardinality(known)
  <2>1. IsFiniteSet(ids) /\ IsFiniteSet(Members)
    BY Finite, MembersAre
  <2> QED  BY <1>1, <1>2, <2>1, SizeOfBoth
<1> QED  BY <1>1, <1>2, <1>6, <1>7, <1>9, <1>10, <1>11

-----------------------------------------------------------------------------
(* The steps that count, ...                                                *)
LEMMA CountKeeps ==
  ASSUME CoreInv, RosterInv, NEW r \in Requests, RemoveCount(r) \/ WithdrawCount(r)
  PROVE  Keeps
<1>1. /\ request[r].step \in {"removeCount", "withdrawCount"} /\ request[r].step \in Steps
      /\ UNCHANGED <<rows, invited, closed>> /\ ~At(r, "joinCommit")
      /\ memberCount' = memberCount - 1 /\ Goes(r, "done")
  BY DEF RemoveCount, WithdrawCount, At, Steps, tables
<1>2. Becomes(r, "done", request[r].order, request[r].known, request[r].listed)
  BY <1>1, Going DEF CoreInv, Status
<1>3. Ahead(r) = 1 /\ Ahead(r)' = 0
  BY <1>1, <1>2 DEF Ahead, Becomes
<1>4. ~closed => memberCount' = Total + Ahead(r)'
  <2>1. Total \in Nat /\ (~closed => memberCount = Total + Ahead(r))
    BY <1>1, AtWork, MembersAre DEF CoreInv
  <2> QED  BY <1>1, <1>3, <2>1
<1>5. "done" \notin Steps
  BY DEF Steps
<1> QED  BY <1>1, <1>2, <1>4, <1>5, Quiet DEF Keeps, ReadyNow

(* ... one that changes no profile but to active, ...                       *)
LEMMA AcceptKeeps ==
  ASSUME CoreInv, RosterInv, NEW r \in Requests, Accept(r)
  PROVE  Keeps
<1>1. /\ request[r].step = "accept" /\ request[r].step \in Steps
      /\ UNCHANGED <<invited, closed, memberCount>> /\ Goes(r, "done")
      /\ rows' = [i \in Ids |->
            IF IsRow(i) /\ rows[i].person = Call(r).token.user
            THEN [rows[i] EXCEPT !.active = TRUE] ELSE rows[i]]
  BY DEF Accept, At, Steps, redis
<1>2. Becomes(r, "done", request[r].order, request[r].known, request[r].listed)
  BY <1>1, Going DEF CoreInv, Status
<1>3. /\ Members \subseteq Ids /\ Owners \subseteq Members
      /\ \A i \in Members : rows[i] \in RowType
      /\ \A i \in Ids : i \in Members <=> IsRow(i)
      /\ Total \in Nat
  BY MembersAre DEF CoreInv
<1>4. ASSUME NEW i \in Members
      PROVE  rows'[i] \in RowType /\ rows'[i].person = rows[i].person /\ rows'[i].role = rows[i].role
  BY <1>1, <1>3 DEF RowType
<1>5. ASSUME NEW i \in Ids, i \notin Members PROVE rows'[i] = rows[i]
  BY <1>1, <1>3, <1>5
<1>6. Members' = Members
  BY <1>3, <1>4, <1>5 DEF Members, IsRow
<1>7. Owners' = Owners /\ Persons' = Persons /\ Total' = Total
  BY <1>1, <1>4, <1>6 DEF Owners, Persons, Total
<1>8. TheOwner' = TheOwner
  BY <1>3, <1>4, <1>7, SameOwner
<1>9. Invitees = invited /\ Invitees' = invited'
  BY <1>1, <1>2, InviteesThen DEF At
<1>10. Ahead(r) = 0 /\ Ahead(r)' = 0
  BY <1>1, <1>2 DEF Ahead, Becomes
<1>11. ~closed' => memberCount' = Total' + Ahead(r)'
  BY <1>1, <1>7, <1>10, AtWork
<1>12. "done" \notin Steps
  BY DEF Steps
<1>13. IF closed' THEN Members' = {} /\ invited' = {} ELSE \E i \in Ids : Owners' = {i}
  BY <1>1, <1>6, <1>7 DEF RosterInv
<1>14. Persons' \cap (invited \cup Joining)' = {}
  BY <1>1, <1>7, <1>9 DEF RosterInv, Invitees
<1>15. RosterInv'
  BY <1>1, <1>2, <1>3, <1>7, <1>11, <1>12, <1>13, <1>14, Onward DEF Ready
<1> QED  BY <1>1, <1>7, <1>8, <1>9, <1>15, RosterStays DEF Keeps

(* ... those that make profiles, ...                                        *)
LEMMA InviteCommitKeeps ==
  ASSUME CoreInv, RosterInv, NEW r \in Requests, InviteCommit(r)
  PROVE  Keeps
<1>1. /\ request[r].step = "inviteCommit" /\ request[r].step \in Steps
      /\ UNCHANGED <<invited, closed, memberCount>> /\ Goes(r, "invitePlan")
  BY DEF InviteCommit, At, Steps, redis
<1>2. PICK known : known = request[r].known
  OBVIOUS
<1>3. /\ Call(r).op = "invite" /\ Serves(request[r]) /\ Call(r).people \subseteq People
      /\ (~closed => memberCount = Total + Ahead(r))
  BY <1>1, AtWork DEF StepsOf, CallType
<1>4. /\ ~closed /\ known \subseteq Call(r).people
      /\ Call(r).people \cap (invited \cup Persons) = {}
  BY <1>1, <1>2, <1>3 DEF Serves, Inviting, Call
<1>5. PICK ids \in SUBSET Ids :
         /\ Cardinality(ids) = Cardinality(known)
         /\ \E new \in Numbering(known, ids) : Enrol(ids, new)
  BY <1>2 DEF InviteCommit
<1>6. /\ Members' = Members \cup ids /\ ids \cap Members = {}
      /\ Persons' = Persons \cup known /\ Owners' = Owners
      /\ \A i \in Owners : rows'[i] = rows[i]
      /\ Cardinality(Members') = Cardinality(Members) + Cardinality(known)
  BY <1>3, <1>4, <1>5, EnrolledPeople DEF CoreInv
<1>7. Becomes(r, "invitePlan", request[r].order, request[r].known, request[r].listed)
  BY <1>1, Going DEF CoreInv, Status, Steps
<1>8. Invitees = invited /\ Invitees' = invited'
  BY <1>1, <1>7, InviteesThen DEF At
<1>9. TheOwner' = TheOwner
  BY <1>6, SameOwner
<1>10. TheOwner # Nobody
  <2>1. PICK i \in Members : TheOwner = rows[i].person /\ rows[i] \in RowType
    BY <1>4, OwnersKnown, MembersAre DEF CoreInv
  <2> QED  BY <2>1, MembershipAssumption DEF RowType
<1>11. /\ Ahead(r) = Cardinality(Call(r).people)
       /\ Ahead(r)' = Cardinality(Call(r).people \ known)
  BY <1>1, <1>2, <1>7 DEF Ahead, Becomes, Call
<1>12. Total' = Total + Cardinality(known) /\ Total \in Nat /\ Total' \in Int
       /\ memberCount' = Total' + Ahead(r)'
  <2>1. Cardinality(Members) \in Nat /\ Cardinality(invited) \in Nat
    BY MembersAre DEF CoreInv
  <2>2. /\ Cardinality(Call(r).people) = Cardinality(Call(r).people \ known) + Cardinality(known)
        /\ Cardinality(Call(r).people \ known) \in Nat /\ Cardinality(known) \in Nat
    BY <1>3, <1>4, Finite, SizeOfRest
  <2>3. Total = Cardinality(Members) + Cardinality(invited)
        /\ Total' = Cardinality(Members') + Cardinality(invited)
    BY <1>1 DEF Total
  <2> QED  BY <1>1, <1>3, <1>4, <1>6, <1>11, <2>1, <2>2, <2>3
<1>13. ASSUME NEW local, local.step = "invitePlan", local.call = Call(r), local.known = known
       PROVE  Serves(local)'
  BY <1>1, <1>3, <1>4, <1>6, <1>13 DEF Serves, Inviting
<1>14. Ready(r, "invitePlan", request[r].order, request[r].known)
  BY <1>2, <1>13 DEF Ready
<1>15. \E i \in Ids : Owners' = {i}
  BY <1>4, <1>6 DEF RosterInv
<1>16. Persons' \cap (invited \cup Joining)' = {}
  BY <1>1, <1>4, <1>6, <1>8 DEF RosterInv, Invitees
<1>17. RosterInv'
  BY <1>1, <1>4, <1>7, <1>12, <1>14, <1>15, <1>16, Onward
<1>18. Roster!Next
  <2>1. known \in SUBSET People
    BY <1>3, <1>4
  <2> QED  BY <1>1, <1>6, <1>8, <1>9, <1>10, <2>1, RosterEnrols
<1> QED  BY <1>17, <1>18 DEF Keeps

LEMMA InviteSetKeeps ==
  ASSUME CoreInv, RosterInv, NEW r \in Requests, InviteSet(r)
  PROVE  Keeps
<1>1. /\ request[r].step = "inviteSet" /\ request[r].step \in Steps
      /\ UNCHANGED <<rows, closed, memberCount>> /\ Goes(r, "done")
      /\ invited' = invited \cup (Call(r).people \ request[r].known)
  BY DEF InviteSet, At, Steps, tables
<1>2. PICK others : others = Call(r).people \ request[r].known
  OBVIOUS
<1>3. /\ Call(r).op = "invite" /\ Serves(request[r]) /\ Call(r).people \subseteq People
      /\ (~closed => memberCount = Total + Ahead(r))
  BY <1>1, AtWork DEF StepsOf, CallType
<1>4. ~closed /\ others \cap (invited \cup Persons) = {}
  BY <1>1, <1>2, <1>3 DEF Serves, Inviting, Call
<1>5. Becomes(r, "done", request[r].order, request[r].known, request[r].listed)
  BY <1>1, Going DEF CoreInv, Status
<1>6. Members' = Members /\ Owners' = Owners /\ Persons' = Persons
  BY <1>1 DEF Members, Owners, Persons, IsRow
<1>7. Invitees = invited /\ Invitees' = invited'
  BY <1>1, <1>5, InviteesThen DEF At
<1>8. TheOwner' = TheOwner
  BY <1>1, <1>6, SameOwner
<1>9. TheOwner # Nobody
  <2>1. PICK i \in Members : TheOwner = rows[i].person /\ rows[i] \in RowType
    BY <1>4, OwnersKnown, MembersAre DEF CoreInv
  <2> QED  BY <2>1, MembershipAssumption DEF RowType
<1>10. Ahead(r) = Cardinality(others) /\ Ahead(r)' = 0
  BY <1>1, <1>2, <1>5 DEF Ahead, Becomes, Call
<1>11. Total' \in Int /\ memberCount' = Total' + Ahead(r)'
  <2>1. /\ Cardinality(invited \cup others) = Cardinality(invited) + Cardinality(others)
        /\ Cardinality(invited) \in Nat /\ Cardinality(others) \in Nat
    BY <1>2, <1>3, <1>4, Finite, SizeOfBoth, MembersAre DEF CoreInv
  <2>2. Cardinality(Members) \in Nat
    BY MembersAre DEF CoreInv
  <2>3. Total = Cardinality(Members) + Cardinality(invited)
        /\ Total' = Cardinality(Members) + Cardinality(invited \cup others)
    BY <1>1, <1>2, <1>6 DEF Total
  <2> QED  BY <1>1, <1>3, <1>4, <1>10, <2>1, <2>2, <2>3
<1>12. "done" \notin Steps
  BY DEF Steps
<1>13. \E i \in Ids : Owners' = {i}
  BY <1>4, <1>6 DEF RosterInv
<1>14. Persons' \cap (invited \cup Joining)' = {}
  BY <1>1, <1>2, <1>4, <1>6, <1>7 DEF RosterInv, Invitees
<1>15. RosterInv'
  BY <1>1, <1>4, <1>5, <1>11, <1>12, <1>13, <1>14, Onward DEF Ready
<1>16. Roster!Next
  <2>1. others \in SUBSET People
    BY <1>2, <1>3
  <2> QED  BY <1>1, <1>2, <1>6, <1>7, <1>8, <1>9, <2>1, RosterInvites
<1> QED  BY <1>15, <1>16 DEF Keeps

(* ... a sign up, which uses its invitation up first, ...                   *)
LEMMA JoinCompleteKeeps ==
  ASSUME CoreInv, RosterInv, NEW r \in Requests, JoinComplete(r)
  PROVE  Keeps
<1>1. /\ request[r].step = "joinComplete" /\ request[r].step \in Steps
      /\ UNCHANGED <<rows, closed, memberCount>> /\ Goes(r, "joinCommit")
      /\ invited' = invited \ Call(r).people
  BY DEF JoinComplete, At, Steps, tables
<1>2. /\ Call(r).op = "join" /\ Serves(request[r]) /\ Call(r) \in Calls /\ r \in InFlight
      /\ (~closed => memberCount = Total + Ahead(r))
  BY <1>1, AtWork, Serving DEF StepsOf, CallType, CoreInv
<1>3. PICK p \in People : Call(r).people = {p}
  BY <1>2, MembershipAssumption
<1>4. Call(r).people \subseteq invited /\ ~closed
  <2>1. Call(r).people \subseteq invited
    BY <1>1, <1>2 DEF Serves, SigningUp, Call
  <2> QED  BY <1>3, <2>1, OwnersKnown
<1>5. request[r].known = Call(r).people /\ request[r].order \in Orders
  <2>1. request[r].step \notin Unordered \cup {"joinCommit", "closeCommit"}
    BY <1>1 DEF Unordered
  <2>2. HandlerInv(r)
    BY DEF CoreInv, HandlersInv
  <2> QED  BY <1>1, <1>2, <2>1, <2>2 DEF HandlerInv, Call
<1>6. PICK o, known : o = request[r].order /\ known = request[r].known
  OBVIOUS
<1>7. o # NoOrder /\ known = Call(r).people
  BY <1>5, <1>6, MembershipAssumption
<1>8. Becomes(r, "joinCommit", o, known, request[r].listed)
  <2>1. Becomes(r, "joinCommit", request[r].order, request[r].known, request[r].listed)
    BY <1>1, Going DEF CoreInv, Status, Steps
  <2> QED  BY <1>6, <2>1
<1>9. Members' = Members /\ Owners' = Owners /\ Persons' = Persons
  BY <1>1 DEF Members, Owners, Persons, IsRow
<1>10. Invitees = invited /\ Invitees' = invited
  <2>1. Invitees = invited
    BY <1>1, <1>8, InviteesThen DEF At
  <2>2. Invitees' = invited' \cup known
    BY <1>1, <1>2, <1>7, <1>8, InviteesThen
  <2> QED  BY <1>1, <1>4, <1>7, <2>1, <2>2
<1>11. TheOwner' = TheOwner
  BY <1>1, <1>9, SameOwner
<1>12. Ahead(r) = 0 /\ Ahead(r)' = Cardinality(known)
  BY <1>1, <1>8 DEF Ahead, Becomes
<1>13. Total' \in Int /\ memberCount' = Total' + Ahead(r)'
  <2>1. /\ Cardinality(invited) = Cardinality(invited \ known) + Cardinality(known)
        /\ Cardinality(invited \ known) \in Nat /\ Cardinality(known) \in Nat
    BY <1>4, <1>7, SizeOfRest, MembersAre DEF CoreInv
  <2>2. Cardinality(Members) \in Nat
    BY MembersAre DEF CoreInv
  <2>3. Total = Cardinality(Members) + Cardinality(invited)
        /\ Total' = Cardinality(Members) + Cardinality(invited \ known)
    BY <1>1, <1>7, <1>9 DEF Total
  <2> QED  BY <1>1, <1>2, <1>4, <1>12, <2>1, <2>2, <2>3
<1>14. ASSUME NEW local, local.step = "joinCommit", local.call = Call(r),
              local.order = o, local.known = known
       PROVE  Serves(local)'
  BY <1>1, <1>2, <1>4, <1>7, <1>14 DEF Serves, SigningUp
<1>15. \E i \in Ids : Owners' = {i}
  BY <1>4, <1>9 DEF RosterInv
<1>16. Persons' \cap (invited \cup Joining)' = {}
  BY <1>9, <1>10 DEF RosterInv, Invitees
<1>17. RosterInv'
  BY <1>1, <1>4, <1>8, <1>13, <1>14, <1>15, <1>16, Onward DEF Ready
<1> QED  BY <1>9, <1>10, <1>11, <1>17, RosterStays DEF Keeps

LEMMA JoinCommitKeeps ==
  ASSUME CoreInv, RosterInv, NEW r \in Requests, JoinCommit(r)
  PROVE  Keeps
<1>1. /\ request[r].step = "joinCommit" /\ request[r].step \in Steps
      /\ UNCHANGED <<invited, closed, memberCount>> /\ Goes(r, "done")
  BY DEF JoinCommit, At, Steps, redis
<1>2. /\ Call(r).op = "join" /\ Serves(request[r]) /\ Call(r) \in Calls
      /\ (~closed => memberCount = Total + Ahead(r))
  BY <1>1, AtWork, Serving DEF StepsOf, CallType, CoreInv
<1>3. PICK p \in People : Call(r).people = {p}
  BY <1>2, MembershipAssumption
<1>4. PICK known, o : known = request[r].known /\ o = request[r].order
  OBVIOUS
<1>5. \/ known = {} /\ o = NoOrder
      \/ known = {p} /\ o # NoOrder /\ ~closed /\ known \cap invited = {}
  BY <1>1, <1>2, <1>3, <1>4 DEF Serves, SigningUp, Call
<1>6. PICK ids \in SUBSET Ids :
         /\ Cardinality(ids) = Cardinality(known)
         /\ \E new \in Numbering(known, ids) : Enrol(ids, new)
  BY <1>4 DEF JoinCommit
<1>7. /\ Members' = Members \cup ids /\ ids \cap Members = {}
      /\ Persons' = Persons \cup known /\ Owners' = Owners
      /\ \A i \in Owners : rows'[i] = rows[i]
      /\ Cardinality(Members') = Cardinality(Members) + Cardinality(known)
  BY <1>5, <1>6, EnrolledPeople DEF CoreInv
<1>8. Becomes(r, "done", request[r].order, request[r].known, request[r].listed)
  BY <1>1, Going DEF CoreInv, Status
<1>9. /\ known = {} => Invitees = invited
      /\ known # {} => Invitees = invited \cup known
      /\ Invitees' = invited
  BY <1>1, <1>4, <1>5, <1>8, InviteesThen DEF At
<1>10. TheOwner' = TheOwner
  BY <1>7, SameOwner
<1>11. Ahead(r) = Cardinality(known) /\ Ahead(r)' = 0
  BY <1>1, <1>4, <1>8 DEF Ahead, Becomes
<1>12. Total' \in Int /\ (~closed => memberCount' = Total' + Ahead(r)')
  <2>1. /\ Cardinality(Members) \in Nat /\ Cardinality(invited) \in Nat
        /\ Cardinality(known) \in Nat
    BY <1>5, Finite, MembersAre DEF CoreInv
  <2>2. Total = Cardinality(Members) + Cardinality(invited)
        /\ Total' = Cardinality(Members') + Cardinality(invited)
    BY <1>1 DEF Total
  <2> QED  BY <1>1, <1>2, <1>7, <1>11, <2>1, <2>2
<1>13. "done" \notin Steps
  BY DEF Steps
<1>14. IF closed' THEN Members' = {} /\ invited' = {} ELSE \E i \in Ids : Owners' = {i}
  <2>1. CASE closed
    <3>1. known = {} /\ Members = {} /\ invited = {}
      BY <1>5, <2>1, OwnersKnown
    <3>2. ids = {}
      <4>1. IsFiniteSet(ids) /\ Cardinality(ids) = 0
        BY <1>6, <3>1, Finite, FS_EmptySet
      <4> QED  BY <4>1, FS_EmptySet
    <3> QED  BY <1>1, <1>7, <2>1, <3>1, <3>2
  <2>2. CASE ~closed
    BY <1>1, <1>7, <2>2 DEF RosterInv
  <2> QED  BY <2>1, <2>2
<1>15. Persons' \cap (invited \cup Joining)' = {}
  BY <1>1, <1>5, <1>7, <1>9 DEF RosterInv, Invitees
<1>16. RosterInv'
  BY <1>1, <1>8, <1>12, <1>13, <1>14, <1>15, Onward DEF Ready
<1>17. CASE known = {}
  BY <1>7, <1>9, <1>10, <1>16, <1>17, RosterStays DEF Keeps
<1>18. CASE known # {}
  <2>1. Invitees' = Invitees \ {p} /\ p \in Invitees /\ Persons' = Persons \cup {p}
    BY <1>5, <1>7, <1>9, <1>18
  <2> QED  BY <1>10, <1>16, <2>1, RosterJoins DEF Keeps
<1> QED  BY <1>17, <1>18

(* ... a removal and a withdrawal, ...                                      *)
LEMMA RemoveCommitKeeps ==
  ASSUME CoreInv, RosterInv, NEW r \in Requests, RemoveCommit(r)
  PROVE  Keeps
<1>1. PICK i : i = Call(r).target
  OBVIOUS
<1>2. /\ request[r].step = "removeCommit" /\ request[r].step \in Steps
      /\ UNCHANGED <<invited, closed, memberCount>> /\ Goes(r, "removeCount")
      /\ rows' = IF IsRow(i) THEN [rows EXCEPT ![i] = Gone] ELSE rows
  BY <1>1 DEF RemoveCommit, At, Steps, redis
<1>3. /\ Call(r).op = "remove" /\ Serves(request[r]) /\ i \in Ids
      /\ (~closed => memberCount = Total + Ahead(r))
  BY <1>1, <1>2, AtWork DEF StepsOf, CallType
<1>4. i \in Members \ Owners
  BY <1>1, <1>2, <1>3 DEF Serves, Removing, Call
<1>5. /\ Members \subseteq Ids /\ Owners \subseteq Members
      /\ \A j \in Ids : j \in Members <=> IsRow(j)
      /\ IsFiniteSet(Members) /\ Cardinality(Members) \in Nat /\ Cardinality(invited) \in Nat
      /\ rows[i] \in RowType
  BY <1>4, MembersAre DEF CoreInv
<1>6. /\ \A j \in Ids \ {i} : rows'[j] = rows[j]
      /\ rows'[i] = Gone
  <2>1. rows' = [rows EXCEPT ![i] = Gone] /\ rows \in [Ids -> RowType \cup {Unused, Gone}]
    BY <1>2, <1>4, <1>5 DEF CoreInv, TypeOK
  <2> QED  BY <1>3, <2>1
<1>7. Members' = Members \ {i}
  BY <1>5, <1>6, MembershipAssumption DEF Members, IsRow
<1>8. Owners' = Owners
  BY <1>4, <1>5, <1>6, <1>7 DEF Owners
<1>9. PICK p : p = rows[i].person /\ p \in People /\ p \in Persons
  BY <1>4, <1>5 DEF Persons, RowType
<1>10. Persons' = Persons \/ Persons' = Persons \ {p}
  <2>1. Persons' \subseteq Persons
    BY <1>5, <1>6, <1>7 DEF Persons
  <2>2. ASSUME NEW q \in Persons, q # p PROVE q \in Persons'
    <3>1. PICK j \in Members : q = rows[j].person
      BY DEF Persons
    <3>2. j \in Members' /\ rows'[j] = rows[j]
      BY <1>5, <1>6, <1>7, <1>9, <2>2, <3>1
    <3> QED  BY <3>1, <3>2 DEF Persons
  <2>3. CASE p \in Persons'
    BY <2>1, <2>2, <2>3
  <2>4. CASE p \notin Persons'
    BY <2>1, <2>2, <2>4
  <2> QED  BY <2>3, <2>4
<1>11. ~closed
  BY <1>4, OwnersKnown
<1>12. PICK k \in Owners : TheOwner = rows[k].person
  BY <1>11, OwnersKnown
<1>13. TheOwner' = TheOwner /\ TheOwner \in Persons'
  <2>1. \A j \in Owners : rows'[j] = rows[j]
    BY <1>4, <1>5, <1>6
  <2>2. TheOwner' = TheOwner
    BY <1>8, <2>1, SameOwner
  <2>3. k \in Members' /\ rows'[k].person = TheOwner
    BY <1>4, <1>5, <1>7, <1>12, <2>1
  <2> QED  BY <2>2, <2>3 DEF Persons
<1>14. Becomes(r, "removeCount", request[r].order, request[r].known, request[r].listed)
  BY <1>2, Going DEF CoreInv, Status, Steps
<1>15. Invitees = invited /\ Invitees' = invited
  BY <1>2, <1>14, InviteesThen DEF At
<1>16. Ahead(r) = 0 /\ Ahead(r)' = 1
  BY <1>2, <1>14 DEF Ahead, Becomes
<1>17. Total' \in Int /\ memberCount' = Total' + Ahead(r)'
  <2>1. Cardinality(Members') = Cardinality(Members) - 1
    BY <1>4, <1>5, <1>7, FS_RemoveElement
  <2>2. Total = Cardinality(Members) + Cardinality(invited)
        /\ Total' = Cardinality(Members') + Cardinality(invited)
    BY <1>2 DEF Total
  <2> QED  BY <1>2, <1>3, <1>5, <1>11, <1>16, <2>1, <2>2
<1>18. ASSUME NEW local, local.step = "removeCount", local.call = Call(r)
       PROVE  Serves(local)'
  BY <1>3, <1>18 DEF Serves, Removing
<1>19. \E j \in Ids : Owners' = {j}
  BY <1>8, <1>11 DEF RosterInv
<1>20. Persons' \cap (invited \cup Joining)' = {}
  BY <1>2, <1>10, <1>15 DEF RosterInv, Invitees
<1>21. RosterInv'
  BY <1>2, <1>11, <1>14, <1>17, <1>18, <1>19, <1>20, Onward DEF Ready
<1>22. CASE Persons' = Persons
  BY <1>13, <1>15, <1>21, <1>22, RosterStays DEF Keeps
<1>23. CASE Persons' = Persons \ {p}
  <2>1. p \in Persons \ {TheOwner}
    BY <1>9, <1>13, <1>23
  <2> QED  BY <1>9, <1>13, <1>15, <1>21, <1>23, <2>1, RosterLeaves DEF Keeps
<1> QED  BY <1>10, <1>22, <1>23

LEMMA WithdrawDeleteKeeps ==
  ASSUME CoreInv, RosterInv, NEW r \in Requests, WithdrawDelete(r)
  PROVE  Keeps
<1>1. /\ request[r].step = "withdrawDelete" /\ request[r].step \in Steps
      /\ UNCHANGED <<rows, closed, memberCount>> /\ Goes(r, "withdrawCount")
      /\ invited' = invited \ Call(r).people
  BY DEF WithdrawDelete, At, Steps, tables
<1>2. /\ Call(r).op = "withdraw" /\ Serves(request[r]) /\ Call(r) \in Calls
      /\ (~closed => memberCount = Total + Ahead(r))
  BY <1>1, AtWork, Serving DEF StepsOf, CallType, CoreInv
<1>3. PICK p \in People : Call(r).people = {p}
  BY <1>2, MembershipAssumption
<1>4. p \in invited /\ ~closed
  <2>1. p \in invited
    BY <1>1, <1>2, <1>3 DEF Serves, Call
  <2> QED  BY <2>1, OwnersKnown
<1>5. Becomes(r, "withdrawCount", request[r].order, request[r].known, request[r].listed)
  BY <1>1, Going DEF CoreInv, Status, Steps
<1>6. Members' = Members /\ Owners' = Owners /\ Persons' = Persons
  BY <1>1 DEF Members, Owners, Persons, IsRow
<1>7. Invitees = invited /\ Invitees' = invited \ {p}
  BY <1>1, <1>3, <1>5, InviteesThen DEF At
<1>8. TheOwner' = TheOwner
  BY <1>1, <1>6, SameOwner
<1>9. Ahead(r) = 0 /\ Ahead(r)' = 1
  BY <1>1, <1>5 DEF Ahead, Becomes
<1>10. Total' \in Int /\ memberCount' = Total' + Ahead(r)'
  <2>1. Cardinality(invited \ {p}) = Cardinality(invited) - 1
        /\ Cardinality(invited) \in Nat /\ Cardinality(Members) \in Nat
    BY <1>4, MembersAre, FS_RemoveElement DEF CoreInv
  <2>2. Total = Cardinality(Members) + Cardinality(invited)
        /\ Total' = Cardinality(Members) + Cardinality(invited \ {p})
    BY <1>1, <1>3, <1>6 DEF Total
  <2> QED  BY <1>1, <1>2, <1>4, <1>9, <2>1, <2>2
<1>11. ASSUME NEW local, local.step = "withdrawCount", local.call = Call(r)
       PROVE  Serves(local)'
  BY <1>2, <1>11 DEF Serves
<1>12. \E j \in Ids : Owners' = {j}
  BY <1>4, <1>6 DEF RosterInv
<1>13. Persons' \cap (invited \cup Joining)' = {}
  BY <1>6, <1>7 DEF RosterInv, Invitees
<1>14. RosterInv'
  BY <1>1, <1>4, <1>5, <1>10, <1>11, <1>12, <1>13, Onward DEF Ready
<1> QED  BY <1>4, <1>6, <1>7, <1>8, <1>14, RosterWithdraws DEF Keeps

(* ... the roles, the target's and that of an owner who hands over, ...     *)
LEMMA RolesChange ==
  ASSUME CoreInv, RosterInv, NEW r \in Requests, RolesCommit(r)
  PROVE  /\ Members' = Members /\ Persons' = Persons /\ \E i \in Ids : Owners' = {i}
         /\ \/ TheOwner' = TheOwner
            \/ TheOwner' \in Persons \ {TheOwner}
<1>1. PICK c, t, k : c = Call(r) /\ t = c.target /\ k = c.token.id
  OBVIOUS
<1>2. /\ request[r].step = "rolesCommit" /\ request[r].step \in Steps
      /\ rows' = WithRoles(c)
  BY <1>1 DEF RolesCommit, At, Steps
<1>3. c.op = "roles" /\ Serves(request[r]) /\ c \in Calls /\ t \in Ids /\ c.role \in Roles
  BY <1>1, <1>2, AtWork, Serving DEF StepsOf, CallType, CoreInv
<1>4. /\ IsRow(k) /\ rows[k].role = c.token.role
      /\ t \in Members \ Owners
      /\ c.role = "OWNER" => c.token.role = "OWNER"
  BY <1>1, <1>2, <1>3 DEF Serves, ChangingRoles, Call
<1>5. c.token \in TokenType /\ k \in Ids
  BY <1>1, <1>3, MembershipAssumption DEF CallType, TokenType
<1>6. /\ Members \subseteq Ids /\ Owners \subseteq Members
      /\ \A j \in Members : rows[j] \in RowType
      /\ \A j \in Ids : j \in Members <=> IsRow(j)
      /\ \A j \in Ids : j \in Owners <=> IsRow(j) /\ rows[j].role = "OWNER"
  BY MembersAre DEF CoreInv
<1>7. \A j \in Ids \ Members : rows'[j] = rows[j]
  BY <1>2, <1>6 DEF WithRoles
<1>8. ASSUME NEW j \in Members
      PROVE  /\ rows'[j] \in RowType /\ rows'[j].person = rows[j].person
             /\ rows'[j].role = IF j = k /\ c.role = "OWNER" THEN "MANAGER"
                                ELSE IF j = t THEN c.role ELSE rows[j].role
  <2>1. IsRow(j) /\ j \in Ids /\ rows[j] \in RowType /\ "MANAGER" \in Roles
    BY <1>6 DEF Roles
  <2>2. CASE j = k /\ c.role = "OWNER"
    <3>1. rows'[j] = [rows[j] EXCEPT !.role = "MANAGER"]
      BY <1>1, <1>2, <2>1, <2>2 DEF WithRoles
    <3> QED  BY <2>1, <2>2, <3>1 DEF RowType
  <2>3. CASE ~(j = k /\ c.role = "OWNER") /\ j = t
    <3>1. rows'[j] = [rows[j] EXCEPT !.role = c.role]
      BY <1>1, <1>2, <2>1, <2>3 DEF WithRoles
    <3> QED  BY <1>3, <2>1, <2>3, <3>1 DEF RowType
  <2>4. CASE ~(j = k /\ c.role = "OWNER") /\ j # t
    <3>1. rows'[j] = rows[j]
      BY <1>1, <1>2, <2>1, <2>4 DEF WithRoles
    <3> QED  BY <2>1, <2>4, <3>1
  <2> QED  BY <2>2, <2>3, <2>4
<1>9. Members' = Members
  BY <1>6, <1>7, <1>8, MembershipAssumption DEF Members, IsRow
<1>10. Persons' = Persons
  BY <1>8, <1>9 DEF Persons
<1>11. PICK i : Owners = {i} /\ i \in Members /\ TheOwner = rows[i].person
  BY <1>4, OwnersKnown
<1>12. CASE c.role = "OWNER"
  <2>1. k = i /\ t # k
    BY <1>4, <1>5, <1>6, <1>11, <1>12
  <2>2. Owners' = {t}
    <3>1. \A j \in Members : rows'[j].role = "OWNER" <=> j = t
      BY <1>4, <1>6, <1>8, <1>11, <1>12, <2>1
    <3> QED  BY <1>4, <1>9, <3>1 DEF Owners
  <2>3. TheOwner' = rows[t].person /\ rows[t].person \in Persons
    BY <1>4, <1>8, <2>2, OwnerIsThen DEF Persons
  <2> QED  BY <1>3, <1>9, <1>10, <2>2, <2>3
<1>13. CASE c.role # "OWNER"
  <2>1. \A j \in Members : rows'[j].role = "OWNER" <=> rows[j].role = "OWNER"
    BY <1>4, <1>6, <1>8, <1>13
  <2>2. Owners' = Owners
    BY <1>9, <2>1 DEF Owners
  <2>3. TheOwner' = TheOwner
    BY <1>6, <1>8, <2>2, SameOwner
  <2> QED  BY <1>6, <1>9, <1>10, <1>11, <2>2, <2>3
<1> QED  BY <1>12, <1>13

LEMMA RolesCommitKeeps ==
  ASSUME CoreInv, RosterInv, NEW r \in Requests, RolesCommit(r)
  PROVE  Keeps
<1>1. /\ request[r].step = "rolesCommit" /\ request[r].step \in Steps
      /\ UNCHANGED <<invited, closed, memberCount>> /\ Goes(r, "done")
  BY DEF RolesCommit, At, Steps, redis
<1>2. /\ Members' = Members /\ Persons' = Persons /\ \E i \in Ids : Owners' = {i}
      /\ TheOwner' = TheOwner \/ TheOwner' \in Persons \ {TheOwner}
  BY RolesChange
<1>3. ~closed /\ (~closed => memberCount = Total + Ahead(r))
  <2>1. Call(r).op = "roles" /\ Serves(request[r]) /\ (~closed => memberCount = Total + Ahead(r))
    BY <1>1, AtWork DEF StepsOf, CallType
  <2>2. Members # {}
    BY <2>1 DEF Serves, ChangingRoles, Call
  <2> QED  BY <2>1, <2>2, OwnersKnown
<1>4. Becomes(r, "done", request[r].order, request[r].known, request[r].listed)
  BY <1>1, Going DEF CoreInv, Status
<1>5. Invitees = invited /\ Invitees' = invited
  BY <1>1, <1>4, InviteesThen DEF At
<1>6. Ahead(r) = 0 /\ Ahead(r)' = 0
  BY <1>1, <1>4 DEF Ahead, Becomes
<1>7. Total' = Total /\ Total \in Nat
  BY <1>1, <1>2, MembersAre DEF Total, CoreInv
<1>8. "done" \notin Steps
  BY DEF Steps
<1>9. Persons' \cap (invited \cup Joining)' = {}
  BY <1>2, <1>5 DEF RosterInv, Invitees
<1>10. RosterInv'
  BY <1>1, <1>2, <1>3, <1>4, <1>6, <1>7, <1>8, <1>9, Onward DEF Ready
<1>11. CASE TheOwner' = TheOwner
  BY <1>2, <1>5, <1>10, <1>11, RosterStays DEF Keeps
<1>12. CASE TheOwner' \in Persons \ {TheOwner}
  <2>1. PICK p : p = TheOwner'
    OBVIOUS
  <2>2. p \in People /\ p \in Persons \ {TheOwner}
    BY <1>12, <2>1, MembersAre DEF CoreInv
  <2> QED  BY <1>2, <1>5, <1>10, <2>1, <2>2, RosterHandsOver DEF Keeps
<1> QED  BY <1>2, <1>11, <1>12

(* ... and the end of the team.                                             *)
LEMMA CloseCommitKeeps ==
  ASSUME CoreInv, RosterInv, NEW r \in Requests, CloseCommit(r)
  PROVE  Keeps
<1>1. request[r].step = "closeCommit" /\ request[r].step \in Steps /\ UNCHANGED invited
  BY DEF CloseCommit, At, Steps, redis
<1>2. Call(r).op = "close" /\ Serves(request[r])
  BY <1>1, AtWork DEF StepsOf, CallType
<1>3. ~closed /\ Members = Owners /\ invited = {}
  BY <1>1, <1>2 DEF Serves, Closing, Call
<1>4. /\ rows' = [i \in Ids |-> IF IsRow(i) THEN Gone ELSE rows[i]]
      /\ closed' /\ Goes(r, "done")
  BY <1>3 DEF CloseCommit
<1>5. Becomes(r, "done", request[r].order, request[r].known, request[r].listed)
  BY <1>4, Going DEF CoreInv, Status
<1>6. Members' = {}
  <2>1. \A i \in Ids : rows'[i] \notin RowType
    BY <1>4, MembershipAssumption DEF IsRow
  <2> QED  BY <2>1 DEF Members, IsRow
<1>7. Persons' = {} /\ Owners' = {}
  BY <1>6 DEF Persons, Owners
<1>8. TheOwner' = Nobody
  BY <1>7, OwnerIsThen
<1>9. Persons = {TheOwner}
  <2>1. PICK i : Owners = {i} /\ TheOwner = rows[i].person
    BY <1>3, OwnersKnown
  <2>2. Members = {i}
    BY <1>3, <2>1
  <2> QED  BY <2>1, <2>2 DEF Persons
<1>10. Invitees = {} /\ Invitees' = {}
  BY <1>1, <1>2, <1>3, <1>5, InviteesThen, AtWork DEF At
<1>11. "done" \notin Steps
  BY DEF Steps
<1>12. Persons' \cap (invited \cup Joining)' = {}
  BY <1>7
<1>13. RosterInv'
  BY <1>1, <1>3, <1>4, <1>5, <1>6, <1>11, <1>12, Onward DEF Ready
<1> QED  BY <1>7, <1>8, <1>9, <1>10, <1>13, RosterCloses DEF Keeps

-----------------------------------------------------------------------------
(* A handler at work keeps the roster, ...                                  *)
LEMMA RosterServe ==
  ASSUME CoreInv, RosterInv, NEW r \in Requests, Serve(r)
  PROVE  Keeps
<1>1. CASE \/ InviteFind(r) \/ InviteCharge(r) \/ InviteResult(r) \/ InviteCount(r)
           \/ InviteCommit(r) \/ InvitePlan(r) \/ InviteSet(r)
  BY <1>1, InviteFindKeeps, InviteChargeKeeps, InviteResultKeeps, InviteCountKeeps,
     InviteCommitKeeps, InvitePlanKeeps, InviteSetKeeps
<1>2. CASE JoinFind(r) \/ JoinOrder(r) \/ JoinComplete(r) \/ JoinCommit(r) \/ Accept(r)
  BY <1>2, JoinFindKeeps, JoinOrderKeeps, JoinCompleteKeeps, JoinCommitKeeps, AcceptKeeps
<1>3. CASE \/ RemoveFind(r) \/ RemoveOrder(r) \/ RemoveTeam(r) \/ RemoveOwner(r)
           \/ RemoveCommit(r) \/ RemoveCount(r)
  BY <1>3, RemoveFindKeeps, RemoveOrderKeeps, RemoveTeamKeeps, RemoveOwnerKeeps,
     RemoveCommitKeeps, CountKeeps
<1>4. CASE \/ RefundRead(r) \/ RefundCall(r) \/ RefundSave(r)
           \/ WithdrawDelete(r) \/ WithdrawCount(r) \/ RolesCheck(r) \/ RolesCommit(r)
  BY <1>4, RefundReadKeeps, RefundCallKeeps, RefundSaveKeeps, WithdrawDeleteKeeps, CountKeeps,
     RolesCheckKeeps, RolesCommitKeeps
<1>5. CASE CloseProfiles(r) \/ CloseInvitations(r) \/ CloseOrder(r) \/ CloseCommit(r)
  BY <1>5, CloseProfilesKeeps, CloseInvitationsKeeps, CloseOrderKeeps, CloseCommitKeeps
<1> QED  BY <1>1, <1>2, <1>3, <1>4, <1>5 DEF Serve

(* ... a proper request that comes in alone finds it in order, ...          *)
LEMMA ProperServes ==
  ASSUME CoreInv, RosterInv, NEW c \in Calls, Allowed(c), Proper(c),
         NEW local, local.call = c, local.step = First[c.op]
  PROVE  Serves(local)
<1>1. c \in CallType /\ (c.op # "join" => c.token \in TokenType)
  BY MembershipAssumption DEF CallType
<1>2. CASE c.op = "invite"
  <2>1. local.step = "inviteFind" /\ c.people \cap (invited \cup Persons) = {}
    BY <1>2 DEF First, Proper, Persons
  <2> QED  BY <1>2, <2>1 DEF Serves, Inviting
<1>3. CASE c.op = "join"
  <2>1. local.step = "joinFind"
    BY <1>3 DEF First
  <2> QED  BY <1>3, <2>1 DEF Serves, SigningUp
<1>4. CASE c.op = "accept"
  <2>1. local.step = "accept"
    BY <1>4 DEF First
  <2> QED  BY <1>4, <2>1 DEF Serves
<1>5. CASE c.op = "remove"
  <2>1. local.step = "removeFind"
    BY <1>5 DEF First
  <2> QED  BY <1>5, <2>1 DEF Serves, Removing
<1>6. CASE c.op = "withdraw"
  <2>1. c.people \subseteq invited
    BY <1>6 DEF Proper
  <2> QED  BY <1>6, <2>1 DEF Serves
<1>7. CASE c.op = "roles"
  <2>1. /\ local.step = "rolesCheck" /\ IsRow(c.token.id) /\ rows[c.token.id].role = c.token.role
        /\ IsRow(c.target) /\ c.target \notin Owners /\ c.target \in Ids
    BY <1>1, <1>7 DEF First, Proper, CallType
  <2> QED  BY <1>7, <2>1, MembersAre DEF Serves, ChangingRoles, CoreInv
<1>8. CASE c.op = "close"
  <2>1. /\ local.step = "closeProfiles" /\ IsRow(c.token.id)
        /\ rows[c.token.id].role = "OWNER" /\ c.token.id \in Ids
    BY <1>1, <1>8 DEF First, Proper, Allowed, TokenType
  <2>2. c.token.id \in Owners
    BY <2>1, MembersAre DEF CoreInv
  <2>3. ~closed /\ Owners = {c.token.id}
    BY <2>2, OwnersKnown
  <2> QED  BY <1>8, <2>1, <2>3 DEF Serves, Closing
<1> QED  BY <1>1, <1>2, <1>3, <1>4, <1>5, <1>6, <1>7, <1>8 DEF CallType

LEMMA RosterReceive ==
  ASSUME CoreInv, RosterInv, NEW r \in Requests, Receive(r), orderly'
  PROVE  Keeps
<1>1. PICK c \in Calls :
        /\ Allowed(c) /\ InFlight = {} /\ Proper(c)
        /\ request' = [request EXCEPT ![r].step = First[c.op], ![r].call = c]
  BY DEF Receive
<1>2. UNCHANGED <<rows, invited, closed, memberCount>>
  BY DEF Receive, tables, redis
<1>3. /\ request'[r].step = First[c.op] /\ request'[r].call = c
      /\ First[c.op] \in Steps /\ First[c.op] \notin NothingAhead
      /\ \A q \in Requests \ {r} : request'[q] = request[q]
  <2>1. First[c.op] \notin NothingAhead
    <3>1. c.op \in {"invite", "join", "accept", "remove", "withdraw", "roles", "close"}
      BY MembershipAssumption DEF CallType
    <3> QED  BY <3>1 DEF First, NothingAhead
  <2> QED  BY <1>1, <2>1, Coming DEF CoreInv
<1>4. \A q \in Requests : request[q].step \notin Steps
  BY <1>1 DEF InFlight
<1>5. Joining = {} /\ Joining' = {}
  <2>1. \A q \in Requests : ~At(q, "joinCommit") /\ ~At(q, "joinCommit")'
    BY <1>3, <1>4 DEF At, Steps, NothingAhead
  <2> QED  BY <2>1 DEF Joining
<1>6. /\ Members' = Members /\ Owners' = Owners /\ Persons' = Persons /\ Total' = Total
      /\ TheOwner' = TheOwner /\ \A local : Serves(local)' <=> Serves(local)
  BY <1>2, SameDemands
<1>7. Ahead(r)' = 0
  BY <1>3 DEF Ahead, NothingAhead
<1>8. InFlight' = {r}
  BY <1>3, <1>4 DEF InFlight
<1>9. Serves(request[r])'
  <2>1. PICK local : local = request'[r]
    OBVIOUS
  <2>2. Serves(local)'
    BY <1>1, <1>3, <1>6, <2>1, ProperServes
  <2> QED  BY <2>1, <2>2 DEF Serves, Inviting, SigningUp, Removing, ChangingRoles, Closing
<1>10. ~closed => memberCount = Total /\ Total \in Nat
  BY <1>1, MembersAre DEF RosterInv, CoreInv
<1>11. RosterInv'
  <2>1. IF closed' THEN Members' = {} /\ invited' = {} ELSE \E i \in Ids : Owners' = {i}
    BY <1>2, <1>6 DEF RosterInv
  <2>2. Persons' \cap (invited \cup Joining)' = {}
    BY <1>2, <1>5, <1>6 DEF RosterInv
  <2>3. ~closed' => memberCount' = Total' + Ahead(r)'
    BY <1>2, <1>6, <1>7, <1>10
  <2> QED  BY <1>8, <1>9, <2>1, <2>2, <2>3 DEF RosterInv
<1>12. Invitees' = Invitees
  BY <1>2, <1>5 DEF Invitees
<1> QED  BY <1>6, <1>11, <1>12, RosterStays DEF Keeps

(* ... and any other step leaves off to be orderly.                         *)
LEMMA OrderlyNext ==
  ASSUME CoreInv, OrderlyInv, Next, orderly'
  PROVE  Keeps
<1>1. PICK r \in Requests : Receive(r) \/ Serve(r) \/ Fail(r)
  BY DEF Next
<1>2. CASE Receive(r)
  <2>1. orderly
    BY <1>2 DEF Receive
  <2> QED  BY <1>2, <2>1, RosterReceive DEF OrderlyInv
<1>3. CASE Serve(r)
  <2>1. orderly
    BY <1>3 DEF Serve, InviteFind, InviteCharge, InviteResult, InviteCount, InviteCommit,
       InvitePlan, InviteSet, JoinFind, JoinOrder, JoinComplete, JoinCommit, Accept, RemoveFind,
       RemoveOrder, RemoveTeam, RemoveOwner, RemoveCommit, RemoveCount, RefundRead, RefundCall,
       RefundSave, WithdrawDelete, WithdrawCount, RolesCheck, RolesCommit, CloseProfiles,
       CloseInvitations, CloseOrder, CloseCommit
  <2> QED  BY <1>3, <2>1, RosterServe DEF OrderlyInv
<1>4. CASE Fail(r)
  BY <1>4 DEF Fail
<1> QED  BY <1>1, <1>2, <1>3, <1>4

LEMMA OrderlyIdles ==
  ASSUME OrderlyInv, UNCHANGED vars
  PROVE  OrderlyInv'
<1>1. UNCHANGED <<rows, invited, closed, memberCount, request, orderly>>
  BY DEF vars, tables, redis
<1>2. /\ Members' = Members /\ Owners' = Owners /\ Persons' = Persons /\ Total' = Total
      /\ \A local : Serves(local)' <=> Serves(local)
  BY <1>1, SameDemands
<1>3. /\ InFlight' = InFlight /\ Joining' = Joining
      /\ \A r \in InFlight : Ahead(r)' = Ahead(r)
  BY <1>1 DEF InFlight, Joining, Ahead, Op, Call, At
<1>4. \A r \in InFlight : Serves(request[r])' <=> Serves(request[r])
  BY <1>1, <1>2 DEF Serves, Inviting, SigningUp, Removing, ChangingRoles, Closing, IsRow
<1> QED  BY <1>1, <1>2, <1>3, <1>4 DEF OrderlyInv, RosterInv

LEMMA OrderlyInit == Init => OrderlyInv
<1> SUFFICES ASSUME Init PROVE RosterInv
  BY DEF OrderlyInv
<1>1. PICK s \in Starts :
        /\ rows = s.rows /\ invited = s.invited
        /\ memberCount = Cardinality({i \in Ids : s.rows[i] \in RowType}) + Cardinality(s.invited)
  BY DEF Init
<1>2. Members = {i \in Ids : s.rows[i] \in RowType}
  BY <1>1 DEF Members, IsRow
<1>3. PICK i \in Ids : \A j \in Ids : s.rows[j] \in RowType /\ s.rows[j].role = "OWNER" <=> j = i
  BY MembershipAssumption
<1>4. Owners = {i}
  BY <1>1, <1>2, <1>3 DEF Owners
<1>5. \A q \in Requests : request[q].step = "idle"
  BY DEF Init
<1>6. InFlight = {}
  BY <1>5 DEF InFlight, Steps
<1>7. Joining = {}
  <2>1. \A q \in Requests : ~At(q, "joinCommit")
    BY <1>5 DEF At
  <2> QED  BY <2>1 DEF Joining
<1>8. Persons \cap invited = {}
  <2>1. Persons \subseteq s.users
    BY <1>1, <1>2, MembershipAssumption DEF Persons
  <2> QED  BY <1>1, <2>1, MembershipAssumption
<1>9. ~closed /\ memberCount = Total
  BY <1>1, <1>2 DEF Init, Total
<1> QED  BY <1>4, <1>6, <1>7, <1>8, <1>9 DEF RosterInv

LEMMA OrderlyStep == CoreInv /\ OrderlyInv /\ [Next]_vars => OrderlyInv'
<1> SUFFICES ASSUME CoreInv, OrderlyInv, [Next]_vars PROVE OrderlyInv'
  OBVIOUS
<1>1. CASE Next
  BY <1>1, OrderlyNext DEF OrderlyInv, Keeps
<1>2. CASE UNCHANGED vars
  BY <1>2, OrderlyIdles
<1> QED  BY <1>1, <1>2

LEMMA OrderlyCorrect == Spec => [](CoreInv /\ OrderlyInv)
  BY CoreInit, CoreStep, OrderlyInit, OrderlyStep, PTL DEF Spec

(* While one proper request is served at a time, each step of the services  *)
(* is one of the roster: nobody joins without an invitation, the owner only *)
(* goes by handing over or with the team, and the member count, which is    *)
(* written at other times than the rows and the invitations, is right again *)
(* with the last step.                                                      *)
THEOREM RosterCorrect == Spec => OrderlyKeepsRoster
<1>1. CoreInv /\ OrderlyInv /\ [Next]_vars =>
        [orderly' => /\ Roster!OneOwner' /\ Roster!JoinOnce' /\ CountAgrees'
                     /\ Roster!Next \/ UNCHANGED Roster!vars]_vars
  <2> SUFFICES ASSUME CoreInv, OrderlyInv, Next, orderly'
               PROVE  /\ Roster!OneOwner' /\ Roster!JoinOnce' /\ CountAgrees'
                      /\ Roster!Next \/ UNCHANGED Roster!vars
    OBVIOUS
  <2>1. RosterInv' /\ (Roster!Next \/ UNCHANGED Roster!vars)
    BY OrderlyNext DEF Keeps
  <2>2. Roster!OneOwner'
    <3>1. CASE closed'
      <4>1. Persons' = {} /\ Owners' = {}
        BY <2>1, <3>1 DEF RosterInv, Persons, Owners
      <4> QED  BY <4>1, OwnerIsThen DEF Roster!OneOwner, Persons
    <3>2. CASE ~closed'
      <4>1. PICK i : Owners' = {i}
        BY <2>1, <3>2 DEF RosterInv
      <4>2. i \in Members' /\ TheOwner' = rows'[i].person
        BY <4>1, OwnerIsThen DEF Owners
      <4> QED  BY <4>2 DEF Roster!OneOwner
    <3> QED  BY <3>1, <3>2
  <2>3. Roster!JoinOnce'
    BY <2>1 DEF RosterInv, Roster!JoinOnce, Persons
  <2>4. CountAgrees'
    BY <2>1 DEF RosterInv, CountAgrees, Total
  <2> QED  BY <2>1, <2>2, <2>3, <2>4
<1> QED  BY <1>1, OrderlyCorrect, PTL DEF Spec, OrderlyKeepsRoster
=============================================================================
