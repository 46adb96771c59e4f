----------------------------- MODULE Membership -----------------------------
(***************************************************************************)
(* The members of one team: ProfilesService with its Redis repository, the  *)
(* part of UserService's sign up that takes up invitations, TeamService's   *)
(* deletion of the team, and what they do to orders, payments and the       *)
(* member count.                                                            *)
(*                                                                         *)
(* Four stores hold the state: MySQL (profile rows, orders, payments, the   *)
(* users), Redis (the invitations, the order each was paid with, the member *)
(* count, the plan, the last answer of the payment gateway) and Bootpay,    *)
(* the gateway itself.  The statements of one MySQL transaction take effect *)
(* together when it commits; calls to Redis and Bootpay inside it take      *)
(* effect at once and are not taken back when it rolls back.                *)
(*                                                                         *)
(* Payment is by billing key (a PayPal subscription is only validated); the *)
(* availabilities made or moved with a profile are those of Availability.   *)
(***************************************************************************)
EXTENDS Integers, FiniteSets

CONSTANTS
    People,
    Ids,             \* profile ids
    Orders,
    Unused, Gone,    \* a profile id not yet assigned, one of a deleted row
    NoOrder, NoCall, NoToken, Nobody,
    TeamOrder,       \* the order the team was bought with, or NoOrder
    Requests, Calls,
    Starts           \* the teams that earlier requests may have left

Roles == {"OWNER", "MANAGER", "MEMBER"}
RowType == [person : People, role : Roles, active : BOOLEAN]

(* What a token says of its bearer: his profile, its user and its role.     *)
TokenType == [id : Ids, user : People, role : Roles]

CallType ==
    [op : {"invite", "join", "accept", "remove", "withdraw", "roles", "close"},
     token : TokenType \cup {NoToken},   \* of the requester
     people : SUBSET People,
     target : Ids,
     role : Roles]

OrderType == [profileIds : SUBSET Ids]   \* a committed order is PLACED

StartType ==
    [rows : [Ids -> RowType \cup {Unused}],
     users : SUBSET People,
     orders : [Orders -> OrderType \cup {NoOrder}],
     invited : SUBSET People,
     invitedWith : Orders]         \* the order the invitations were paid with

ASSUME MembershipAssumption ==
    /\ Unused \notin RowType /\ Gone \notin RowType /\ Unused # Gone
    /\ NoOrder \notin Orders /\ NoOrder \notin OrderType
    /\ TeamOrder \in Orders \cup {NoOrder}
    /\ Nobody \notin People
    /\ NoToken \notin TokenType
    /\ Calls \subseteq CallType /\ NoCall \notin CallType
    /\ \A c \in Calls : c.token = NoToken <=> c.op = "join"
    /\ \A c \in Calls : c.op \in {"join", "withdraw"} => \E p \in People : c.people = {p}
    /\ Starts \subseteq StartType
    /\ \A s \in Starts :
          /\ TeamOrder \in Orders => s.orders[TeamOrder] = [profileIds |-> {}]
          /\ s.invited \cap s.users = {}
          /\ \A i \in Ids : s.rows[i] \in RowType => s.rows[i].person \in s.users
          /\ s.invited # {} => s.orders[s.invitedWith] # NoOrder
          /\ \E i \in Ids : \A j \in Ids :
                s.rows[j] \in RowType /\ s.rows[j].role = "OWNER" <=> j = i
    /\ IsFiniteSet(Ids)
    /\ IsFiniteSet(People)

(* Of the lists of the orders: members were listed when they came, unless   *)
(* they own the team.                                                       *)
ASSUME ListingAssumption ==
    \A s \in Starts : \A i \in Ids : s.rows[i] \in RowType =>
        \/ s.rows[i].role = "OWNER"
        \/ \E o \in Orders : s.orders[o] # NoOrder /\ i \in s.orders[o].profileIds

VARIABLES
    rows,        \* MySQL: the team's profile rows
    users,       \* MySQL: the people with an account
    orders,      \* MySQL: the team's orders
    closed,      \* MySQL: the team is deleted
    returned,    \* MySQL: the number of PARTIAL_REFUNDED payments of an order
    invited,     \* Redis: the invitations of the team
    orderOf,     \* Redis: the order an invitation was paid with
    memberCount, \* Redis
    plan,        \* Redis
    result,      \* Redis: the gateway's last answer for an order
    charged,     \* Bootpay: orders that were charged
    refunded,    \* Bootpay: orders that were cancelled
    request,     \* the local state of the handler of each request
    issued,      \* the tokens that may be in use
    orderly      \* observed by the properties: one proper request at a time

tables == <<rows, users, orders, closed, returned>>
redis == <<invited, orderOf, memberCount, plan, result>>
gateway == <<charged, refunded>>
vars == <<tables, redis, gateway, request, issued, orderly>>

-----------------------------------------------------------------------------
IsRow(i) == rows[i] \in RowType
Members == {i \in Ids : IsRow(i)}
Owners == {i \in Members : rows[i].role = "OWNER"}

Steps ==
    {"inviteFind", "inviteCharge", "inviteResult", "inviteCount",
     "inviteCommit", "invitePlan", "inviteSet", "joinFind", "joinOrder",
     "joinComplete", "joinCommit", "accept", "removeFind", "removeOrder", "removeTeam",
     "refundRead", "refundCall", "refundSave", "removeOwner", "removeCommit",
     "removeCount", "withdrawDelete", "withdrawCount", "rolesCheck",
     "rolesCommit", "closeProfiles", "closeInvitations", "closeOrder",
     "closeCommit"}

First ==
    [invite |-> "inviteFind", join |-> "joinFind", accept |-> "accept",
     remove |-> "removeFind", withdraw |-> "withdrawDelete",
     roles |-> "rolesCheck", close |-> "closeProfiles"]

RequestType ==
    [step : {"idle", "done", "refused", "failed"} \cup Steps,
     call : Calls \cup {NoCall},
     order : Orders \cup {NoOrder},   \* the order it makes or has found
     known : SUBSET People,           \* the accounts it has found
     listed : SUBSET Ids]             \* the profileIds it has read

TypeOK ==
    /\ rows \in [Ids -> RowType \cup {Unused, Gone}]
    /\ users \subseteq People
    /\ orders \in [Orders -> OrderType \cup {NoOrder}]
    /\ closed \in BOOLEAN
    /\ returned \in [Orders -> Nat]
    /\ invited \subseteq People
    /\ orderOf \in [People -> Orders \cup {NoOrder}]
    /\ memberCount \in Int
    /\ plan \in {"FREE", "PRO"}
    /\ result \in [Orders -> {"none", "paid", "cancelled"}]
    /\ charged \subseteq Orders
    /\ refunded \subseteq charged
    /\ request \in [Requests -> RequestType]
    /\ issued \subseteq TokenType
    /\ orderly \in BOOLEAN

Token(i, row) == [id |-> i, user |-> row.person, role |-> row.role]

Init ==
    /\ \E s \in Starts :
          LET given == {i \in Ids : s.rows[i] \in RowType}
              placed == {o \in Orders : s.orders[o] # NoOrder}
          IN
          /\ rows = s.rows
          /\ users = s.users
          /\ orders = s.orders
          /\ invited = s.invited
          /\ orderOf = [p \in People |-> IF p \in s.invited THEN s.invitedWith ELSE NoOrder]
          /\ memberCount = Cardinality(given) + Cardinality(s.invited)
          /\ plan = IF placed = {} THEN "FREE" ELSE "PRO"
          /\ result = [o \in Orders |-> IF o \in placed THEN "paid" ELSE "none"]
          /\ charged = placed
          /\ issued = {Token(i, s.rows[i]) : i \in given}
    /\ closed = FALSE
    /\ returned = [o \in Orders |-> 0]
    /\ refunded = {}
    /\ request = [r \in Requests |->
          [step |-> "idle", call |-> NoCall, order |-> NoOrder,
           known |-> {}, listed |-> {}]]
    /\ orderly = TRUE

-----------------------------------------------------------------------------
At(r, step) == request[r].step = step
Call(r) == request[r].call
Op(r, op) == Call(r) # NoCall /\ Call(r).op = op
Goes(r, step) == request' = [request EXCEPT ![r].step = step]
InFlight == {r \in Requests : request[r].step \in Steps}

(* A token says what was so when it was issued, and nothing reads the row   *)
(* to compare: a token keeps a role its profile no longer has.  The guards  *)
(* and validateProfileDeleteRequest look at the token alone.                *)
Allowed(c) ==
    CASE c.op \in {"invite", "roles"} -> c.token.role \in {"OWNER", "MANAGER"}
      [] c.op = "close" -> c.token.role = "OWNER"
      [] c.op = "remove" -> IF c.token.id = c.target THEN c.token.role # "OWNER"
                            ELSE c.token.role \in {"OWNER", "MANAGER"}
      [] OTHER -> TRUE

(* What the code leaves to its callers: tokens that are up to date, people  *)
(* who are invited once, invitations that are withdrawn once, and an owner  *)
(* who hands over to another member and whose role no one else changes.     *)
Proper(c) ==
    /\ c.op # "join" => IsRow(c.token.id) /\ rows[c.token.id].role = c.token.role
    /\ c.op = "invite" => c.people \cap (invited \cup {rows[i].person : i \in Members}) = {}
    /\ c.op = "withdraw" => c.people \subseteq invited
    /\ c.op = "roles" => IsRow(c.target) /\ c.target \notin Owners

Receive(r) ==
    /\ At(r, "idle")
    /\ \E c \in Calls :
          /\ Allowed(c)
          /\ c.op = "join" =>
                /\ c.people \cap users = {}
                /\ \A q \in Requests : Op(q, "join") => Call(q).people # c.people \/ At(q, "failed")
          /\ c.op # "join" => c.token \in issued
          /\ request' = [request EXCEPT ![r].step = First[c.op], ![r].call = c]
          /\ orderly' = (orderly /\ InFlight = {} /\ Proper(c))
    /\ UNCHANGED <<tables, redis, gateway, issued>>

(* A store or the gateway does not answer, or the worker ends: an open      *)
(* transaction is rolled back, what went to Redis and Bootpay stays.        *)
Fail(r) ==
    /\ r \in InFlight
    /\ Goes(r, "failed")
    /\ orderly' = FALSE
    /\ UNCHANGED <<tables, redis, gateway, issued>>

-----------------------------------------------------------------------------
(* createBulk: the accounts of the invited people and the owner are looked  *)
(* up before the transaction.                                               *)
InviteFind(r) ==
    /\ At(r, "inviteFind")
    /\ IF Owners = {} THEN Goes(r, "failed")
       ELSE request' = [request EXCEPT ![r].step = "inviteCharge",
                                       ![r].known = Call(r).people \cap users]
    /\ UNCHANGED <<tables, redis, gateway, issued, orderly>>

Free == {o \in Orders : orders[o] = NoOrder /\ \A r \in Requests : request[r].order # o}

(* Faulty: the charge is left for after the answer.                         *)
InviteChargeLater(r) ==
    /\ At(r, "inviteCharge")
    /\ \E o \in Free :
          request' = [request EXCEPT ![r].step = "inviteResult", ![r].order = o]
    /\ UNCHANGED <<tables, redis, gateway, issued, orderly>>

(* In the transaction the profiles, the order and the payment are saved and *)
(* the card is charged; the gateway may refuse.                             *)
InviteCharge(r) ==
    /\ At(r, "inviteCharge")
    /\ \/ \E o \in Free :
             /\ charged' = charged \cup {o}
             /\ request' = [request EXCEPT ![r].step = "inviteResult", ![r].order = o]
       \/ Goes(r, "failed") /\ UNCHANGED charged
    /\ UNCHANGED <<tables, redis, refunded, issued, orderly>>

InviteResult(r) ==
    /\ At(r, "inviteResult")
    /\ result' = [result EXCEPT ![request[r].order] = "paid"]
    /\ Goes(r, "inviteCount")
    /\ UNCHANGED <<tables, invited, orderOf, memberCount, plan, gateway, issued, orderly>>

(* Everyone invited is counted, with an account or without, and before the  *)
(* transaction commits.                                                     *)
InviteCount(r) ==
    /\ At(r, "inviteCount")
    /\ memberCount' = memberCount + Cardinality(Call(r).people)
    /\ Goes(r, "inviteCommit")
    /\ UNCHANGED <<tables, invited, orderOf, plan, result, gateway, issued, orderly>>

NewRow(p) == [person |-> p, role |-> "MEMBER", active |-> FALSE]

(* One row with a new id for each of the people.                            *)
Enrol(ids, new) ==
    /\ \A i \in ids : rows[i] = Unused
    /\ rows' = [i \in Ids |-> IF i \in ids THEN NewRow(new[i]) ELSE rows[i]]
    /\ issued' = issued \cup {Token(i, NewRow(new[i])) : i \in ids}

Numbering(people, ids) ==
    {new \in [ids -> people] : \A i, j \in ids : new[i] = new[j] => i = j}

(* Faulty: the order lists no profiles.                                     *)
OrderForNobody(ids) == [profileIds |-> {}]

OrderFor(ids) == [profileIds |-> ids]

InviteCommit(r) ==
    /\ At(r, "inviteCommit")
    /\ \E ids \in SUBSET Ids :
          /\ Cardinality(ids) = Cardinality(request[r].known)
          /\ \E new \in Numbering(request[r].known, ids) : Enrol(ids, new)
          /\ orders' = [orders EXCEPT ![request[r].order] = OrderFor(ids)]
    /\ Goes(r, "invitePlan")
    /\ UNCHANGED <<users, closed, returned, redis, gateway, orderly>>

(* setTeamPlanStatus is started when the pipe behind the transaction is     *)
(* put together, before the invitations are saved.                          *)
InvitePlan(r) ==
    /\ At(r, "invitePlan")
    /\ plan' = "PRO"
    /\ Goes(r, "inviteSet")
    /\ UNCHANGED <<tables, invited, orderOf, memberCount, result, gateway, issued, orderly>>

(* Faulty: who has an account is looked up again.                           *)
InviteSetStrangers(r) ==
    LET others == Call(r).people \ users IN
    /\ At(r, "inviteSet")
    /\ invited' = invited \cup others
    /\ orderOf' = [p \in People |-> IF p \in others THEN request[r].order ELSE orderOf[p]]
    /\ Goes(r, "done")
    /\ UNCHANGED <<tables, memberCount, plan, result, gateway, issued, orderly>>

(* The others are invited: those without an account when it was looked up.  *)
InviteSet(r) ==
    LET others == Call(r).people \ request[r].known IN
    /\ At(r, "inviteSet")
    /\ invited' = invited \cup others
    /\ orderOf' = [p \in People |-> IF p \in others THEN request[r].order ELSE orderOf[p]]
    /\ Goes(r, "done")
    /\ UNCHANGED <<tables, memberCount, plan, result, gateway, issued, orderly>>

-----------------------------------------------------------------------------
(* _createInvitedProfiles, in the transaction that creates the account: the *)
(* invitations of the new user with the orders they were paid with, ...     *)
JoinFind(r) ==
    LET found == Call(r).people \cap invited IN
    /\ At(r, "joinFind")
    /\ request' = [request EXCEPT ![r].known = found,
          ![r].order = IF found = {} THEN NoOrder ELSE orderOf[CHOOSE p \in found : TRUE],
          ![r].step = IF found = {} THEN "joinCommit" ELSE "joinOrder"]
    /\ UNCHANGED <<tables, redis, gateway, issued, orderly>>

(* ... the profiles listed by the order, read by another connection, ...    *)
JoinOrder(r) ==
    LET o == request[r].order IN
    /\ At(r, "joinOrder")
    /\ IF o \in Orders /\ orders[o] # NoOrder
       THEN request' = [request EXCEPT ![r].step = "joinComplete",
                                       ![r].listed = orders[o].profileIds]
       ELSE request' = [request EXCEPT ![r].step = "joinCommit", ![r].order = NoOrder]
    /\ UNCHANGED <<tables, redis, gateway, issued, orderly>>

(* ... and completeInvitation, still before the commit.  The entry of       *)
(* orderOf stays, for it is deleted under another field name.               *)
JoinComplete(r) ==
    /\ At(r, "joinComplete")
    /\ invited' = invited \ Call(r).people
    /\ Goes(r, "joinCommit")
    /\ UNCHANGED <<tables, orderOf, memberCount, plan, result, gateway, issued, orderly>>

JoinCommit(r) ==
    LET o == request[r].order IN
    /\ At(r, "joinCommit")
    /\ users' = users \cup Call(r).people
    /\ \E ids \in SUBSET Ids :
          /\ Cardinality(ids) = Cardinality(request[r].known)
          /\ \E new \in Numbering(request[r].known, ids) : Enrol(ids, new)
          /\ orders' = IF o = NoOrder THEN orders
                       ELSE [orders EXCEPT ![o] = OrderFor(request[r].listed \cup ids)]
    /\ Goes(r, "done")
    /\ UNCHANGED <<closed, returned, redis, gateway, orderly>>

(* patchAll: a user accepts, in all of his profiles.                        *)
Accept(r) ==
    /\ At(r, "accept")
    /\ rows' = [i \in Ids |->
          IF IsRow(i) /\ rows[i].person = Call(r).token.user
          THEN [rows[i] EXCEPT !.active = TRUE] ELSE rows[i]]
    /\ Goes(r, "done")
    /\ UNCHANGED <<users, orders, closed, returned, redis, gateway, issued, orderly>>

-----------------------------------------------------------------------------
(* Faulty: nothing keeps the owner.                                         *)
MayRemoveOwner(c) ==
    c.token.id # c.target =>
        \/ c.token.role = "OWNER"
        \/ c.token.role = "MANAGER" /\ rows[c.target].role # "MANAGER"

(* remove: validateDeleteProfilePermission compares the row of the target   *)
(* as it is now with the requester's token.                                 *)
MayRemove(c) ==
    /\ rows[c.target].role # "OWNER"
    /\ c.token.id # c.target =>
          \/ c.token.role = "OWNER"
          \/ c.token.role = "MANAGER" /\ rows[c.target].role # "MANAGER"

RemoveFind(r) ==
    /\ At(r, "removeFind")
    /\ IF IsRow(Call(r).target) /\ MayRemove(Call(r))
       THEN Goes(r, "removeOrder") ELSE Goes(r, "refused")
    /\ UNCHANGED <<tables, redis, gateway, issued, orderly>>

(* The order is found by the profiles it lists, and there is no way on      *)
(* without one, ...                                                         *)
RemoveOrder(r) ==
    LET found == {o \in Orders : orders[o] # NoOrder /\ Call(r).target \in orders[o].profileIds} IN
    /\ At(r, "removeOrder")
    /\ \/ \E o \in found :
             request' = [request EXCEPT ![r].step = "removeTeam", ![r].order = o]
       \/ found = {} /\ Goes(r, "failed")
    /\ UNCHANGED <<tables, redis, gateway, issued, orderly>>

(* ... nor unless the requester's user is in the team.                      *)
RemoveTeam(r) ==
    /\ At(r, "removeTeam")
    /\ IF \E i \in Members : rows[i].person = Call(r).token.user
       THEN Goes(r, "refundRead") ELSE Goes(r, "failed")
    /\ UNCHANGED <<tables, redis, gateway, issued, orderly>>

(* _refund, for remove and for close.  close goes on after an error of the  *)
(* gateway, remove after any, one of Redis or a lost answer too.            *)
AfterRefund(r) == IF Op(r, "close") THEN "closeCommit" ELSE "removeOwner"

RefundRead(r) ==
    LET answer == result[request[r].order] IN
    /\ At(r, "refundRead")
    /\ \/ Goes(r, CASE answer = "paid" -> "refundCall"
                    [] answer = "cancelled" -> AfterRefund(r)
                    [] OTHER -> IF Op(r, "close") THEN "failed" ELSE "removeOwner")
       \/ Op(r, "remove") /\ Goes(r, "removeOwner")
    /\ UNCHANGED <<tables, redis, gateway, issued, orderly>>

(* Bootpay cancels the whole payment, once; or it refuses.                  *)
RefundCall(r) ==
    /\ At(r, "refundCall")
    /\ \/ /\ request[r].order \in charged \ refunded
          /\ refunded' = refunded \cup {request[r].order}
          /\ Goes(r, "refundSave")
       \/ Goes(r, AfterRefund(r)) /\ UNCHANGED refunded
    /\ UNCHANGED <<tables, redis, charged, issued, orderly>>

RefundSave(r) ==
    /\ At(r, "refundSave")
    /\ \/ result' = [result EXCEPT ![request[r].order] = "cancelled"]
       \/ Op(r, "remove") /\ UNCHANGED result
    /\ Goes(r, AfterRefund(r))
    /\ UNCHANGED <<tables, invited, orderOf, memberCount, plan, gateway, issued, orderly>>

(* The owner gets the availabilities of the member; without one it ends.    *)
RemoveOwner(r) ==
    /\ At(r, "removeOwner")
    /\ IF Owners = {} THEN Goes(r, "failed") ELSE Goes(r, "removeCommit")
    /\ UNCHANGED <<tables, redis, gateway, issued, orderly>>

(* Faulty: the amount is taken away.                                        *)
ReturnedTaken(o) == [returned EXCEPT ![o] = @ - 1]

Returned(o) == [returned EXCEPT ![o] = @ + 1]

(* The transaction deletes by id, without a look at the row, and saves the  *)
(* negative payment whether or not the gateway returned anything.           *)
RemoveCommit(r) ==
    LET i == Call(r).target IN
    /\ At(r, "removeCommit")
    /\ rows' = IF IsRow(i) THEN [rows EXCEPT ![i] = Gone] ELSE rows
    /\ returned' = Returned(request[r].order)
    /\ Goes(r, "removeCount")
    /\ UNCHANGED <<users, orders, closed, redis, gateway, issued, orderly>>

RemoveCount(r) ==
    /\ At(r, "removeCount")
    /\ memberCount' = memberCount - 1
    /\ Goes(r, "done")
    /\ UNCHANGED <<tables, invited, orderOf, plan, result, gateway, issued, orderly>>

-----------------------------------------------------------------------------
(* removeUnsignedUserInvitation: delete, then count, whatever was there.    *)
WithdrawDelete(r) ==
    /\ At(r, "withdrawDelete")
    /\ invited' = invited \ Call(r).people
    /\ Goes(r, "withdrawCount")
    /\ UNCHANGED <<tables, orderOf, memberCount, plan, result, gateway, issued, orderly>>

WithdrawCount(r) ==
    /\ At(r, "withdrawCount")
    /\ memberCount' = memberCount - 1
    /\ Goes(r, "done")
    /\ UNCHANGED <<tables, invited, orderOf, plan, result, gateway, issued, orderly>>

(* validateRoleUpdateRequest: only an owner names an owner, and of a member *)
(* who has accepted.                                                        *)
RolesCheck(r) ==
    LET c == Call(r) IN
    /\ At(r, "rolesCheck")
    /\ IF /\ c.role = "OWNER" => c.token.role = "OWNER"
          /\ IsRow(c.target)
          /\ c.role = "OWNER" => rows[c.target].active
       THEN Goes(r, "rolesCommit") ELSE Goes(r, "refused")
    /\ UNCHANGED <<tables, redis, gateway, issued, orderly>>

(* _updateRoles: the target, then the requester when he has handed over.    *)
WithRoles(c) ==
    [i \in Ids |->
        IF ~ IsRow(i) THEN rows[i]
        ELSE IF i = c.token.id /\ c.role = "OWNER" THEN [rows[i] EXCEPT !.role = "MANAGER"]
        ELSE IF i = c.target THEN [rows[i] EXCEPT !.role = c.role]
        ELSE rows[i]]

RolesCommit(r) ==
    /\ At(r, "rolesCommit")
    /\ rows' = WithRoles(Call(r))
    /\ issued' = issued \cup {Token(i, rows'[i]) : i \in Members}
    /\ Goes(r, "done")
    /\ UNCHANGED <<users, orders, closed, returned, redis, gateway, orderly>>

-----------------------------------------------------------------------------
(* TeamService.delete: no members besides the owner, no invitations, ...    *)
CloseProfiles(r) ==
    /\ At(r, "closeProfiles")
    /\ IF Cardinality(Members) > 1 THEN Goes(r, "refused") ELSE Goes(r, "closeInvitations")
    /\ UNCHANGED <<tables, redis, gateway, issued, orderly>>

CloseInvitations(r) ==
    /\ At(r, "closeInvitations")
    /\ IF invited # {} THEN Goes(r, "refused") ELSE Goes(r, "closeOrder")
    /\ UNCHANGED <<tables, redis, gateway, issued, orderly>>

(* ... a refund if the team was bought, for which it is read, ...           *)
CloseOrder(r) ==
    /\ At(r, "closeOrder")
    /\ request' = [request EXCEPT ![r].order = TeamOrder,
          ![r].step = IF TeamOrder = NoOrder THEN "closeCommit"
                          ELSE IF closed THEN "failed" ELSE "refundRead"]
    /\ UNCHANGED <<tables, redis, gateway, issued, orderly>>

(* ... and the team and its profiles are deleted, with a negative payment,  *)
(* for which the team is read again.                                        *)
CloseCommit(r) ==
    /\ At(r, "closeCommit")
    /\ IF TeamOrder # NoOrder /\ closed
       THEN Goes(r, "failed") /\ UNCHANGED <<rows, closed, returned>>
       ELSE /\ rows' = [i \in Ids |-> IF IsRow(i) THEN Gone ELSE rows[i]]
            /\ closed' = TRUE
            /\ returned' = IF TeamOrder = NoOrder THEN returned ELSE Returned(TeamOrder)
            /\ Goes(r, "done")
    /\ UNCHANGED <<users, orders, redis, gateway, issued, orderly>>

-----------------------------------------------------------------------------
Serve(r) ==
    \/ InviteFind(r) \/ InviteCharge(r) \/ InviteResult(r) \/ InviteCount(r)
    \/ InviteCommit(r) \/ InvitePlan(r) \/ InviteSet(r)
    \/ JoinFind(r) \/ JoinOrder(r) \/ JoinComplete(r) \/ JoinCommit(r)
    \/ Accept(r)
    \/ RemoveFind(r) \/ RemoveOrder(r) \/ RemoveTeam(r) \/ RemoveOwner(r) \/ RemoveCommit(r)
    \/ RemoveCount(r)
    \/ RefundRead(r) \/ RefundCall(r) \/ RefundSave(r)
    \/ WithdrawDelete(r) \/ WithdrawCount(r)
    \/ RolesCheck(r) \/ RolesCommit(r)
    \/ CloseProfiles(r) \/ CloseInvitations(r) \/ CloseOrder(r) \/ CloseCommit(r)

Next == \E r \in Requests : Receive(r) \/ Serve(r) \/ Fail(r)

Spec == Init /\ [][Next]_vars

-----------------------------------------------------------------------------
(* What holds at every point of a handler, and the proofs rest on.  It      *)
(* serves its call, and the order it goes on with is one that is in the     *)
(* database, except that of an invitation before its transaction commits,   *)
(* which no other handler knows.                                            *)
StepsOf ==
    [invite |-> {"inviteFind", "inviteCharge", "inviteResult", "inviteCount",
                 "inviteCommit", "invitePlan", "inviteSet"},
     join |-> {"joinFind", "joinOrder", "joinComplete", "joinCommit"},
     accept |-> {"accept"},
     remove |-> {"removeFind", "removeOrder", "removeTeam", "refundRead", "refundCall",
                 "refundSave", "removeOwner", "removeCommit", "removeCount"},
     withdraw |-> {"withdrawDelete", "withdrawCount"},
     roles |-> {"rolesCheck", "rolesCommit"},
     close |-> {"closeProfiles", "closeInvitations", "closeOrder", "refundRead",
                "refundCall", "refundSave", "closeCommit"}]

Unordered ==
    {"idle", "inviteFind", "inviteCharge", "joinFind", "accept", "removeFind",
     "removeOrder", "withdrawDelete", "withdrawCount", "rolesCheck", "rolesCommit",
     "closeProfiles", "closeInvitations", "closeOrder"}
Charging == {"inviteResult", "inviteCount", "inviteCommit"}
Refunding == {"refundRead", "refundCall", "refundSave"}

HandlerInv(r) ==
    LET local == request[r] IN
    /\ At(r, "idle") => local.call = NoCall
    /\ r \in InFlight => local.call \in Calls /\ local.step \in StepsOf[local.call.op]
    /\ local.step \in Unordered => local.order = NoOrder
    /\ r \in InFlight /\ local.step \notin Unordered \cup {"joinCommit", "closeCommit"} =>
          local.order \in Orders
    /\ local.step \in Charging =>
          /\ local.order \in charged /\ orders[local.order] = NoOrder
          /\ \A q \in Requests \ {r} : request[q].order # local.order
    /\ local.step \in Charging \ {"inviteResult"} => result[local.order] # "none"
    /\ r \in InFlight /\ local.step \notin Charging /\ local.order # NoOrder =>
          orders[local.order] # NoOrder
    /\ Op(r, "close") /\ local.step \in Refunding \cup {"closeCommit"} =>
          local.order = TeamOrder
    /\ local.step \in {"joinOrder", "joinComplete"} => local.known = local.call.people
    /\ At(r, "joinCommit") => local.known = {} \/ local.order \in Orders
HandlersInv == \A r \in Requests : HandlerInv(r)

(* Orders that the team or its invitations name are in the database.        *)
OrdersInv ==
    /\ TeamOrder # NoOrder => orders[TeamOrder] # NoOrder
    /\ \A p \in People : orderOf[p] # NoOrder => orders[orderOf[p]] # NoOrder
    /\ \A p \in invited : orderOf[p] # NoOrder

(* What the gateway gave back is booked, or the handler that asked for it   *)
(* has yet to or has failed.                                                *)
RefundsInv ==
    \A o \in refunded : returned[o] > 0 \/
        \E r \in Requests : request[r].order = o /\ request[r].step \in
            {"refundSave", "closeCommit", "removeOwner", "removeCommit", "failed"}

(* People found to have an account have got their profiles, and whose       *)
(* invitation a sign up has used up gets his or the sign up fails.          *)
Seated(p) ==
    \/ p \in invited
    \/ \E t \in issued : t.user = p
    \/ \E q \in Requests : Op(q, "withdraw") /\ p \in Call(q).people
    \/ \E q \in Requests :
          /\ Op(q, "join") /\ p \in Call(q).people
          /\ At(q, "failed") \/ (At(q, "joinCommit") /\ p \in request[q].known)
SeatsInv ==
    \A r \in Requests :
        /\ request[r].step \in {"invitePlan", "inviteSet"} =>
              \A p \in request[r].known : \E t \in issued : t.user = p
        /\ Op(r, "invite") /\ At(r, "done") => \A p \in Call(r).people : Seated(p)

(* A lone sign up adds to the list as it is.                                *)
LoneJoin == \A q, r \in Requests : Op(q, "join") /\ Op(r, "join") => q = r
Listed(i) ==
    \/ \E o \in Orders : orders[o] # NoOrder /\ i \in orders[o].profileIds
    \/ \E t \in issued : t.id = i /\ t.role = "OWNER"
ListsInv ==
    LoneJoin =>
        /\ \A r \in Requests :
              request[r].step \in {"joinComplete", "joinCommit"} /\ request[r].order # NoOrder
              => request[r].listed = orders[request[r].order].profileIds
        /\ \A i \in Members : Listed(i)

-----------------------------------------------------------------------------
(* Safety                                                                   *)

(* Money and orders agree although the card is charged inside a transaction *)
(* that may roll back: an order in the database was charged and has its     *)
(* answer of the gateway, and a charge without an order is that of a        *)
(* request that has not finished.                                           *)
ChargesAccounted ==
    /\ \A o \in Orders : orders[o] # NoOrder => o \in charged /\ result[o] # "none"
    /\ \A o \in charged : orders[o] # NoOrder \/
          \E r \in Requests : request[r].order = o /\ ~ At(r, "done")

(* What the gateway gave back is in the payments, however requests that     *)
(* remove members of the same order overlap, unless one ended half way.     *)
RefundsBooked ==
    \A o \in refunded : returned[o] > 0 \/
        \E r \in Requests : request[r].order = o /\ ~ At(r, "done")

(* What moved at the gateway is in the tables, in both directions.          *)
MoneyAccounted == ChargesAccounted /\ RefundsBooked

(* Nobody who was paid for gets lost: he is invited, or he has been a       *)
(* member, or his invitation was withdrawn, or his sign up ended after it   *)
(* had used up the invitation.                                              *)
SeatsAccounted ==
    \A r \in Requests : Op(r, "invite") /\ At(r, "done") =>
        \A p \in Call(r).people :
            \/ p \in invited
            \/ \E t \in issued : t.user = p
            \/ \E q \in Requests :
                  /\ Op(q, "withdraw") \/ (Op(q, "join") /\ ~ At(q, "done"))
                  /\ p \in Call(q).people

(* remove needs the order that lists a profile.  Every member has one, but  *)
(* for the owners, present and past, as long as no two people who were      *)
(* invited with one order sign up: each of them writes the list he has read *)
(* with himself added.                                                      *)
Removable == LoneJoin => \A i \in Members : Listed(i)

(* After proper requests one at a time the member count in Redis is the     *)
(* number of profiles and invitations.                                      *)
CountAgrees ==
    orderly /\ InFlight = {} /\ ~ closed =>
        memberCount = Cardinality(Members) + Cardinality(invited)

(* And they keep the roster: each step of the services is a step of it, and *)
(* with the last the count is right again.                                  *)
TheOwner ==
    IF Cardinality(Owners) = 1 THEN rows[CHOOSE i \in Owners : TRUE].person ELSE Nobody
Joining ==
    UNION {request[r].known : r \in {q \in Requests :
              Op(q, "join") /\ At(q, "joinCommit") /\ request[q].order # NoOrder}}
Roster == INSTANCE TeamRoster WITH
    members <- {rows[i].person : i \in Members},
    invited <- invited \cup Joining,
    owner <- TheOwner

OrderlyKeepsRoster ==
    [][orderly' => /\ Roster!OneOwner' /\ Roster!JoinOnce' /\ CountAgrees'
                   /\ Roster!Next \/ UNCHANGED Roster!vars]_vars

-----------------------------------------------------------------------------
(* "Owner cannot be deleted", says validateDeleteProfilePermission, except  *)
(* with the team.                                                           *)
OwnerStays == [][\A i \in Owners : IsRow(i)' \/ closed']_vars
=============================================================================
