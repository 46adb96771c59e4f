------------------------------ MODULE Accounts ------------------------------
(***************************************************************************)
(* People and their accounts: VerificationService, TemporaryUsersService,    *)
(* UserService and TokenService, on top of the teams of Workspaces.          *)
(*                                                                         *)
(* A code is sent to an e-mail address or a phone and stored in Redis for    *)
(* five minutes; who returns it may sign up or set his phone.  Who signs in  *)
(* with Google or Kakao is signed up, linked or let in, by what is found of  *)
(* him.  A sign-up makes a user and his team in one transaction.  Nothing    *)
(* locks an address: what a handler has found may be old when it acts.       *)
(*                                                                         *)
(* The uuid of a verification is left out: a request that the code refuses   *)
(* for another uuid goes on here, or breaks off.  Two codes are never equal  *)
(* by chance.                                                                *)
(***************************************************************************)
EXTENDS Workspaces

CONSTANTS
    UserIds,         \* numbers of users, counted up
    Emails, Phones,
    NoOne,           \* no address, no user
    Gone,            \* a user who has been deleted
    Providers, NoProvider,
    BaseName,        \* the default name of a workspace, of each address
    LastCode,        \* a bound: how many codes are sent to an address
    Starts           \* what earlier requests have left of people

Addresses == Emails \cup Phones
Codes == 1..LastCode

(* What a request says: a code that was sent to the address, a guess, or, 0,  *)
(* the empty code.                                                           *)
PersonType ==
    [address : Addresses \cup {NoOne},
     phone : Phones \cup {NoOne},            \* Kakao also knows a phone
     provider : Providers \cup {NoProvider},
     user : UserIds \cup {NoOne},
     code : Codes \cup {0}]

UserType ==
    [email : Emails \cup {NoOne}, phone : Phones \cup {NoOne},
     team : TeamIds, via : {"email", "phone", "oauth"}]

AccountOps ==
    {"ask", "confirm", "temporary", "emailSignUp", "phoneSignUp", "oauth",
     "integrate", "setPhone", "leave"}
AccountSteps ==
    {"lookUp", "publish", "store", "compare", "mark", "saveTemporary", "match",
     "temporary", "recheck", "status", "search", "evaluate", "find", "findAccount",
     "saveAccount", "commitUser", "setPhone", "load", "erase", "dropKeys"}
AllSteps == TeamSteps \cup AccountSteps

(* Who is spoken of: by an address that has the form the endpoint asks for,   *)
(* or by the token of a user.  A code is confirmed only if it is not empty.   *)
Spoken(op, p) ==
    /\ op \in {"ask", "confirm"} => p.address \in Addresses
    /\ op = "confirm" => p.code # 0
    /\ op \in {"temporary", "emailSignUp"} => p.address \in Emails
    /\ op \in {"phoneSignUp", "setPhone"} => p.address \in Phones
    /\ op \in {"oauth", "integrate"} => p.address \in Emails /\ p.provider \in Providers
    /\ op \notin {"oauth", "integrate"} => p.phone = NoOne /\ p.provider = NoProvider
    /\ op \in {"setPhone", "leave"} => p.user \in UserIds

ASSUME AccountsAssumption ==
    /\ UserIds = 1..Cardinality(UserIds)
    /\ Emails \cap Phones = {} /\ NoOne \notin Addresses \cup UserIds
    /\ Unused \notin UserType /\ Gone \notin UserType /\ Unused # Gone
    /\ NoProvider \notin Providers
    /\ Steps = AllSteps
    /\ BaseName \in [Addresses -> Names]
    /\ LastCode \in Nat
    /\ Persons = PersonType
    /\ \A c \in Calls : /\ c.op \in Ops \cup AccountOps /\ c.person \in Persons
                          /\ Spoken(c.op, c.person)
    /\ \A s \in Starts :
          /\ s.users \in [UserIds -> UserType \cup {Unused}]
          /\ s.accounts \in [UserIds -> [Providers -> 0..2]]
          /\ s.sent \in [Addresses -> Codes \cup {0}]
          /\ s.temporary \subseteq Emails /\ s.verified \subseteq Addresses
          /\ \A u \in UserIds : s.users[u] # Unused => IsGiven(s.users[u].team)
          /\ \A u \in UserIds : s.users[u] # Unused /\ s.users[u].via # "oauth" =>
                {s.users[u].email, s.users[u].phone} \ {NoOne} \subseteq s.verified

VARIABLES
    users,       \* MySQL
    accounts,    \* MySQL: how many OAuth2 accounts each user has of a provider
    stored,      \* Redis: which code of an address is stored, 0 once it has
                 \*   expired
    blank,       \* Redis: the phones whose stored code is the empty one
    verified,    \* Redis: the addresses with a verified status, for ever
    temporary,   \* Redis: the addresses of temporary users, for ever
    mailbox,     \* outside: the codes each address has been sent
    lastCode,    \* the codes generated for each address
    local,       \* more of the local state of each handler
    (* observed only by the properties *)
    confirmed,   \* addresses to which a code was sent that was returned while
                 \*   it was stored
    waived,      \* phones whose empty code was returned while it was stored
    lapsed,      \* the last code of an address that has expired
    muddled,     \* addresses whose codes were asked for twice at once, or
                 \*   whose handler broke off
    met          \* for each user, the users with his address, or one of
                 \*   them, who were there before his sign-up came in

people == <<users, accounts, stored, blank, verified, temporary, mailbox, lastCode>>
seen == <<confirmed, waived, lapsed, muddled, met>>
vars == <<wsVars, people, local, seen>>

-----------------------------------------------------------------------------
AskSteps == <<"lookUp", "publish", "store">>
ConfirmSteps == <<"compare", "mark">>
TemporarySteps == <<"saveTemporary">>

(* A sign-up makes the team, its settings and flag, and then the user.      *)
SignUpSteps == <<"look", "team", "setting", "check", "flag", "keys", "commitUser">>
EmailSignUpSteps ==
    <<"match", "mark", "temporary", "recheck",
      "look", "team", "setting", "check", "flag", "keys", "commitUser">>
PhoneSignUpSteps ==
    <<"status", "search",
      "look", "team", "setting", "check", "flag", "keys", "commitUser">>

OAuthSteps == <<"evaluate", "find">>
LinkSteps == <<"findAccount", "saveAccount">>
SetPhoneSteps == <<"match", "setPhone", "mark">>

LeaveSteps == <<"load", "erase", "dropKeys", "drop">>

LocalType ==
    [known : BOOLEAN,                        \* the address has a user
     code : Codes \cup {0},
     context : {"none", "signUp", "signIn", "link", "integrate"},
     found : UserIds \cup {NoOne},
     before : SUBSET UserIds]                \* observed, for met
NoLocal == [known |-> FALSE, code |-> 0, context |-> "none", found |-> NoOne,
            before |-> {}]

TypeOK ==
    /\ WorkspacesTypeOK
    /\ users \in [UserIds -> UserType \cup {Unused, Gone}]
    /\ accounts \in [UserIds -> [Providers -> 0..2]]
    /\ stored \in [Addresses -> Codes \cup {0}] /\ blank \subseteq Phones
    /\ verified \subseteq Addresses /\ temporary \subseteq Emails
    /\ mailbox \in [Addresses -> SUBSET Codes]
    /\ lastCode \in [Addresses -> Codes \cup {0}]
    /\ local \in [Requests -> LocalType]
    /\ confirmed \subseteq Addresses /\ waived \subseteq Phones
    /\ lapsed \in [Addresses -> Codes \cup {0}]
    /\ muddled \subseteq Addresses
    /\ met \in [UserIds -> SUBSET UserIds]

Exists(u) == users[u] \notin {Unused, Gone}
With(a) == {u \in UserIds : Exists(u) /\ a \in {users[u].email, users[u].phone}}

Init ==
    /\ WorkspacesInit
    /\ \E s \in Starts :
          /\ users = s.users /\ accounts = s.accounts /\ temporary = s.temporary
          /\ verified = s.verified /\ confirmed = s.verified
          /\ stored = s.sent /\ lastCode = s.sent
          /\ mailbox = [a \in Addresses |-> {s.sent[a]} \ {0}]
    /\ local = [r \in Requests |-> NoLocal]
    /\ lapsed = [a \in Addresses |-> 0]
    /\ blank = {} /\ waived = {} /\ muddled = {} /\ met = [u \in UserIds |-> {}]

-----------------------------------------------------------------------------
Person(r) == request[r].call.person
Address(r) == Person(r).address
Knows(r, l) == local' = [local EXCEPT ![r] = l]
Learns(r, what) == Knows(r, what) /\ UNCHANGED <<people, seen>>
Keeps == UNCHANGED <<people, local, seen>>

Todo(call) ==
    CASE call.op = "ask" -> AskSteps
      [] call.op = "confirm" -> ConfirmSteps
      [] call.op = "temporary" -> TemporarySteps
      [] call.op = "emailSignUp" -> EmailSignUpSteps
      [] call.op = "phoneSignUp" -> PhoneSignUpSteps
      [] call.op \in {"oauth", "integrate"} -> OAuthSteps
      [] call.op = "setPhone" -> SetPhoneSteps
      [] call.op = "leave" -> LeaveSteps

Asking(a) == {s \in InFlight : request[s].call.op = "ask" /\ Address(s) = a}

(* A handler of UserController, VerificationController, TokenController.    *)
ReceiveAccount(r, call) ==
    LET p == call.person
        home == IF call.op = "leave" THEN users[p.user].team ELSE NoTeam
        name == IF call.op \in {"emailSignUp", "phoneSignUp", "oauth", "integrate"}
                THEN BaseName[p.address] ELSE NoName IN
    /\ call.op \in AccountOps
    /\ p.user # NoOne => Exists(p.user)
    /\ Begin(r, call, Todo(call), home, name)
    /\ Knows(r, [NoLocal EXCEPT !.before = With(p.address)])
    /\ muddled' = muddled \cup
          (IF call.op = "ask" /\ Asking(p.address) # {} THEN {p.address} ELSE {})
    /\ Nothing
    /\ UNCHANGED <<people, confirmed, waived, lapsed, met>>

(* createVerification: the code is generated, the address looked up, the    *)
(* message published, and only then is the code stored.                     *)
LookUp(r) ==
    /\ Doing(r, "lookUp")
    /\ lastCode[Address(r)] < LastCode
    /\ lastCode' = [lastCode EXCEPT ![Address(r)] = @ + 1]
    /\ Knows(r, [local[r] EXCEPT !.known = With(Address(r)) # {},
                                 !.code = lastCode[Address(r)] + 1])
    /\ Advance(r, request[r]) /\ Nothing
    /\ UNCHANGED <<users, accounts, stored, blank, verified, temporary, mailbox, seen>>

(* publishSyncdayNotification: the data of a message has the code, whatever *)
(* its template says; only that of a phone with a user is emptied, on the   *)
(* object that is stored next.                                              *)
Blanks(r) == local[r].known /\ Address(r) \in Phones
Publish(r) ==
    /\ Doing(r, "publish")
    /\ mailbox' = IF Blanks(r) THEN mailbox
                  ELSE [mailbox EXCEPT ![Address(r)] = @ \cup {local[r].code}]
    /\ Advance(r, Wrote(r)) /\ Nothing
    /\ UNCHANGED <<users, accounts, stored, blank, verified, temporary, lastCode, local,
                   seen>>

(* Faulty: a code is stored only when none is.                              *)
CodeToStoreFirst(r) ==
    IF stored[Address(r)] = 0 THEN local[r].code ELSE stored[Address(r)]

CodeToStore(r) == local[r].code
StoreCode(r) ==
    /\ Doing(r, "store")
    /\ stored' = [stored EXCEPT ![Address(r)] = CodeToStore(r)]
    /\ blank' = IF Blanks(r) THEN blank \cup {Address(r)} ELSE blank \ {Address(r)}
    /\ Advance(r, request[r]) /\ Nothing
    /\ UNCHANGED <<users, accounts, verified, temporary, mailbox, lastCode, local, seen>>

(* SETEX: five minutes later the code is gone.                              *)
Expire(a) ==
    /\ stored[a] # 0
    /\ stored' = [stored EXCEPT ![a] = 0]
    /\ blank' = blank \ {a}
    /\ lapsed' = [lapsed EXCEPT ![a] = stored[a]]
    /\ UNCHANGED <<wsVars, users, accounts, verified, temporary, mailbox,
                   lastCode, local, confirmed, waived, muddled, met>>

(* Faulty: any code will do.                                                *)
CodeMatchesAny(r) == Person(r).code # 0

CodeMatches(r) ==
    /\ stored[Address(r)] # 0
    /\ Person(r).code = IF Address(r) \in blank THEN 0 ELSE stored[Address(r)]

(* Observed: the code that is returned was sent to the address.             *)
Sent(r) ==
    Person(r).code = stored[Address(r)] /\ Person(r).code \in mailbox[Address(r)]

(* VerificationService.update, _createUserWithVerificationByEmail and       *)
(* isValidPhoneVerification compare the code with the stored one.           *)
MatchCode(r) ==
    /\ Doing(r, "match") \/ Doing(r, "compare")
    /\ IF CodeMatches(r)
       THEN /\ Advance(r, request[r])
            /\ confirmed' = IF Sent(r) THEN confirmed \cup {Address(r)} ELSE confirmed
            /\ waived' = waived \cup (blank \cap {Address(r)})
       ELSE Refuse(r) /\ UNCHANGED <<confirmed, waived>>
    /\ Nothing
    /\ UNCHANGED <<people, local, lapsed, muddled, met>>

(* setEmailVerificationStatus, setPhoneVerificationStatus: without an end.  *)
MarkVerified(r) ==
    /\ Doing(r, "mark")
    /\ verified' = verified \cup {Address(r)}
    /\ Advance(r, Wrote(r)) /\ Nothing
    /\ UNCHANGED <<users, accounts, stored, blank, temporary, mailbox, lastCode, local, seen>>

(* createTemporaryUser: a name, a password and a language for an address.   *)
SaveTemporary(r) ==
    /\ Doing(r, "saveTemporary")
    /\ temporary' = temporary \cup {Address(r)}
    /\ Advance(r, request[r]) /\ Nothing
    /\ UNCHANGED <<users, accounts, stored, blank, verified, mailbox, lastCode, local, seen>>

(* getTemporaryUser: without one the handler throws.                        *)
LoadTemporary(r) ==
    /\ Doing(r, "temporary")
    /\ IF Address(r) \in temporary THEN Advance(r, request[r]) ELSE Refuse(r)
    /\ Nothing /\ Keeps

(* isVerifiedUser, in the transaction: a code is stored, whichever, and the *)
(* address has been verified.                                               *)
Recheck(r) ==
    /\ Doing(r, "recheck")
    /\ IF stored[Address(r)] # 0 /\ Address(r) \in verified
       THEN Advance(r, request[r]) ELSE Refuse(r)
    /\ Nothing /\ Keeps

PhoneVerified(r) == Address(r) \in verified
CheckStatus(r) ==
    /\ Doing(r, "status")
    /\ IF PhoneVerified(r) THEN Advance(r, request[r]) ELSE Refuse(r)
    /\ Nothing /\ Keeps

(* Faulty: the number is not searched for.                                  *)
TakenNever(a) == FALSE

Taken(a) == With(a) # {}
SearchPhone(r) ==
    /\ Doing(r, "search")
    /\ IF Taken(Address(r)) THEN Refuse(r) ELSE Advance(r, request[r])
    /\ Nothing /\ Keeps

(* ensureIntegrationContext                                                 *)
Context(asked, found, linked) ==
    IF ~found THEN "signUp"
    ELSE IF asked = "integrate" THEN "integrate"
    ELSE IF linked THEN "signIn" ELSE "link"

FirstWith(a) ==
    IF With(a) = {} THEN NoOne
    ELSE CHOOSE u \in With(a) : \A v \in With(a) : u <= v

(* evaluateIntegrationContext looks the user up, and issueTokenByOAuth2     *)
(* looks him up again to act on what the first look-up has found.           *)
Evaluate(r) ==
    LET u == FirstWith(Address(r))
        linked == u # NoOne /\ accounts[u][Person(r).provider] > 0 IN
    /\ Doing(r, "evaluate")
    /\ Learns(r, [local[r] EXCEPT !.context =
                     Context(request[r].call.op, u # NoOne, linked)])
    /\ Advance(r, request[r]) /\ Nothing

(* validateOAuth2Request                                                    *)
ValidOAuth2Request(context, u) == (u = NoOne) <=> (context = "signUp")
StepsOf(context) ==
    CASE context = "signUp" -> SignUpSteps
      [] context = "link" -> LinkSteps
      [] OTHER -> <<>>
Switch(r, q, todo) ==
    /\ request' = [request EXCEPT ![r] =
          IF todo = <<>> THEN Idle(q.call) ELSE [q EXCEPT !.todo = todo]]
    /\ NoDoubt
FindAndSwitch(r) ==
    LET u == FirstWith(Address(r))
        context == local[r].context IN
    /\ Doing(r, "find")
    /\ Learns(r, [local[r] EXCEPT !.found = u])
    /\ IF ValidOAuth2Request(context, u)
       THEN Switch(r, request[r], StepsOf(context)) ELSE Refuse(r)
    /\ Nothing

(* OAuth2AccountsService._create: an account with the user's own address,   *)
(* of whichever provider, is taken for the one to save.                     *)
FindAccount(r) ==
    /\ Doing(r, "findAccount")
    /\ IF \E p \in Providers : accounts[local[r].found][p] > 0
       THEN Refuse(r) ELSE Advance(r, request[r])
    /\ Nothing /\ Keeps

SaveAccount(r) ==
    LET u == local[r].found
        p == Person(r).provider IN
    /\ Doing(r, "saveAccount")
    /\ accounts[u][p] < 2
    /\ IF Exists(u)
       THEN /\ accounts' = [accounts EXCEPT ![u][p] = @ + 1]
            /\ Advance(r, Wrote(r))
       ELSE Refuse(r) /\ UNCHANGED accounts
    /\ Nothing
    /\ UNCHANGED <<users, stored, blank, verified, temporary, mailbox, lastCode, local, seen>>

(* The transaction of a sign-up commits: the user, his OAuth2 account, his  *)
(* team.                                                                    *)
Via(op) ==
    CASE op = "emailSignUp" -> "email"
      [] op = "phoneSignUp" -> "phone"
      [] OTHER -> "oauth"

(* Faulty: whatever the address is, it is saved as an e-mail address.       *)
NewUserByEmail(r) ==
    LET p == Person(r) IN
    [email |-> p.address, phone |-> p.phone,
     team |-> request[r].team, via |-> Via(request[r].call.op)]

NewUser(r) ==
    LET p == Person(r) IN
    [email |-> IF p.address \in Emails THEN p.address ELSE NoOne,
     phone |-> IF p.address \in Phones THEN p.address ELSE p.phone,
     team |-> request[r].team, via |-> Via(request[r].call.op)]
CommitSignUp(r) ==
    /\ Doing(r, "commitUser")
    /\ ShowTeam(r)
    /\ \E u \in UserIds :
          /\ users[u] = Unused /\ \A v \in UserIds : v < u => users[v] # Unused
          /\ users' = [users EXCEPT ![u] = NewUser(r)]
          /\ accounts' = IF Person(r).provider = NoProvider THEN accounts
                         ELSE [accounts EXCEPT ![u][Person(r).provider] = 1]
          /\ met' = [met EXCEPT ![u] = local[r].before \cap With(Address(r))]
    /\ UNCHANGED <<stored, blank, verified, temporary, mailbox, lastCode, local,
                   confirmed, waived, lapsed, muddled>>

(* updateUserPhone: whoever else has the number.                            *)
SetPhone(r) ==
    LET u == Person(r).user
        left == users[u].phone IN
    /\ Doing(r, "setPhone")
    /\ IF Exists(u)
       THEN /\ users' = [users EXCEPT ![u].phone = Address(r)]
            /\ local' = [s \in Requests |->
                  IF s \in InFlight /\ Address(s) = left /\ left # Address(r)
                  THEN [local[s] EXCEPT !.before = @ \ {u}] ELSE local[s]]
            /\ Advance(r, Wrote(r))
       ELSE Advance(r, request[r]) /\ UNCHANGED <<users, local>>
    /\ Nothing
    /\ UNCHANGED <<accounts, stored, blank, verified, temporary, mailbox, lastCode, seen>>

(* deleteUser loads the user with his default profile and its team, deletes *)
(* the rows in a transaction, and after that the keys and the flag.  The    *)
(* team and its settings stay.                                              *)
LoadUser(r) ==
    LET u == Person(r).user IN
    /\ Doing(r, "load")
    /\ IF Exists(u) /\ RowsOf(users[u].team) # {}
       THEN Advance(r, [request[r] EXCEPT !.old = NameOf(users[u].team)])
       ELSE Refuse(r)
    /\ Nothing /\ Keeps

EraseUser(r) ==
    LET u == Person(r).user
        t == request[r].team IN
    /\ Doing(r, "erase")
    /\ users' = [users EXCEPT ![u] = Gone]
    /\ accounts' = [accounts EXCEPT ![u] = [p \in Providers |-> 0]]
    /\ teams' = [teams EXCEPT ![t] = IF @ = "open" THEN "left" ELSE @]
    /\ Advance(r, Wrote(r))
    /\ UNCHANGED <<settings, lastTeam, lastSetting, flags, keys, charges,
                   stored, blank, verified, temporary, mailbox, lastCode, local, seen>>

DropKeys(r) ==
    /\ Doing(r, "dropKeys")
    /\ \E dropped \in {{"availability"}, {"availability", "event"}} :
          /\ keys' = [keys EXCEPT ![request[r].team] = @ \ dropped]
          /\ IF "event" \in dropped
             THEN Advance(r, request[r]) ELSE Stop(r) /\ Doubts(request[r])
    /\ UNCHANGED <<teams, settings, lastTeam, lastSetting, flags, charges>>
    /\ Keeps

(* A handler that breaks off may have sent a code that it does not store.   *)
FailAccount(r) ==
    /\ Fail(r)
    /\ muddled' = muddled \cup
          (IF request[r].call.op = "ask" /\ request[r].wrote
           THEN {Address(r)} ELSE {})
    /\ UNCHANGED <<people, local, confirmed, waived, lapsed, met>>

AccountStep(r) ==
    \/ LookUp(r)
    \/ Publish(r)
    \/ StoreCode(r)
    \/ MatchCode(r)
    \/ MarkVerified(r)
    \/ SaveTemporary(r)
    \/ LoadTemporary(r)
    \/ Recheck(r)
    \/ CheckStatus(r)
    \/ SearchPhone(r)
    \/ Evaluate(r)
    \/ FindAndSwitch(r)
    \/ FindAccount(r)
    \/ SaveAccount(r)
    \/ CommitSignUp(r)
    \/ SetPhone(r)
    \/ LoadUser(r)
    \/ EraseUser(r)
    \/ DropKeys(r)

Next ==
    \/ \E r \in Requests :
          \/ \E call \in Calls :
                \/ Receive(r, call) /\ Keeps
                \/ ReceiveAccount(r, call)
          \/ WorkspacesStep(r) /\ Keeps
          \/ AccountStep(r)
          \/ FailAccount(r)
    \/ \E a \in Addresses : Expire(a)

Spec == Init /\ [][Next]_vars

-----------------------------------------------------------------------------
(* What the proofs rest on.  A handler goes through the steps of its call.   *)
Step(q) == IF q.todo = <<>> THEN "none" ELSE Head(q.todo)
Making == {"newTeam", "emailSignUp", "phoneSignUp", "oauth", "integrate"}
SignUpRests ==
    {SignUpSteps,
     <<"team", "setting", "check", "flag", "keys", "commitUser">>,
     <<"setting", "check", "flag", "keys", "commitUser">>,
     <<"check", "flag", "keys", "commitUser">>, <<"flag", "keys", "commitUser">>,
     <<"keys", "commitUser">>, <<"commitUser">>}
OAuthRests ==
    SignUpRests \cup {OAuthSteps, <<"find">>, LinkSteps, <<"saveAccount">>}
Rests ==
    [newTeam |->
        {NewTeamSteps,
         <<"team", "setting", "check", "flag", "charge", "keys", "commit", "invite">>,
         <<"setting", "check", "flag", "charge", "keys", "commit", "invite">>,
         <<"check", "flag", "charge", "keys", "commit", "invite">>,
         <<"flag", "charge", "keys", "commit", "invite">>,
         <<"charge", "keys", "commit", "invite">>, <<"keys", "commit", "invite">>,
         <<"commit", "invite">>, <<"invite">>},
     rename |->
        {RenameSteps, <<"row", "check", "drop", "flag">>, <<"check", "drop", "flag">>,
         <<"drop", "flag">>, <<"flag">>},
     close |->
        {CloseSteps, <<"unflag", "unflag", "commitClose">>, <<"unflag", "commitClose">>,
         <<"commitClose">>},
     ask |-> {AskSteps, <<"publish", "store">>, <<"store">>},
     confirm |-> {ConfirmSteps, <<"mark">>},
     temporary |-> {TemporarySteps},
     emailSignUp |->
        SignUpRests \cup
        {EmailSignUpSteps,
         <<"mark", "temporary", "recheck", "look", "team", "setting", "check", "flag",
           "keys", "commitUser">>,
         <<"temporary", "recheck", "look", "team", "setting", "check", "flag", "keys",
           "commitUser">>,
         <<"recheck", "look", "team", "setting", "check", "flag", "keys", "commitUser">>},
     phoneSignUp |->
        SignUpRests \cup
        {PhoneSignUpSteps,
         <<"search", "look", "team", "setting", "check", "flag", "keys", "commitUser">>},
     oauth |-> OAuthRests,
     integrate |-> OAuthRests,
     setPhone |-> {SetPhoneSteps, <<"setPhone", "mark">>, <<"mark">>},
     leave |-> {LeaveSteps, <<"erase", "dropKeys", "drop">>, <<"dropKeys", "drop">>, <<"drop">>}]

(* What a handler has found or made by the step it is at.                   *)
HasTeam(q) ==
    \/ q.call.op \in {"rename", "close", "leave"}
    \/ Step(q) \in {"setting", "check", "flag", "charge", "keys", "commit", "invite", "commitUser"}
HasRow(q) ==
    q.call.op \in Making /\
    Step(q) \in {"check", "flag", "charge", "keys", "commit", "invite", "commitUser"}
HasOld(q) == q.call.op \in {"rename", "leave"} /\ Step(q) \notin {"read", "load"}
WellFormed(q) ==
    /\ q.call \in Calls /\ q.todo \in Rests[q.call.op]
    /\ q.call.op \in Making \cup {"rename"} => q.name \in Names
    /\ HasTeam(q) => q.team \in TeamIds
    /\ HasRow(q) => q.row \in TeamIds
    /\ HasOld(q) => q.old \in Names
    /\ q.call.op = "ask" => q.wrote = (Step(q) = "store")
HasCode(r) ==
    Step(request[r]) \in {"publish", "store"} =>
        local[r].code \in Codes /\ local[r].code <= lastCode[Address(r)]
HandlerInv(r) == r \in InFlight => WellFormed(request[r]) /\ HasCode(r)
HandlersInv == \A r \in Requests : HandlerInv(r)

(* Whose address has been proved.                                            *)
Proved(q) ==
    \/ q.call.op \in {"emailSignUp", "setPhone"} /\ Step(q) # "match"
    \/ q.call.op = "confirm" /\ Step(q) # "compare"
    \/ q.call.op = "phoneSignUp" /\ Step(q) # "status"

(* Who was there when a sign-up came in has its address still, or is gone;   *)
(* and is gone once the sign-up has looked for him.                          *)
Looking == {"status", "search", "evaluate", "find", "findAccount", "saveAccount"}
BeforeInv(r) ==
    request[r].call.op \in {"phoneSignUp", "oauth", "integrate"} =>
        \A u \in local[r].before :
            \/ users[u] = Gone
            \/ Step(request[r]) \in Looking /\ u \in With(Address(r))

(* While a code is asked for, the newest code is with the handler.           *)
AskedFor(a) == {r \in InFlight : request[r].call.op = "ask" /\ Address(r) = a}
Storing(a, c) ==
    \E r \in AskedFor(a) : Step(request[r]) = "store" /\ c <= local[r].code
CodesAt(a) ==
    /\ lapsed[a] <= lastCode[a] /\ stored[a] <= lastCode[a]
    /\ \A c \in mailbox[a] : c <= lastCode[a]
    /\ a \notin muddled =>
          /\ \A q, r \in AskedFor(a) : q = r
          /\ \A r \in AskedFor(a) :
                Step(request[r]) # "lookUp" => local[r].code = lastCode[a]
          /\ stored[a] # 0 => lapsed[a] <= stored[a]
          /\ \A c \in mailbox[a] :
                c <= stored[a] \/ c <= lapsed[a] \/ Storing(a, c)
CodesInv == \A a \in Addresses : CodesAt(a)

-----------------------------------------------------------------------------
(* A sign-up by phone or with an OAuth2 account never makes a second user   *)
(* of an address whose user was there when the request came in; the sign-up *)
(* by e-mail does not look for one, and a phone that is set neither.        *)
NoTwins ==
    \A u \in UserIds : Exists(u) /\ users[u].via # "email" => met[u] = {}

(* Whoever signs up by e-mail or phone, and whoever sets a phone, has once  *)
(* returned a code that was sent to the address while it was stored; only   *)
(* of a phone that had a user when its code was asked for, the empty code   *)
(* has been accepted instead.                                               *)
Accepted == confirmed \cup waived
AddressesProved ==
    \A u \in UserIds : Exists(u) /\ users[u].via # "oauth" =>
        {users[u].email, users[u].phone} \ {NoOne} \subseteq Accepted

ProofsInv ==
    /\ verified \subseteq Accepted
    /\ \A r \in InFlight : Proved(request[r]) => Address(r) \in Accepted
    /\ AddressesProved

(* A code is sent before it is stored, unless it is emptied.                *)
SentInv ==
    /\ \A a \in Addresses : stored[a] # 0 /\ a \notin blank => stored[a] \in mailbox[a]
    /\ \A r \in InFlight : Step(request[r]) = "store" /\ ~ Blanks(r) =>
          local[r].code \in mailbox[Address(r)]
TwinsInv == NoTwins /\ \A r \in InFlight : BeforeInv(r)

(* The newest code a person has been sent is the one that counts, until it  *)
(* expires, is followed by one that is not sent to him, or was asked for    *)
(* twice at once.                                                           *)
Awaited == {Address(r) : r \in {s \in InFlight : request[s].call.op = "ask"}}
NewestCodeCounts ==
    \A a \in Addresses \ (muddled \cup Awaited) :
        \A c \in mailbox[a] : c <= stored[a] \/ c <= lapsed[a]

=============================================================================
