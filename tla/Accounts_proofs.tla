-------------------------- MODULE Accounts_proofs --------------------------
(***************************************************************************)
(* Theorems about Accounts, for any people, teams, names and requests.      *)
(***************************************************************************)
EXTENDS Accounts, FiniteSetTheorems, WellFoundedInduction, TLAPS

-----------------------------------------------------------------------------
(* The steps of a handler: after s comes n, or "none".                      *)
SignUpFollows ==
    {<<"look", "team">>, <<"team", "setting">>, <<"setting", "check">>, <<"check",
     "flag">>, <<"flag", "keys">>, <<"keys", "commitUser">>, <<"commitUser", "none">>}
OAuthFollows ==
    SignUpFollows \cup
    {<<"evaluate", "find">>, <<"find", "look">>, <<"find", "findAccount">>, <<"find",
     "none">>, <<"findAccount", "saveAccount">>, <<"saveAccount", "none">>}
Follows ==
    [newTeam |->
        {<<"look", "team">>, <<"team", "setting">>, <<"setting", "check">>, <<"check",
         "flag">>, <<"flag", "charge">>, <<"charge", "keys">>, <<"keys", "commit">>,
         <<"commit", "invite">>, <<"invite", "none">>},
     rename |->
        {<<"read", "row">>, <<"row", "check">>, <<"check", "drop">>, <<"drop", "flag">>,
         <<"flag", "none">>},
     close |->
        {<<"release", "unflag">>, <<"unflag", "unflag">>, <<"unflag", "commitClose">>,
         <<"commitClose", "none">>},
     ask |-> {<<"lookUp", "publish">>, <<"publish", "store">>, <<"store", "none">>},
     confirm |-> {<<"compare", "mark">>, <<"mark", "none">>},
     temporary |-> {<<"saveTemporary", "none">>},
     emailSignUp |->
        SignUpFollows \cup
        {<<"match", "mark">>, <<"mark", "temporary">>, <<"temporary", "recheck">>,
         <<"recheck", "look">>},
     phoneSignUp |-> SignUpFollows \cup {<<"status", "search">>, <<"search", "look">>},
     oauth |-> OAuthFollows,
     integrate |-> OAuthFollows,
     setPhone |-> {<<"match", "setPhone">>, <<"setPhone", "mark">>, <<"mark", "none">>},
     leave |->
        {<<"load", "erase">>, <<"erase", "dropKeys">>, <<"dropKeys", "drop">>, <<"drop",
         "none">>}]
NextStep(t) == IF t = <<>> THEN "none" ELSE Head(t)
Going(rests, follows, t) ==
    /\ t # <<>> /\ t \in Seq(Steps)
    /\ Tail(t) = <<>> \/ Tail(t) \in rests
    /\ <<Head(t), NextStep(Tail(t))>> \in follows

LEMMA StepsAre == Steps = AllSteps
BY AccountsAssumption

LEMMA SignUpGoing == \A t \in SignUpRests :
    Going(SignUpRests, SignUpFollows, t)
<1> USE StepsAre DEF Going, NextStep, AllSteps, TeamSteps, AccountSteps, SignUpRests, SignUpSteps, SignUpFollows
<1>1. Going(SignUpRests, SignUpFollows,
             <<"look", "team", "setting", "check", "flag", "keys", "commitUser">>)
  OBVIOUS
<1>2. Going(SignUpRests, SignUpFollows,
             <<"team", "setting", "check", "flag", "keys", "commitUser">>)
  OBVIOUS
<1>3. Going(SignUpRests, SignUpFollows,
             <<"setting", "check", "flag", "keys", "commitUser">>)
  OBVIOUS
<1>4. Going(SignUpRests, SignUpFollows,
             <<"check", "flag", "keys", "commitUser">>)
  OBVIOUS
<1>5. Going(SignUpRests, SignUpFollows,
             <<"flag", "keys", "commitUser">>)
  OBVIOUS
<1>6. Going(SignUpRests, SignUpFollows,
             <<"keys", "commitUser">>)
  OBVIOUS
<1>7. Going(SignUpRests, SignUpFollows,
             <<"commitUser">>)
  OBVIOUS
<1> HIDE DEF Going
<1> QED  BY <1>1, <1>2, <1>3, <1>4, <1>5, <1>6, <1>7

LEMMA NewTeamGoing == \A t \in Rests["newTeam"] :
    Going(Rests["newTeam"], Follows["newTeam"], t)
<1> USE StepsAre DEF Going, NextStep, AllSteps, TeamSteps, AccountSteps, Rests, Follows, NewTeamSteps
<1>1. Going(Rests["newTeam"], Follows["newTeam"],
             <<"look", "team", "setting", "check", "flag", "charge", "keys", "commit",
               "invite">>)
  OBVIOUS
<1>2. Going(Rests["newTeam"], Follows["newTeam"],
             <<"team", "setting", "check", "flag", "charge", "keys", "commit",
               "invite">>)
  OBVIOUS
<1>3. Going(Rests["newTeam"], Follows["newTeam"],
             <<"setting", "check", "flag", "charge", "keys", "commit", "invite">>)
  OBVIOUS
<1>4. Going(Rests["newTeam"], Follows["newTeam"],
             <<"check", "flag", "charge", "keys", "commit", "invite">>)
  OBVIOUS
<1>5. Going(Rests["newTeam"], Follows["newTeam"],
             <<"flag", "charge", "keys", "commit", "invite">>)
  OBVIOUS
<1>6. Going(Rests["newTeam"], Follows["newTeam"],
             <<"charge", "keys", "commit", "invite">>)
  OBVIOUS
<1>7. Going(Rests["newTeam"], Follows["newTeam"],
             <<"keys", "commit", "invite">>)
  OBVIOUS
<1>8. Going(Rests["newTeam"], Follows["newTeam"],
             <<"commit", "invite">>)
  OBVIOUS
<1>9. Going(Rests["newTeam"], Follows["newTeam"],
             <<"invite">>)
  OBVIOUS
<1> HIDE DEF Going
<1> QED  BY <1>1, <1>2, <1>3, <1>4, <1>5, <1>6, <1>7, <1>8, <1>9

LEMMA RenameGoing == \A t \in Rests["rename"] :
    Going(Rests["rename"], Follows["rename"], t)
<1> USE StepsAre DEF Going, NextStep, AllSteps, TeamSteps, AccountSteps, Rests, Follows, RenameSteps
<1>1. Going(Rests["rename"], Follows["rename"],
             <<"read", "row", "check", "drop", "flag">>)
  OBVIOUS
<1>2. Going(Rests["rename"], Follows["rename"],
             <<"row", "check", "drop", "flag">>)
  OBVIOUS
<1>3. Going(Rests["rename"], Follows["rename"],
             <<"check", "drop", "flag">>)
  OBVIOUS
<1>4. Going(Rests["rename"], Follows["rename"],
             <<"drop", "flag">>)
  OBVIOUS
<1>5. Going(Rests["rename"], Follows["rename"],
             <<"flag">>)
  OBVIOUS
<1> HIDE DEF Going
<1> QED  BY <1>1, <1>2, <1>3, <1>4, <1>5

LEMMA CloseGoing == \A t \in Rests["close"] :
    Going(Rests["close"], Follows["close"], t)
<1> USE StepsAre DEF Going, NextStep, AllSteps, TeamSteps, AccountSteps, Rests, Follows, CloseSteps
<1>1. Going(Rests["close"], Follows["close"],
             <<"release", "unflag", "unflag", "commitClose">>)
  OBVIOUS
<1>2. Going(Rests["close"], Follows["close"],
             <<"unflag", "unflag", "commitClose">>)
  OBVIOUS
<1>3. Going(Rests["close"], Follows["close"],
             <<"unflag", "commitClose">>)
  OBVIOUS
<1>4. Going(Rests["close"], Follows["close"],
             <<"commitClose">>)
  OBVIOUS
<1> HIDE DEF Going
<1> QED  BY <1>1, <1>2, <1>3, <1>4

LEMMA AskGoing == \A t \in Rests["ask"] :
    Going(Rests["ask"], Follows["ask"], t)
<1> USE StepsAre DEF Going, NextStep, AllSteps, TeamSteps, AccountSteps, Rests, Follows, AskSteps
<1>1. Going(Rests["ask"], Follows["ask"],
             <<"lookUp", "publish", "store">>)
  OBVIOUS
<1>2. Going(Rests["ask"], Follows["ask"],
             <<"publish", "store">>)
  OBVIOUS
<1>3. Going(Rests["ask"], Follows["ask"],
             <<"store">>)
  OBVIOUS
<1> HIDE DEF Going
<1> QED  BY <1>1, <1>2, <1>3

LEMMA ConfirmGoing == \A t \in Rests["confirm"] :
    Going(Rests["confirm"], Follows["confirm"], t)
<1> USE StepsAre DEF Going, NextStep, AllSteps, TeamSteps, AccountSteps, Rests, Follows, ConfirmSteps
<1>1. Going(Rests["confirm"], Follows["confirm"],
             <<"compare", "mark">>)
  OBVIOUS
<1>2. Going(Rests["confirm"], Follows["confirm"],
             <<"mark">>)
  OBVIOUS
<1> HIDE DEF Going
<1> QED  BY <1>1, <1>2

LEMMA TemporaryGoing == \A t \in Rests["temporary"] :
    Going(Rests["temporary"], Follows["temporary"], t)
<1> USE StepsAre DEF Going, NextStep, AllSteps, TeamSteps, AccountSteps, Rests, Follows, TemporarySteps
<1>1. Going(Rests["temporary"], Follows["temporary"],
             <<"saveTemporary">>)
  OBVIOUS
<1> HIDE DEF Going
<1> QED  BY <1>1

LEMMA SetPhoneGoing == \A t \in Rests["setPhone"] :
    Going(Rests["setPhone"], Follows["setPhone"], t)
<1> USE StepsAre DEF Going, NextStep, AllSteps, TeamSteps, AccountSteps, Rests, Follows, SetPhoneSteps
<1>1. Going(Rests["setPhone"], Follows["setPhone"],
             <<"match", "setPhone", "mark">>)
  OBVIOUS
<1>2. Going(Rests["setPhone"], Follows["setPhone"],
             <<"setPhone", "mark">>)
  OBVIOUS
<1>3. Going(Rests["setPhone"], Follows["setPhone"],
             <<"mark">>)
  OBVIOUS
<1> HIDE DEF Going
<1> QED  BY <1>1, <1>2, <1>3

LEMMA LeaveGoing == \A t \in Rests["leave"] :
    Going(Rests["leave"], Follows["leave"], t)
<1> USE StepsAre DEF Going, NextStep, AllSteps, TeamSteps, AccountSteps, Rests, Follows, LeaveSteps
<1>1. Going(Rests["leave"], Follows["leave"],
             <<"load", "erase", "dropKeys", "drop">>)
  OBVIOUS
<1>2. Going(Rests["leave"], Follows["leave"],
             <<"erase", "dropKeys", "drop">>)
  OBVIOUS
<1>3. Going(Rests["leave"], Follows["leave"],
             <<"dropKeys", "drop">>)
  OBVIOUS
<1>4. Going(Rests["leave"], Follows["leave"],
             <<"drop">>)
  OBVIOUS
<1> HIDE DEF Going
<1> QED  BY <1>1, <1>2, <1>3, <1>4

LEMMA EmailSignUpGoing == \A t \in Rests["emailSignUp"] : Going(Rests["emailSignUp"], Follows["emailSignUp"], t)
<1>1. SignUpRests \subseteq Rests["emailSignUp"] /\ SignUpFollows \subseteq Follows["emailSignUp"]
  BY DEF Rests, Follows, OAuthRests, OAuthFollows
<1>2. \A t \in SignUpRests : Going(Rests["emailSignUp"], Follows["emailSignUp"], t)
  BY <1>1, SignUpGoing DEF Going
<1> USE StepsAre DEF Going, NextStep, AllSteps, TeamSteps, AccountSteps, Rests, Follows, EmailSignUpSteps, SignUpRests, SignUpSteps
<1>3. Going(Rests["emailSignUp"], Follows["emailSignUp"],
             <<"match", "mark", "temporary", "recheck", "look", "team", "setting",
               "check", "flag", "keys", "commitUser">>)
  OBVIOUS
<1>4. Going(Rests["emailSignUp"], Follows["emailSignUp"],
             <<"mark", "temporary", "recheck", "look", "team", "setting", "check",
               "flag", "keys", "commitUser">>)
  OBVIOUS
<1>5. Going(Rests["emailSignUp"], Follows["emailSignUp"],
             <<"temporary", "recheck", "look", "team", "setting", "check", "flag",
               "keys", "commitUser">>)
  OBVIOUS
<1>6. Going(Rests["emailSignUp"], Follows["emailSignUp"],
             <<"recheck", "look", "team", "setting", "check", "flag", "keys",
               "commitUser">>)
  OBVIOUS
<1> HIDE DEF Going, SignUpRests, SignUpFollows
<1> QED  BY <1>2, <1>3, <1>4, <1>5, <1>6

LEMMA PhoneSignUpGoing == \A t \in Rests["phoneSignUp"] : Going(Rests["phoneSignUp"], Follows["phoneSignUp"], t)
<1>1. SignUpRests \subseteq Rests["phoneSignUp"] /\ SignUpFollows \subseteq Follows["phoneSignUp"]
  BY DEF Rests, Follows, OAuthRests, OAuthFollows
<1>2. \A t \in SignUpRests : Going(Rests["phoneSignUp"], Follows["phoneSignUp"], t)
  BY <1>1, SignUpGoing DEF Going
<1> USE StepsAre DEF Going, NextStep, AllSteps, TeamSteps, AccountSteps, Rests, Follows, PhoneSignUpSteps, SignUpRests, SignUpSteps
<1>3. Going(Rests["phoneSignUp"], Follows["phoneSignUp"],
             <<"status", "search", "look", "team", "setting", "check", "flag", "keys",
               "commitUser">>)
  OBVIOUS
<1>4. Going(Rests["phoneSignUp"], Follows["phoneSignUp"],
             <<"search", "look", "team", "setting", "check", "flag", "keys",
               "commitUser">>)
  OBVIOUS
<1> HIDE DEF Going, SignUpRests, SignUpFollows
<1> QED  BY <1>2, <1>3, <1>4

LEMMA OAuthGoing == \A t \in OAuthRests : Going(OAuthRests, OAuthFollows, t)
<1>1. SignUpRests \subseteq OAuthRests /\ SignUpFollows \subseteq OAuthFollows
  BY DEF Rests, Follows, OAuthRests, OAuthFollows
<1>2. \A t \in SignUpRests : Going(OAuthRests, OAuthFollows, t)
  BY <1>1, SignUpGoing DEF Going
<1> USE StepsAre DEF Going, NextStep, AllSteps, TeamSteps, AccountSteps, OAuthRests, OAuthFollows, OAuthSteps, LinkSteps
<1>3. Going(OAuthRests, OAuthFollows,
             <<"evaluate", "find">>)
  OBVIOUS
<1>4. Going(OAuthRests, OAuthFollows,
             <<"find">>)
  OBVIOUS
<1>5. Going(OAuthRests, OAuthFollows,
             <<"findAccount", "saveAccount">>)
  OBVIOUS
<1>6. Going(OAuthRests, OAuthFollows,
             <<"saveAccount">>)
  OBVIOUS
<1> HIDE DEF Going, SignUpRests, SignUpFollows
<1> QED  BY <1>2, <1>3, <1>4, <1>5, <1>6

-----------------------------------------------------------------------------
(* What a step of Next does to the handlers.                                 *)
AllOps == Ops \cup AccountOps
SigningUp == Making \ {"newTeam"}
CoreInv == TypeOK /\ HandlersInv

LEMMA Table ==
    ASSUME NEW op \in AllOps, NEW s, NEW n, <<s, n>> \in Follows[op]
    PROVE  /\ s = "look" => op \in Making /\ n = "team"
           /\ s = "team" => op \in Making /\ n = "setting"
           /\ s = "setting" => op \in Making /\ n = "check"
           /\ s = "check" => \/ op \in Making /\ n = "flag"
                             \/ op = "rename" /\ n = "drop"
           /\ s = "drop" => \/ op = "rename" /\ n = "flag"
                            \/ op = "leave" /\ n = "none"
           /\ s = "flag" => \/ op = "newTeam" /\ n = "charge"
                            \/ op \in SigningUp /\ n = "keys"
                            \/ op = "rename" /\ n = "none"
           /\ s = "charge" => op = "newTeam" /\ n = "keys"
           /\ s = "keys" => \/ op = "newTeam" /\ n = "commit"
                            \/ op \in SigningUp /\ n = "commitUser"
           /\ s = "commit" => op = "newTeam" /\ n = "invite"
           /\ s = "invite" => op = "newTeam" /\ n = "none"
           /\ s = "commitUser" => op \in SigningUp /\ n = "none"
           /\ s = "read" => op = "rename" /\ n = "row"
           /\ s = "row" => op = "rename" /\ n = "check"
           /\ s = "release" => op = "close" /\ n = "unflag"
           /\ s = "unflag" => op = "close" /\ n \in {"unflag", "commitClose"}
           /\ s = "commitClose" => op = "close" /\ n = "none"
           /\ s = "lookUp" => op = "ask" /\ n = "publish"
           /\ s = "publish" => op = "ask" /\ n = "store"
           /\ s = "store" => op = "ask" /\ n = "none"
           /\ s = "compare" => op = "confirm" /\ n = "mark"
           /\ s = "mark" => \/ op \in {"confirm", "setPhone"} /\ n = "none"
                            \/ op = "emailSignUp" /\ n = "temporary"
           /\ s = "saveTemporary" => op = "temporary" /\ n = "none"
           /\ s = "match" => \/ op = "emailSignUp" /\ n = "mark"
                             \/ op = "setPhone" /\ n = "setPhone"
           /\ s = "temporary" => op = "emailSignUp" /\ n = "recheck"
           /\ s = "recheck" => op = "emailSignUp" /\ n = "look"
           /\ s = "status" => op = "phoneSignUp" /\ n = "search"
           /\ s = "search" => op = "phoneSignUp" /\ n = "look"
           /\ s = "evaluate" => op \in {"oauth", "integrate"} /\ n = "find"
           /\ s = "find" => op \in {"oauth", "integrate"} /\ n \in {"look", "findAccount", "none"}
           /\ s = "findAccount" => op \in {"oauth", "integrate"} /\ n = "saveAccount"
           /\ s = "saveAccount" => op \in {"oauth", "integrate"} /\ n = "none"
           /\ s = "setPhone" => op = "setPhone" /\ n = "mark"
           /\ s = "load" => op = "leave" /\ n = "erase"
           /\ s = "erase" => op = "leave" /\ n = "dropKeys"
           /\ s = "dropKeys" => op = "leave" /\ n = "drop"
           /\ s # "none"
<1> USE DEF Making, SigningUp
<1>1. CASE op = "newTeam"  BY <1>1 DEF Follows
<1>2. CASE op = "rename"  BY <1>2 DEF Follows
<1>3. CASE op = "close"  BY <1>3 DEF Follows
<1>4. CASE op = "ask"  BY <1>4 DEF Follows
<1>5. CASE op = "confirm"  BY <1>5 DEF Follows
<1>6. CASE op = "temporary"  BY <1>6 DEF Follows
<1>7. CASE op = "emailSignUp"  BY <1>7 DEF Follows, SignUpFollows
<1>8. CASE op = "phoneSignUp"  BY <1>8 DEF Follows, SignUpFollows
<1>9. CASE op \in {"oauth", "integrate"}  BY <1>9 DEF Follows, OAuthFollows, SignUpFollows
<1>10. CASE op = "setPhone"  BY <1>10 DEF Follows
<1>11. CASE op = "leave"  BY <1>11 DEF Follows
<1> QED  BY <1>1, <1>2, <1>3, <1>4, <1>5, <1>6, <1>7, <1>8, <1>9, <1>10, <1>11
         DEF AllOps, Ops, AccountOps

(* What comes before a step.                                                *)
LEMMA AnyTable ==
    ASSUME NEW op \in AllOps, NEW s, NEW n, <<s, n>> \in Follows[op]
    PROVE  /\ n \in {"check", "flag", "charge", "keys", "commit", "invite", "commitUser"} =>
                 \/ s \in {"setting", "check", "flag", "charge", "keys", "commit"}
                 \/ op \in {"rename", "close", "leave"}
           /\ n = "setting" => s = "team"
           /\ n = "publish" => s = "lookUp"
           /\ n = "store" => s = "publish"
<1>1. CASE op = "newTeam"  BY <1>1 DEF Follows
<1>2. CASE op \in {"rename", "close", "leave"}  BY <1>2 DEF Follows
<1>3. CASE op = "ask"  BY <1>3 DEF Follows
<1>4. CASE op = "confirm"  BY <1>4 DEF Follows
<1>5. CASE op = "temporary"  BY <1>5 DEF Follows
<1>6. CASE op = "emailSignUp"  BY <1>6 DEF Follows, SignUpFollows
<1>7. CASE op = "phoneSignUp"  BY <1>7 DEF Follows, SignUpFollows
<1>8. CASE op \in {"oauth", "integrate"}  BY <1>8 DEF Follows, OAuthFollows, SignUpFollows
<1>9. CASE op = "setPhone"  BY <1>9 DEF Follows
<1> QED  BY <1>1, <1>2, <1>3, <1>4, <1>5, <1>6, <1>7, <1>8, <1>9
         DEF AllOps, Ops, AccountOps

LEMMA AllGoing == \A op \in AllOps : \A t \in Rests[op] : Going(Rests[op], Follows[op], t)
<1>1. \A op \in {"oauth", "integrate"} : Rests[op] = OAuthRests /\ Follows[op] = OAuthFollows
  BY DEF Rests, Follows
<1> QED  BY <1>1, NewTeamGoing, RenameGoing, CloseGoing, AskGoing, ConfirmGoing, TemporaryGoing,
            EmailSignUpGoing, PhoneSignUpGoing, OAuthGoing, SetPhoneGoing, LeaveGoing
         DEF AllOps, Ops, AccountOps

(* What is said of calls and persons.                                       *)
LEMMA CallFacts ==
    ASSUME NEW c \in Calls
    PROVE  /\ c.op \in AllOps /\ c.person \in PersonType /\ Spoken(c.op, c.person)
           /\ c.op \in {"newTeam", "rename"} => c.name \in Names
           /\ c.op \in {"rename", "close"} => c.team \in TeamIds
           /\ NoCall # c
BY AccountsAssumption, WorkspacesAssumption DEF AllOps

(* A handler in flight, and what it has ahead.                              *)
LEMMA Flying ==
    ASSUME CoreInv, NEW r \in InFlight
    PROVE  /\ r \in Requests /\ request[r] \in RequestType
           /\ request[r].call \in Calls /\ request[r].call.op \in AllOps
           /\ request[r].todo # <<>> /\ request[r].todo \in Seq(Steps)
           /\ Going(Rests[request[r].call.op], Follows[request[r].call.op], request[r].todo)
           /\ Step(request[r]) = Head(request[r].todo)
           /\ WellFormed(request[r]) /\ HasCode(r)
           /\ Person(r) \in PersonType /\ Spoken(request[r].call.op, Person(r))
<1>1. r \in Requests /\ HandlerInv(r) /\ request[r] \in RequestType /\ request[r].todo # <<>>
  BY DEF CoreInv, HandlersInv, InFlight, TypeOK, WorkspacesTypeOK
<1>2. request[r].call \in Calls /\ request[r].todo \in Rests[request[r].call.op]
  BY <1>1 DEF HandlerInv, WellFormed
<1>3. Going(Rests[request[r].call.op], Follows[request[r].call.op], request[r].todo)
  BY <1>2, CallFacts, AllGoing
<1> QED  BY <1>1, <1>2, <1>3, CallFacts DEF Step, HandlerInv, Person, Going

(* Every other handler is where it was.                                     *)
Kept(s) ==
    /\ request'[s].call = request[s].call /\ request'[s].todo = request[s].todo
    /\ request'[s].team = request[s].team /\ request'[s].row = request[s].row
    /\ request'[s].name = request[s].name /\ request'[s].old = request[s].old
    /\ request'[s].wrote = request[s].wrote /\ request[s].raced \subseteq request'[s].raced
OthersKept(r) == \A s \in Requests \ {r} : Kept(s)
Marking == suspect' \subseteq Names /\ torn' \subseteq TeamIds /\ skewed' \in BOOLEAN
Works(r) ==
    /\ r \in InFlight /\ OthersKept(r) /\ Marking /\ request' \in [Requests -> RequestType]
    /\ \/ request'[r] = Idle(request[r].call)
       \/ /\ request'[r].call = request[r].call /\ WellFormed(request'[r])
          /\ request'[r].todo # <<>>
          /\ <<Step(request[r]), Step(request'[r])>> \in Follows[request[r].call.op]

LEMMA IdleType == \A c \in Calls \cup {NoCall} : Idle(c) \in RequestType /\ Idle(c).todo = <<>>
BY DEF Idle, RequestType

(* q is the local state of r but for what the step has changed.             *)
WellKept(r, q) ==
    LET o == request[r] IN
    /\ q \in RequestType /\ q.call = o.call /\ q.todo = o.todo
    /\ q.name = o.name \/ q.name \in Names
    /\ q.team = o.team \/ q.team \in TeamIds
    /\ q.row = o.row \/ q.row \in TeamIds
    /\ q.old = o.old \/ q.old \in Names \/ o.call.op = "close"
    /\ Step(o) \in {"read", "load"} => q.old \in Names
    /\ Step(o) = "team" => q.team \in TeamIds
    /\ Step(o) = "setting" => q.row \in TeamIds
    /\ o.call.op = "ask" /\ Step(o) # "store" => q.wrote = (Step(o) = "publish")

(* A handler that has something ahead is not done.                          *)
LEMMA Ahead ==
    ASSUME NEW op \in AllOps, NEW q, q.todo \in Rests[op]
    PROVE  Step(q) # "none"
<1>1. Going(Rests[op], Follows[op], q.todo)
  BY AllGoing
<1>2. q.todo # <<>> /\ <<Head(q.todo), NextStep(Tail(q.todo))>> \in Follows[op]
  BY <1>1 DEF Going
<1>3. Step(q) = Head(q.todo)
  BY <1>2 DEF Step
<1> QED  BY <1>2, <1>3, Table

LEMMA GoesWorks ==
    ASSUME CoreInv, NEW r \in InFlight, NEW q, WellKept(r, q), request'[r] = After(q),
           OthersKept(r), Marking, \A s \in Requests \ {r} : request'[s] \in RequestType,
           request' = [s \in Requests |-> request'[s]]
    PROVE  Works(r)
<1> DEFINE o == request[r]
           op == o.call.op
<1>1. /\ r \in Requests /\ o \in RequestType /\ o.call \in Calls /\ op \in AllOps
      /\ Going(Rests[op], Follows[op], o.todo) /\ Step(o) = Head(o.todo) /\ WellFormed(o)
  BY Flying
<1>2. /\ Tail(o.todo) = <<>> \/ Tail(o.todo) \in Rests[op]
      /\ o.todo # <<>> /\ o.todo \in Seq(Steps)
      /\ <<Step(o), NextStep(Tail(o.todo))>> \in Follows[op]
  BY <1>1 DEF Going
<1>3. q \in RequestType /\ q.call = o.call /\ q.todo = o.todo
  BY DEF WellKept
<1>4. Tail(o.todo) \in Seq(Steps)
  BY <1>2
<1>5. CASE Tail(o.todo) = <<>>
  <2>1. request'[r] = Idle(o.call)
    BY <1>3, <1>5 DEF After
  <2>2. request' \in [Requests -> RequestType]
    BY <2>1, <1>1, IdleType
  <2> QED  BY <2>1, <2>2 DEF Works
<1>6. CASE Tail(o.todo) # <<>>
  <2>1. request'[r] = [q EXCEPT !.todo = Tail(o.todo)]
    BY <1>3, <1>6 DEF After
  <2>2. PICK p : p = request'[r]
    OBVIOUS
  <2>3. /\ p.call = o.call /\ p.todo = Tail(o.todo) /\ p.team = q.team /\ p.row = q.row
        /\ p.name = q.name /\ p.wrote = q.wrote /\ p.old = q.old /\ p \in RequestType
    BY <2>1, <2>2, <1>3, <1>4 DEF RequestType
  <2>4. Step(p) = NextStep(Tail(o.todo))
    BY <2>3, <1>6 DEF Step, NextStep
  <2>5. request' \in [Requests -> RequestType]
    BY <2>2, <2>3
  <2> HIDE DEF o, op
  <2>6. <<Step(o), Step(p)>> \in Follows[op] /\ op \in AllOps
    BY <2>4, <1>1, <1>2
  <2>7. WellFormed(p)
    <3>1. p.call \in Calls /\ p.todo \in Rests[p.call.op]
      BY <1>1, <1>2, <1>6, <2>3 DEF op
    <3>2. p.call.op \in Making \cup {"rename"} => p.name \in Names
      BY <1>1, <2>3 DEF WellKept, WellFormed, o
    <3>3. HasTeam(p) => p.team \in TeamIds
      <4>1. HasTeam(p) => HasTeam(o) \/ Step(o) = "team"
        <5>1. CASE Step(p) = "setting"
          <6>1. Step(o) = "team"
            BY <2>6, <5>1, AnyTable
          <6> QED  BY <6>1
        <5>2. CASE Step(p) \in {"check", "flag", "charge", "keys", "commit", "invite",
                                "commitUser"}
          <6>1. \/ Step(o) \in {"setting", "check", "flag", "charge", "keys", "commit"}
                \/ op \in {"rename", "close", "leave"}
            BY <2>6, <5>2, AnyTable
          <6> QED  BY <6>1 DEF HasTeam, op
        <5> QED  BY <2>3, <5>1, <5>2 DEF HasTeam
      <4> QED  BY <4>1, <1>1, <2>3 DEF WellKept, WellFormed, o
    <3>4. HasRow(p) => p.row \in TeamIds
      <4>1. HasRow(p) => HasRow(o) \/ Step(o) = "setting"
        <5>1. CASE Step(p) \in {"check", "flag", "charge", "keys", "commit", "invite",
                                "commitUser"}
          <6>1. \/ Step(o) \in {"setting", "check", "flag", "charge", "keys", "commit"}
                \/ op \in {"rename", "close", "leave"}
            BY <2>6, <5>1, AnyTable
          <6> QED  BY <6>1, <2>3 DEF HasRow, op, Making
        <5> QED  BY <2>3, <5>1 DEF HasRow
      <4> QED  BY <4>1, <1>1, <2>3 DEF WellKept, WellFormed, o
    <3>5. p.call.op = "ask" => p.wrote = (Step(p) = "store")
      <4>1. Step(p) # "none"
        BY <2>6, <3>1, <2>3, Ahead DEF op
      <4>2. op = "ask" => (Step(o) = "publish" <=> Step(p) = "store") /\ Step(o) # "store"
        BY <2>6, <4>1 DEF Follows
      <4> QED  BY <4>2, <2>3 DEF WellKept, o, op
    <3>6. HasOld(p) => p.old \in Names
      <4>1. HasOld(p) => HasOld(o) \/ Step(o) \in {"read", "load"}
        BY <2>3 DEF HasOld
      <4>2. HasOld(p) => o.call.op # "close"
        BY <2>3 DEF HasOld
      <4> QED  BY <4>1, <4>2, <1>1, <2>3 DEF WellKept, WellFormed, o
    <3> QED  BY <3>1, <3>2, <3>3, <3>4, <3>5, <3>6 DEF WellFormed
  <2> QED  BY <2>2, <2>3, <2>5, <2>6, <2>7, <1>6 DEF Works, o, op
<1> QED  BY <1>5, <1>6

LEMMA WritesWorks ==
    ASSUME CoreInv, NEW r \in InFlight, NEW q, WellKept(r, q),
           request' = [request EXCEPT ![r] = After(q)], Marking
    PROVE  Works(r)
<1>1. r \in Requests /\ request \in [Requests -> RequestType]
  BY DEF InFlight, CoreInv, TypeOK, WorkspacesTypeOK
<1>2. /\ request'[r] = After(q) /\ \A s \in Requests \ {r} : request'[s] = request[s]
      /\ request' = [s \in Requests |-> request'[s]]
  BY <1>1
<1>3. OthersKept(r)
  BY <1>2 DEF OthersKept, Kept
<1> QED  BY <1>1, <1>2, <1>3, GoesWorks

LEMMA Unmarked == ASSUME CoreInv, NoDoubt PROVE Marking
BY DEF NoDoubt, observed, Marking, CoreInv, TypeOK, WorkspacesTypeOK

LEMMA Doubted == ASSUME CoreInv, NEW q \in RequestType, Doubts(q) PROVE Marking
BY DEF Doubts, NamesOf, RequestType, Marking, CoreInv, TypeOK, WorkspacesTypeOK

LEMMA AdvanceWorks ==
    ASSUME CoreInv, NEW r \in InFlight, NEW q, WellKept(r, q), Advance(r, q)
    PROVE  Works(r)
BY Unmarked, WritesWorks DEF Advance

LEMMA StopWorks ==
    ASSUME CoreInv, NEW r \in InFlight, Stop(r), Marking
    PROVE  Works(r)
<1>1. r \in Requests /\ request \in [Requests -> RequestType] /\ request[r].call \in Calls
  BY Flying DEF CoreInv, TypeOK, WorkspacesTypeOK
<1>2. /\ request'[r] = Idle(request[r].call)
      /\ \A s \in Requests \ {r} : request'[s] = request[s]
      /\ request' \in [Requests -> RequestType]
  BY <1>1, IdleType DEF Stop
<1>3. OthersKept(r)
  BY <1>2 DEF OthersKept, Kept
<1> QED  BY <1>2, <1>3 DEF Works

LEMMA RefuseWorks ==
    ASSUME CoreInv, NEW r \in InFlight, Refuse(r)
    PROVE  Works(r)
BY Unmarked, StopWorks DEF Refuse

LEMMA DoingStep ==
    ASSUME CoreInv, NEW r \in Requests, NEW step, Doing(r, step)
    PROVE  r \in InFlight /\ Step(request[r]) = step
BY DEF Doing, InFlight, Step

(* A step that leaves the local state as it is, but for wrote.              *)
LEMMA SameKept ==
    ASSUME CoreInv, NEW r \in InFlight,
           Step(request[r]) \notin {"team", "setting", "read", "load"}
    PROVE  /\ Step(request[r]) # "publish" => WellKept(r, request[r])
           /\ Step(request[r]) # "lookUp" => WellKept(r, Wrote(r))
<1> DEFINE o == request[r]
<1>1. o \in RequestType /\ WellFormed(o)
  BY Flying
<1>2. o.call.op = "ask" /\ Step(o) # "store" => Step(o) \in {"lookUp", "publish"} /\ o.wrote = FALSE
  <2>1. <<Step(o), NextStep(Tail(o.todo))>> \in Follows[o.call.op]
    BY Flying DEF Going
  <2> HIDE DEF o
  <2>2. o.call.op = "ask" => Step(o) \in {"lookUp", "publish", "store"}
    BY <2>1 DEF Follows
  <2> QED  BY <1>1, <2>2 DEF WellFormed, RequestType
<1>3. PICK w : w = Wrote(r)
  OBVIOUS
<1>4. /\ w.call = o.call /\ w.todo = o.todo /\ w.team = o.team /\ w.row = o.row
      /\ w.name = o.name /\ w.wrote = TRUE /\ w.old = o.old /\ w \in RequestType
  BY <1>1, <1>3 DEF Wrote, RequestType
<1>5. Step(o) # "publish" => WellKept(r, o)
  BY <1>1, <1>2 DEF WellKept
<1>6. Step(o) # "lookUp" => WellKept(r, w)
  BY <1>1, <1>2, <1>4 DEF WellKept
<1> QED  BY <1>3, <1>5, <1>6

-----------------------------------------------------------------------------
(* The steps of Workspaces.                                                  *)
Tables ==
    /\ teams \in [TeamIds -> {"unused", "open", "closed", "left"}]
    /\ settings \in [TeamIds -> Rows \cup {Unused, Released}]
    /\ lastTeam \in TeamIds \cup {0} /\ lastSetting \in TeamIds \cup {0}
    /\ flags \subseteq Names
    /\ keys \in [TeamIds -> SUBSET (TeamKeys \cup {"invitations"})]
    /\ charges \subseteq TeamIds

LEMMA TablesAre == CoreInv => Tables
BY DEF CoreInv, TypeOK, WorkspacesTypeOK, Tables

LEMMA NothingKeeps == ASSUME CoreInv, Nothing PROVE Tables'
BY TablesAre DEF Nothing, Tables

(* The handler of a step, and where it is.                                  *)
LEMMA AtStep ==
    ASSUME CoreInv, NEW r \in Requests, NEW step, Doing(r, step)
    PROVE  /\ r \in InFlight /\ Step(request[r]) = step
           /\ request[r] \in RequestType /\ WellFormed(request[r])
           /\ request[r].call \in Calls /\ request[r].call.op \in AllOps
           /\ \E n : <<step, n>> \in Follows[request[r].call.op]
<1>1. r \in InFlight /\ Step(request[r]) = step
  BY DoingStep
<1>2. /\ request[r] \in RequestType /\ WellFormed(request[r])
      /\ request[r].call \in Calls /\ request[r].call.op \in AllOps
      /\ Going(Rests[request[r].call.op], Follows[request[r].call.op], request[r].todo)
      /\ Step(request[r]) = Head(request[r].todo)
  BY <1>1, Flying
<1> QED  BY <1>1, <1>2 DEF Going

(* Names that handlers take and give up.                                    *)
LEMMA AtNames ==
    ASSUME CoreInv, NEW r \in Requests, NEW step, Doing(r, step)
    PROVE  /\ step \in {"look", "team", "setting", "check", "flag", "charge", "keys",
                        "commit", "invite", "commitUser", "row"} => request[r].name \in Names
           /\ step \in {"setting", "check", "flag", "charge", "keys", "commit", "invite",
                        "commitUser", "read", "row", "release", "unflag", "commitClose",
                        "load", "erase", "dropKeys", "drop"} => request[r].team \in TeamIds
           /\ step \in {"charge", "keys", "commit", "invite", "commitUser"} =>
                 request[r].row \in TeamIds /\ request[r].call.op \in Making
           /\ step = "drop" => request[r].old \in Names
<1>1. /\ Step(request[r]) = step /\ WellFormed(request[r])
      /\ request[r].call.op \in AllOps
  BY AtStep
<1>2. PICK n : <<step, n>> \in Follows[request[r].call.op]
  BY AtStep
<1>3. PICK op : op = request[r].call.op
  OBVIOUS
<1>4. /\ step \in {"look", "team", "setting", "check", "flag", "charge", "keys",
                   "commit", "invite", "commitUser", "row"} => op \in Making \cup {"rename"}
      /\ step \in {"read", "row", "release", "unflag", "commitClose",
                   "load", "erase", "dropKeys", "drop"} => op \in {"rename", "close", "leave"}
      /\ step = "drop" => op \in {"rename", "leave"}
      /\ step \in {"charge", "keys", "commit", "invite", "commitUser"} => op \in Making
  BY <1>1, <1>2, <1>3, Table DEF SigningUp, Making
<1> QED  BY <1>1, <1>3, <1>4 DEF WellFormed, HasTeam, HasRow, HasOld

LEMMA Chosen == ASSUME NEW S, S # {} PROVE (CHOOSE s \in S : TRUE) \in S
OBVIOUS

LEMMA NameOfNames ==
    ASSUME CoreInv, NEW t, RowsOf(t) # {}
    PROVE  NameOf(t) \in Names
<1>1. PICK s : s = CHOOSE u \in RowsOf(t) : TRUE
  OBVIOUS
<1>2. s \in RowsOf(t)
  BY <1>1, Chosen
<1>3. settings[s] \in Rows
  BY <1>2, TablesAre DEF RowsOf, IsRow, Tables
<1> QED  BY <1>1, <1>3 DEF NameOf, Rows

LEMMA LookWorks ==
    ASSUME CoreInv, NEW r \in Requests, Look(r)
    PROVE  Works(r) /\ Tables'
<1>1. r \in InFlight /\ Step(request[r]) = "look" /\ request[r] \in RequestType
  BY AtStep DEF Look
<1>2. request[r].name \in Names
  BY AtNames DEF Look
<1>3. CASE Refuse(r)
  BY <1>1, <1>3, RefuseWorks, NothingKeeps DEF Look
<1>4. CASE Advance(r, request[r])
  BY <1>1, <1>4, SameKept, AdvanceWorks, NothingKeeps DEF Look
<1>5. ASSUME NEW k \in Numbers,
             Advance(r, [request[r] EXCEPT !.name = DefaultName(@, k)])
      PROVE  Works(r)
  <2>1. DefaultName(request[r].name, k) \in Names
    BY <1>2, WorkspacesAssumption DEF DefaultName
  <2>2. PICK q : q = [request[r] EXCEPT !.name = DefaultName(@, k)]
    OBVIOUS
  <2>3. /\ q.call = request[r].call /\ q.todo = request[r].todo /\ q.team = request[r].team
        /\ q.row = request[r].row /\ q.old = request[r].old /\ q.wrote = request[r].wrote
        /\ q.name \in Names /\ q \in RequestType
    BY <1>1, <2>1, <2>2 DEF RequestType
  <2>4. WellKept(r, request[r])
    BY <1>1, SameKept
  <2>5. WellKept(r, q)
    BY <2>3, <2>4, <1>1 DEF WellKept
  <2> QED  BY <1>1, <1>5, <2>2, <2>5, AdvanceWorks
<1> QED  BY <1>3, <1>4, <1>5, NothingKeeps DEF Look

LEMMA InsertWorks ==
    ASSUME CoreInv, NEW r \in Requests, InsertTeam(r) \/ InsertSetting(r)
    PROVE  Works(r) /\ Tables'
<1>1. CASE InsertTeam(r)
  <2>1. r \in InFlight /\ Step(request[r]) = "team" /\ request[r] \in RequestType
        /\ request[r].call.op \in Making
    <3>1. r \in InFlight /\ Step(request[r]) = "team" /\ request[r] \in RequestType
      BY <1>1, AtStep DEF InsertTeam
    <3>2. PICK n : <<"team", n>> \in Follows[request[r].call.op] /\ request[r].call.op \in AllOps
      BY <1>1, AtStep DEF InsertTeam
    <3> QED  BY <3>1, <3>2, Table
  <2>2. PICK q : q = [request[r] EXCEPT !.team = lastTeam + 1]
    OBVIOUS
  <2>3. /\ q.call = request[r].call /\ q.todo = request[r].todo /\ q.row = request[r].row
        /\ q.old = request[r].old /\ q.wrote = request[r].wrote /\ q.name = request[r].name
        /\ q.team \in TeamIds /\ q \in RequestType
    BY <1>1, <2>1, <2>2 DEF InsertTeam, RequestType
  <2>4. WellKept(r, q)
    BY <2>1, <2>3 DEF WellKept, Making
  <2>5. Works(r)
    BY <1>1, <2>1, <2>2, <2>4, AdvanceWorks DEF InsertTeam
  <2> QED  BY <1>1, <2>5, TablesAre DEF InsertTeam, Tables
<1>2. CASE InsertSetting(r)
  <2>1. r \in InFlight /\ Step(request[r]) = "setting" /\ request[r] \in RequestType
        /\ request[r].call.op \in Making
    <3>1. r \in InFlight /\ Step(request[r]) = "setting" /\ request[r] \in RequestType
      BY <1>2, AtStep DEF InsertSetting
    <3>2. PICK n : <<"setting", n>> \in Follows[request[r].call.op] /\ request[r].call.op \in AllOps
      BY <1>2, AtStep DEF InsertSetting
    <3> QED  BY <3>1, <3>2, Table
  <2>2. PICK q : q = [request[r] EXCEPT !.row = lastSetting + 1]
    OBVIOUS
  <2>3. /\ q.call = request[r].call /\ q.todo = request[r].todo /\ q.team = request[r].team
        /\ q.old = request[r].old /\ q.wrote = request[r].wrote /\ q.name = request[r].name
        /\ q.row \in TeamIds /\ q \in RequestType
    BY <1>2, <2>1, <2>2 DEF InsertSetting, RequestType
  <2>4. WellKept(r, q)
    BY <2>1, <2>3 DEF WellKept, Making
  <2>5. Marking
    BY <1>2 DEF InsertSetting, Marking, CoreInv, TypeOK, WorkspacesTypeOK
  <2>6. request' = [request EXCEPT ![r] = After(q)]
    BY <1>2, <2>2 DEF InsertSetting
  <2>7. Works(r)
    BY <2>1, <2>4, <2>5, <2>6, WritesWorks
  <2> QED  BY <1>2, <2>7, TablesAre DEF InsertSetting, Tables
<1> QED  BY <1>1, <1>2

LEMMA CheckFlagWorks ==
    ASSUME CoreInv, NEW r \in Requests, CheckFlag(r)
    PROVE  Works(r) /\ Tables'
<1>1. r \in InFlight /\ Step(request[r]) = "check" /\ request[r] \in RequestType
  BY AtStep DEF CheckFlag
<1>2. CASE Stop(r) /\ Doubts(request[r])
  BY <1>1, <1>2, Doubted, StopWorks, NothingKeeps DEF CheckFlag
<1>3. CASE Stop(r) /\ NoDoubt
  BY <1>1, <1>3, Unmarked, StopWorks, NothingKeeps DEF CheckFlag
<1>4. CASE Advance(r, [request[r] EXCEPT !.raced = @ \ {request[r].name}])
  <2>1. PICK q : q = [request[r] EXCEPT !.raced = @ \ {request[r].name}]
    OBVIOUS
  <2>2. /\ q.call = request[r].call /\ q.todo = request[r].todo /\ q.team = request[r].team
        /\ q.old = request[r].old /\ q.wrote = request[r].wrote /\ q.name = request[r].name
        /\ q.row = request[r].row /\ q \in RequestType
    BY <1>1, <2>1 DEF RequestType
  <2>3. WellKept(r, request[r])
    BY <1>1, SameKept
  <2>4. WellKept(r, q)
    BY <2>2, <2>3, <1>1 DEF WellKept
  <2> QED  BY <1>1, <1>4, <2>1, <2>4, AdvanceWorks, NothingKeeps DEF CheckFlag
<1> QED  BY <1>2, <1>3, <1>4 DEF CheckFlag

LEMMA DropFlagWorks ==
    ASSUME CoreInv, NEW r \in Requests, DropFlag(r)
    PROVE  Works(r) /\ Tables'
<1>1. r \in InFlight /\ Step(request[r]) = "drop" /\ request[r] \in RequestType
  BY AtStep DEF DropFlag
<1>2. request[r].old \in Names
  BY AtNames DEF DropFlag
<1>3. PICK w : w = Wrote(r)
  OBVIOUS
<1>4. w.old \in Names
  BY <1>1, <1>2, <1>3 DEF Wrote, RequestType
<1>5. /\ request' = [request EXCEPT ![r] = After(w)] /\ flags' = flags \ {w.old}
      /\ suspect' \subseteq suspect \cup {w.old} /\ UNCHANGED <<torn, skewed>>
      /\ UNCHANGED <<teams, settings, lastTeam, lastSetting, keys, charges>>
  BY <1>3 DEF DropFlag
<1>6. Marking
  BY <1>4, <1>5 DEF Marking, CoreInv, TypeOK, WorkspacesTypeOK
<1>7. WellKept(r, w)
  BY <1>1, <1>3, SameKept
<1> QED  BY <1>1, <1>5, <1>6, <1>7, WritesWorks, TablesAre DEF Tables

LEMMA SetFlagWorks ==
    ASSUME CoreInv, NEW r \in Requests, SetFlag(r)
    PROVE  Works(r) /\ Tables'
<1>1. r \in InFlight /\ Step(request[r]) = "flag" /\ request[r] \in RequestType
  BY AtStep DEF SetFlag
<1>2. request[r].name \in Names
  BY AtNames DEF SetFlag
<1>3. PICK w : w = Wrote(r)
  OBVIOUS
<1>4. w.name = request[r].name /\ w.raced = request[r].raced
  BY <1>1, <1>3 DEF Wrote, RequestType
<1>5. PICK n : n = request[r].name
  OBVIOUS
<1>6. /\ request' = [s \in Requests |->
             IF s = r THEN After(w)
             ELSE IF s \in InFlight
                  THEN [request[s] EXCEPT !.raced = @ \cup {n}] ELSE request[s]]
      /\ flags' = flags \cup {n}
      /\ suspect' \subseteq suspect \cup {n} /\ UNCHANGED <<torn, skewed>>
      /\ UNCHANGED <<teams, settings, lastTeam, lastSetting, keys, charges>>
  BY <1>3, <1>4, <1>5 DEF SetFlag
<1>7. Marking
  BY <1>2, <1>5, <1>6 DEF Marking, CoreInv, TypeOK, WorkspacesTypeOK
<1>8. WellKept(r, w)
  BY <1>1, <1>3, SameKept
<1>9. request'[r] = After(w) /\ request' = [s \in Requests |-> request'[s]]
  BY <1>6
<1>10. ASSUME NEW s \in Requests \ {r}
       PROVE  Kept(s) /\ request'[s] \in RequestType
  <2>1. request[s] \in RequestType
    BY DEF CoreInv, TypeOK, WorkspacesTypeOK
  <2>2. CASE s \in InFlight
    <3>1. request'[s] = [request[s] EXCEPT !.raced = @ \cup {n}]
      BY <1>6, <2>2
    <3> QED  BY <3>1, <2>1, <1>2, <1>5 DEF Kept, RequestType
  <2>3. CASE s \notin InFlight
    BY <1>6, <2>1, <2>3 DEF Kept
  <2> QED  BY <2>2, <2>3
<1>11. OthersKept(r)
  BY <1>10 DEF OthersKept
<1>12. Works(r)
  BY <1>1, <1>7, <1>8, <1>9, <1>10, <1>11, GoesWorks
<1> QED  BY <1>2, <1>5, <1>6, <1>12, TablesAre DEF Tables

LEMMA ChargeWorks ==
    ASSUME CoreInv, NEW r \in Requests, Charge(r)
    PROVE  Works(r) /\ Tables'
<1>1. r \in InFlight /\ Step(request[r]) = "charge" /\ request[r].team \in TeamIds
  BY AtStep, AtNames DEF Charge
<1>2. WellKept(r, Wrote(r))
  BY <1>1, SameKept
<1>3. Works(r)
  BY <1>1, <1>2, AdvanceWorks DEF Charge
<1> QED  BY <1>1, <1>3, TablesAre DEF Tables, Charge

LEMMA KeyOrderIs ==
    ASSUME NEW k \in 0..Len(KeyOrder)
    PROVE  {KeyOrder[i] : i \in 1..k} \subseteq TeamKeys
BY DEF KeyOrder, TeamKeys

LEMMA SetKeysWorks ==
    ASSUME CoreInv, NEW r \in Requests, SetKeys(r)
    PROVE  Works(r) /\ Tables'
<1>1. r \in InFlight /\ Step(request[r]) = "keys" /\ request[r].team \in TeamIds
      /\ request[r] \in RequestType
  BY AtStep, AtNames DEF SetKeys
<1>2. PICK k \in 0..Len(KeyOrder) :
          /\ keys' = [keys EXCEPT ![request[r].team] = @ \cup {KeyOrder[i] : i \in 1..k}]
          /\ \/ Advance(r, Wrote(r))
             \/ Stop(r) /\ Doubts(request[r])
  BY DEF SetKeys
<1>3. Works(r)
  <2>1. WellKept(r, Wrote(r))
    BY <1>1, SameKept
  <2> QED  BY <1>1, <1>2, <2>1, AdvanceWorks, Doubted, StopWorks
<1>4. {KeyOrder[i] : i \in 1..k} \subseteq TeamKeys
  BY KeyOrderIs
<1>5. keys' \in [TeamIds -> SUBSET (TeamKeys \cup {"invitations"})]
  BY <1>1, <1>2, <1>4, TablesAre DEF Tables
<1> QED  BY <1>3, <1>5, TablesAre DEF Tables, SetKeys

LEMMA ShowTeamWorks ==
    ASSUME CoreInv, NEW r \in Requests, Doing(r, "commit") \/ Doing(r, "commitUser"), ShowTeam(r)
    PROVE  Works(r) /\ Tables'
<1>1. r \in InFlight /\ Step(request[r]) \in {"commit", "commitUser"}
      /\ request[r] \in RequestType /\ request[r].team \in TeamIds
      /\ request[r].row \in TeamIds /\ request[r].name \in Names
  BY AtStep, AtNames
<1>2. PICK w : w = Wrote(r)
  OBVIOUS
<1>3. w.team \in TeamIds /\ w.row \in TeamIds /\ w.name \in Names
  BY <1>1, <1>2 DEF Wrote, RequestType
<1>4. /\ teams' = [teams EXCEPT ![w.team] = "open"]
      /\ settings' = [settings EXCEPT ![w.row] = Row(w.team, w.name)]
      /\ Advance(r, w)
      /\ UNCHANGED <<lastTeam, lastSetting, flags, keys, charges>>
  BY <1>2 DEF ShowTeam
<1>5. Works(r)
  BY <1>1, <1>2, <1>4, SameKept, AdvanceWorks
<1>6. Row(w.team, w.name) \in Rows
  BY <1>3 DEF Row, Rows
<1> QED  BY <1>3, <1>4, <1>5, <1>6, TablesAre DEF Tables

LEMMA InvitationsWork ==
    ASSUME CoreInv, NEW r \in Requests, SaveInvitations(r)
    PROVE  Works(r) /\ Tables'
<1>1. r \in InFlight /\ Step(request[r]) = "invite" /\ request[r].team \in TeamIds
  BY AtStep, AtNames DEF SaveInvitations
<1>2. Works(r)
  BY <1>1, SameKept, AdvanceWorks DEF SaveInvitations
<1> QED  BY <1>1, <1>2, TablesAre DEF Tables, SaveInvitations

LEMMA TakesOldName ==
    ASSUME CoreInv, NEW r \in InFlight, Step(request[r]) \in {"read", "load"},
           NEW n \in Names, Advance(r, [request[r] EXCEPT !.old = n])
    PROVE  Works(r)
<1>1. request[r] \in RequestType /\ WellFormed(request[r])
  BY Flying
<1>2. PICK q : q = [request[r] EXCEPT !.old = n]
  OBVIOUS
<1>3. /\ q.call = request[r].call /\ q.todo = request[r].todo /\ q.team = request[r].team
      /\ q.old \in Names /\ q.wrote = request[r].wrote /\ q.name = request[r].name
      /\ q.row = request[r].row /\ q \in RequestType
  BY <1>1, <1>2 DEF RequestType
<1>4. request[r].call.op # "ask"
  <2>1. <<Step(request[r]), NextStep(Tail(request[r].todo))>> \in Follows[request[r].call.op]
        /\ request[r].call.op \in AllOps
    BY Flying DEF Going
  <2> QED  BY <2>1, Table
<1>5. WellKept(r, q)
  BY <1>3, <1>4 DEF WellKept
<1> QED  BY <1>2, <1>5, AdvanceWorks

LEMMA ReadNameWorks ==
    ASSUME CoreInv, NEW r \in Requests, ReadName(r)
    PROVE  Works(r) /\ Tables'
<1>1. r \in InFlight /\ Step(request[r]) = "read"
  BY AtStep DEF ReadName
<1>2. CASE Refuse(r)
  BY <1>1, <1>2, RefuseWorks, NothingKeeps DEF ReadName
<1>3. CASE ~Refuse(r)
  <2>1. RowsOf(request[r].team) # {}
        /\ Advance(r, [request[r] EXCEPT !.old = NameOf(request[r].team)])
    BY <1>3 DEF ReadName
  <2>2. NameOf(request[r].team) \in Names
    BY <2>1, NameOfNames
  <2> QED  BY <1>1, <2>1, <2>2, TakesOldName, NothingKeeps DEF ReadName
<1> QED  BY <1>2, <1>3

LEMMA WriteNameWorks ==
    ASSUME CoreInv, NEW r \in Requests, WriteName(r)
    PROVE  Works(r) /\ Tables'
<1>1. r \in InFlight /\ Step(request[r]) = "row" /\ request[r] \in RequestType
      /\ request[r].team \in TeamIds /\ request[r].name \in Names
  BY AtStep, AtNames DEF WriteName
<1>2. PICK w : w = Wrote(r)
  OBVIOUS
<1>3. w.team \in TeamIds /\ w.name \in Names
  BY <1>1, <1>2 DEF Wrote, RequestType
<1>4. /\ settings' = [s \in TeamIds |->
            IF s \in RowsOf(w.team) THEN Row(w.team, w.name) ELSE settings[s]]
      /\ Advance(r, w)
      /\ UNCHANGED <<teams, lastTeam, lastSetting, flags, keys, charges>>
  BY <1>2 DEF WriteName
<1>5. Works(r)
  BY <1>1, <1>2, <1>4, SameKept, AdvanceWorks
<1>6. Row(w.team, w.name) \in Rows
  BY <1>3 DEF Row, Rows
<1>7. settings' \in [TeamIds -> Rows \cup {Unused, Released}]
  BY <1>4, <1>6, TablesAre DEF Tables
<1> QED  BY <1>4, <1>5, <1>7, TablesAre DEF Tables

LEMMA ReleaseRowWorks ==
    ASSUME CoreInv, NEW r \in Requests, ReleaseRow(r)
    PROVE  Works(r) /\ Tables'
<1>1. r \in InFlight /\ Step(request[r]) = "release"
  BY AtStep DEF ReleaseRow
<1>2. Refuse(r) \/ Advance(r, request[r])
  BY DEF ReleaseRow
<1> QED  BY <1>1, <1>2, SameKept, AdvanceWorks, RefuseWorks, NothingKeeps DEF ReleaseRow

LEMMA UnflagWorks ==
    ASSUME CoreInv, NEW r \in Requests, Unflag(r)
    PROVE  Works(r) /\ Tables'
<1>1. r \in InFlight /\ Step(request[r]) = "unflag" /\ request[r] \in RequestType
      /\ request[r].team \in TeamIds
  BY AtStep, AtNames DEF Unflag
<1>2. request[r].call.op = "close"
  <2>1. PICK n : <<"unflag", n>> \in Follows[request[r].call.op] /\ request[r].call.op \in AllOps
    BY AtStep DEF Unflag
  <2> QED  BY <2>1, Table
<1>3. PICK s : s = request[r].team
  OBVIOUS
<1>4. PICK w : w = Wrote(r)
  OBVIOUS
<1>5. PICK n : n = IF IsRow(s) THEN settings[s].name ELSE NoName
  OBVIOUS
<1>6. n \in Names \cup {NoName} /\ (IsRow(s) => settings[s].name \in Names)
  BY <1>1, <1>3, <1>5, TablesAre DEF Tables, Rows, IsRow
<1>7. PICK q : q = [w EXCEPT !.old = n]
  OBVIOUS
<1>8. /\ request' = [request EXCEPT ![r] = After(q)]
      /\ flags' \subseteq flags
      /\ suspect' \subseteq suspect \cup (IF IsRow(s) THEN {settings[s].name} ELSE {})
      /\ UNCHANGED <<teams, settings, lastTeam, lastSetting, keys, charges, torn, skewed>>
  BY <1>3, <1>4, <1>5, <1>7 DEF Unflag
<1>9. Marking
  BY <1>6, <1>8 DEF Marking, CoreInv, TypeOK, WorkspacesTypeOK
<1>10. WellKept(r, w)
  BY <1>1, <1>4, SameKept
<1>11. /\ q.call = w.call /\ q.todo = w.todo /\ q.team = w.team
       /\ q.wrote = w.wrote /\ q.name = w.name /\ q.row = w.row /\ q \in RequestType
  BY <1>6, <1>7, <1>10 DEF RequestType, WellKept
<1>12. WellKept(r, q)
  BY <1>1, <1>2, <1>10, <1>11 DEF WellKept
<1> QED  BY <1>1, <1>8, <1>9, <1>12, WritesWorks, TablesAre DEF Tables

LEMMA CommitCloseWorks ==
    ASSUME CoreInv, NEW r \in Requests, CommitClose(r)
    PROVE  Works(r) /\ Tables'
<1>1. r \in InFlight /\ Step(request[r]) = "commitClose" /\ request[r].team \in TeamIds
  BY AtStep, AtNames DEF CommitClose
<1>2. Works(r)
  BY <1>1, SameKept, AdvanceWorks DEF CommitClose
<1> QED  BY <1>1, <1>2, TablesAre DEF Tables, CommitClose

LEMMA FailWorks ==
    ASSUME CoreInv, NEW r \in Requests, Fail(r)
    PROVE  Works(r) /\ Tables'
<1>1. r \in InFlight /\ request[r] \in RequestType /\ Stop(r)
  BY Flying DEF Fail
<1>2. Marking
  BY <1>1, Unmarked, Doubted DEF Fail
<1> QED  BY <1>1, <1>2, StopWorks, NothingKeeps DEF Fail

LEMMA WorkspacesWorks ==
    ASSUME CoreInv, NEW r \in Requests, WorkspacesStep(r)
    PROVE  Works(r) /\ Tables'
<1>1. CASE Look(r)  BY <1>1, LookWorks
<1>2. CASE InsertTeam(r) \/ InsertSetting(r)  BY <1>2, InsertWorks
<1>3. CASE CheckFlag(r)  BY <1>3, CheckFlagWorks
<1>4. CASE DropFlag(r)  BY <1>4, DropFlagWorks
<1>5. CASE SetFlag(r)  BY <1>5, SetFlagWorks
<1>6. CASE Charge(r)  BY <1>6, ChargeWorks
<1>7. CASE SetKeys(r)  BY <1>7, SetKeysWorks
<1>8. CASE CommitTeam(r)  BY <1>8, ShowTeamWorks DEF CommitTeam
<1>9. CASE SaveInvitations(r)  BY <1>9, InvitationsWork
<1>10. CASE ReadName(r)  BY <1>10, ReadNameWorks
<1>11. CASE WriteName(r)  BY <1>11, WriteNameWorks
<1>12. CASE ReleaseRow(r)  BY <1>12, ReleaseRowWorks
<1>13. CASE Unflag(r)  BY <1>13, UnflagWorks
<1>14. CASE CommitClose(r)  BY <1>14, CommitCloseWorks
<1> QED  BY <1>1, <1>2, <1>3, <1>4, <1>5, <1>6, <1>7, <1>8, <1>9, <1>10, <1>11, <1>12,
            <1>13, <1>14 DEF WorkspacesStep

-----------------------------------------------------------------------------
(* The steps of Accounts.                                                    *)
PeopleOK ==
    /\ users \in [UserIds -> UserType \cup {Unused, Gone}]
    /\ accounts \in [UserIds -> [Providers -> 0..2]]
    /\ stored \in [Addresses -> Codes \cup {0}] /\ blank \subseteq Phones
    /\ verified \subseteq Addresses /\ temporary \subseteq Emails
    /\ mailbox \in [Addresses -> SUBSET Codes]
    /\ lastCode \in [Addresses -> Codes \cup {0}]
    /\ local \in [Requests -> LocalType]
    /\ confirmed \subseteq Addresses /\ waived \subseteq Phones
    /\ lapsed \in [Addresses -> Codes \cup {0}]
    /\ muddled \subseteq Addresses
    /\ met \in [UserIds -> SUBSET UserIds]

LEMMA PeopleAre == CoreInv => PeopleOK
BY DEF CoreInv, TypeOK, PeopleOK

LEMMA KeepsPeople == ASSUME CoreInv, Keeps PROVE PeopleOK'
BY PeopleAre DEF Keeps, PeopleOK, people, seen

LEMMA CodesAreNat == \A c \in Codes \cup {0} : c \in Nat
BY AccountsAssumption DEF Codes

(* What is left of the codes that others send.                              *)
CodeKept(r) ==
    /\ \A a \in Addresses : lastCode[a] <= lastCode'[a]
    /\ \A s \in Requests \ {r} : local'[s].code = local[s].code
    /\ \/ request'[r] = Idle(request[r].call)
       \/ Step(request[r]) # "lookUp" /\ local'[r].code = local[r].code
       \/ local'[r].code \in Codes /\ local'[r].code <= lastCode'[Address(r)]

LEMMA CodeSame ==
    ASSUME CoreInv, NEW r \in Requests, UNCHANGED lastCode,
           \A s \in Requests : local'[s].code = local[s].code,
           \/ request'[r] = Idle(request[r].call)
           \/ Step(request[r]) # "lookUp"
    PROVE  CodeKept(r)
<1>1. \A a \in Addresses : lastCode[a] \in Nat
  BY PeopleAre, CodesAreNat DEF PeopleOK
<1>2. \A a \in Addresses : lastCode[a] <= lastCode'[a]
  BY <1>1
<1> QED  BY <1>2 DEF CodeKept

LEMMA CodeLearnt ==
    ASSUME CoreInv, NEW r \in Requests, UNCHANGED lastCode, NEW l,
           Knows(r, l), l.code = local[r].code,
           \/ request'[r] = Idle(request[r].call)
           \/ Step(request[r]) # "lookUp"
    PROVE  CodeKept(r)
<1>1. \A s \in Requests : local'[s].code = local[s].code
  BY PeopleAre DEF Knows, PeopleOK
<1> QED  BY <1>1, CodeSame

(* Who a handler speaks of.                                                 *)
LEMMA AtPerson ==
    ASSUME CoreInv, NEW r \in Requests, NEW step, Doing(r, step)
    PROVE  /\ Person(r) \in PersonType
           /\ step \in {"lookUp", "publish", "store", "match", "compare", "mark", "temporary",
                        "recheck", "saveTemporary", "status", "search", "setPhone",
                        "evaluate", "find", "findAccount", "saveAccount", "commitUser"} =>
                 Address(r) \in Addresses
           /\ step = "saveTemporary" => Address(r) \in Emails
           /\ step = "setPhone" => Address(r) \in Phones
           /\ step \in {"setPhone", "load", "erase", "dropKeys"} => Person(r).user \in UserIds
<1>1. Spoken(request[r].call.op, Person(r)) /\ Person(r) \in PersonType
  BY DoingStep, Flying
<1>2. PICK n : <<step, n>> \in Follows[request[r].call.op] /\ request[r].call.op \in AllOps
  BY AtStep
<1>3. PICK op : op = request[r].call.op
  OBVIOUS
<1>4. /\ step \in {"lookUp", "publish", "store"} => op = "ask"
      /\ step \in {"match", "compare", "mark", "temporary", "recheck"} =>
            op \in {"emailSignUp", "setPhone", "confirm"}
      /\ step = "saveTemporary" => op = "temporary"
      /\ step \in {"status", "search"} => op = "phoneSignUp"
      /\ step \in {"evaluate", "find", "findAccount", "saveAccount"} =>
            op \in {"oauth", "integrate"}
      /\ step = "commitUser" => op \in {"emailSignUp", "phoneSignUp", "oauth", "integrate"}
      /\ step = "setPhone" => op = "setPhone"
      /\ step \in {"load", "erase", "dropKeys"} => op = "leave"
  BY <1>2, <1>3, Table DEF SigningUp, Making
<1> QED  BY <1>1, <1>3, <1>4 DEF Spoken, Address, Addresses

LEMMA LookUpWorks ==
    ASSUME CoreInv, NEW r \in Requests, LookUp(r)
    PROVE  Works(r) /\ Tables' /\ PeopleOK' /\ CodeKept(r)
<1>1. r \in InFlight /\ Step(request[r]) = "lookUp" /\ Address(r) \in Addresses
  BY AtStep, AtPerson DEF LookUp
<1>2. Works(r)
  BY <1>1, SameKept, AdvanceWorks DEF LookUp
<1>3. Tables'
  BY NothingKeeps DEF LookUp
<1>4. PICK a : a = Address(r)
  OBVIOUS
<1>5. a \in Addresses /\ lastCode[a] \in Nat /\ LastCode \in Nat /\ lastCode[a] < LastCode
      /\ \A b \in Addresses : lastCode[b] \in Nat
  BY <1>1, <1>4, PeopleAre, CodesAreNat, AccountsAssumption DEF PeopleOK, LookUp
<1>6. lastCode[a] + 1 \in Codes
  BY <1>5 DEF Codes
<1>7. /\ lastCode' = [lastCode EXCEPT ![a] = @ + 1]
      /\ Knows(r, [local[r] EXCEPT !.known = With(a) # {}, !.code = lastCode[a] + 1])
      /\ UNCHANGED <<users, accounts, stored, blank, verified, temporary, mailbox, seen>>
  BY <1>4 DEF LookUp
<1>8. PICK l : l = [local[r] EXCEPT !.known = With(a) # {}, !.code = lastCode[a] + 1]
  OBVIOUS
<1>9. l \in LocalType /\ l.code = lastCode[a] + 1
  <2>1. local[r] \in LocalType
    BY PeopleAre DEF PeopleOK
  <2>2. (With(a) # {}) \in BOOLEAN
    OBVIOUS
  <2> QED  BY <2>1, <2>2, <1>6, <1>8 DEF LocalType
<1>10. local' = [local EXCEPT ![r] = l]
  BY <1>7, <1>8 DEF Knows
<1>11. lastCode' \in [Addresses -> Codes \cup {0}]
  BY <1>5, <1>6, <1>7, PeopleAre DEF PeopleOK
<1>12. PeopleOK'
  BY <1>7, <1>9, <1>10, <1>11, PeopleAre DEF PeopleOK, seen
<1>13. CodeKept(r)
  <2>1. \A b \in Addresses : lastCode[b] <= lastCode'[b]
    BY <1>5, <1>7, PeopleAre DEF PeopleOK
  <2>2. lastCode'[a] = lastCode[a] + 1 /\ local'[r] = l
    BY <1>5, <1>7, <1>10, PeopleAre DEF PeopleOK
  <2> QED  BY <1>4, <1>5, <1>6, <1>9, <1>10, <2>1, <2>2 DEF CodeKept
<1> QED  BY <1>2, <1>3, <1>12, <1>13

LEMMA PublishWorks ==
    ASSUME CoreInv, NEW r \in Requests, Publish(r)
    PROVE  Works(r) /\ Tables' /\ PeopleOK' /\ CodeKept(r)
<1>1. r \in InFlight /\ Step(request[r]) = "publish" /\ Address(r) \in Addresses
  BY AtStep, AtPerson DEF Publish
<1>2. Works(r)
  BY <1>1, SameKept, AdvanceWorks DEF Publish
<1>3. Tables'
  BY NothingKeeps DEF Publish
<1>4. local[r].code \in Codes
  BY <1>1, Flying DEF HasCode
<1>5. mailbox' \in [Addresses -> SUBSET Codes]
  BY <1>1, <1>4, PeopleAre DEF Publish, PeopleOK
<1>6. PeopleOK'
  BY <1>5, PeopleAre DEF PeopleOK, Publish, seen
<1>7. CodeKept(r)
  BY <1>1, CodeSame DEF Publish
<1> QED  BY <1>2, <1>3, <1>6, <1>7

LEMMA StoreCodeWorks ==
    ASSUME CoreInv, NEW r \in Requests, StoreCode(r)
    PROVE  Works(r) /\ Tables' /\ PeopleOK' /\ CodeKept(r)
<1>1. r \in InFlight /\ Step(request[r]) = "store" /\ Address(r) \in Addresses
  BY AtStep, AtPerson DEF StoreCode
<1>2. Works(r)
  BY <1>1, SameKept, AdvanceWorks DEF StoreCode
<1>3. Tables'
  BY NothingKeeps DEF StoreCode
<1>4. local[r].code \in Codes
  BY <1>1, Flying DEF HasCode
<1>5. PeopleOK'
  BY <1>1, <1>4, PeopleAre DEF PeopleOK, StoreCode, CodeToStore, Blanks, seen
<1>6. CodeKept(r)
  BY <1>1, CodeSame DEF StoreCode
<1> QED  BY <1>2, <1>3, <1>5, <1>6

LEMMA MatchCodeWorks ==
    ASSUME CoreInv, NEW r \in Requests, MatchCode(r)
    PROVE  Works(r) /\ Tables' /\ PeopleOK' /\ CodeKept(r)
<1>1. r \in InFlight /\ Step(request[r]) \in {"match", "compare"} /\ Address(r) \in Addresses
  BY AtStep, AtPerson DEF MatchCode
<1>2. Works(r)
  BY <1>1, SameKept, AdvanceWorks, RefuseWorks DEF MatchCode
<1>3. Tables'
  BY NothingKeeps DEF MatchCode
<1>4. PeopleOK'
  BY <1>1, PeopleAre DEF PeopleOK, MatchCode, people
<1>5. CodeKept(r)
  BY <1>1, CodeSame DEF MatchCode, people
<1> QED  BY <1>2, <1>3, <1>4, <1>5

LEMMA MarkVerifiedWorks ==
    ASSUME CoreInv, NEW r \in Requests, MarkVerified(r)
    PROVE  Works(r) /\ Tables' /\ PeopleOK' /\ CodeKept(r)
<1>1. r \in InFlight /\ Step(request[r]) = "mark" /\ Address(r) \in Addresses
  BY AtStep, AtPerson DEF MarkVerified
<1>2. Works(r)
  BY <1>1, SameKept, AdvanceWorks DEF MarkVerified
<1>3. Tables'
  BY NothingKeeps DEF MarkVerified
<1>4. PeopleOK'
  BY <1>1, PeopleAre DEF PeopleOK, MarkVerified, seen
<1>5. CodeKept(r)
  BY <1>1, CodeSame DEF MarkVerified
<1> QED  BY <1>2, <1>3, <1>4, <1>5

LEMMA SaveTemporaryWorks ==
    ASSUME CoreInv, NEW r \in Requests, SaveTemporary(r)
    PROVE  Works(r) /\ Tables' /\ PeopleOK' /\ CodeKept(r)
<1>1. r \in InFlight /\ Step(request[r]) = "saveTemporary" /\ Address(r) \in Emails
  BY AtStep, AtPerson DEF SaveTemporary
<1>2. Works(r)
  BY <1>1, SameKept, AdvanceWorks DEF SaveTemporary
<1>3. Tables'
  BY NothingKeeps DEF SaveTemporary
<1>4. PeopleOK'
  BY <1>1, PeopleAre DEF PeopleOK, SaveTemporary, seen
<1>5. CodeKept(r)
  BY <1>1, CodeSame DEF SaveTemporary
<1> QED  BY <1>2, <1>3, <1>4, <1>5

(* The steps that only look.                                                *)
Checks(r) ==
    LoadTemporary(r) \/ Recheck(r) \/ CheckStatus(r) \/ SearchPhone(r) \/ FindAccount(r)

LEMMA ChecksWork ==
    ASSUME CoreInv, NEW r \in Requests, Checks(r)
    PROVE  Works(r) /\ Tables' /\ PeopleOK' /\ CodeKept(r)
<1>1. r \in InFlight /\ Step(request[r]) \in {"temporary", "recheck", "status", "search",
                                              "findAccount"}
  BY AtStep DEF Checks, LoadTemporary, Recheck, CheckStatus, SearchPhone, FindAccount
<1>2. (Advance(r, request[r]) \/ Refuse(r)) /\ Nothing /\ Keeps
  BY DEF Checks, LoadTemporary, Recheck, CheckStatus, SearchPhone, FindAccount
<1>3. Works(r)
  BY <1>1, <1>2, SameKept, AdvanceWorks, RefuseWorks
<1>4. CodeKept(r)
  BY <1>1, <1>2, CodeSame DEF Keeps, people
<1> QED  BY <1>2, <1>3, <1>4, NothingKeeps, KeepsPeople

(* The order of the numbers of users.                                       *)
LEMMA Least ==
    ASSUME NEW S, S \subseteq Nat, S # {}
    PROVE  \E m \in S : \A k \in S : m <= k
<1>1. IsWellFoundedOn(OpToRel(<, Nat), Nat)
  BY NatLessThanWellFounded
<1>2. PICK x \in S : \A y \in S : <<y, x>> \notin OpToRel(<, Nat)
  BY <1>1, WFMin
<1>3. OpToRel(<, Nat) = {ss \in Nat \X Nat : ss[1] < ss[2]}
  BY Zenon DEF OpToRel
<1>4. ASSUME NEW y \in S, y < x PROVE FALSE
  <2>1. PICK p : p = <<y, x>>
    OBVIOUS
  <2>2. p \in Nat \X Nat /\ p[1] = y /\ p[2] = x
    BY <2>1
  <2> QED  BY <1>2, <1>3, <1>4, <2>1, <2>2
<1>5. \A y \in S : x <= y
  BY <1>4
<1> QED  BY <1>5

LEMMA FirstWithIs ==
    ASSUME NEW a
    PROVE  /\ With(a) = {} => FirstWith(a) = NoOne
           /\ With(a) # {} => FirstWith(a) \in With(a) /\ FirstWith(a) \in UserIds
                              /\ FirstWith(a) # NoOne
<1>1. With(a) \subseteq UserIds /\ UserIds \subseteq Nat /\ NoOne \notin UserIds
  <2>1. PICK n : n = Cardinality(UserIds)
    OBVIOUS
  <2>2. UserIds = 1..n /\ NoOne \notin UserIds
    BY <2>1, AccountsAssumption
  <2> QED  BY <2>2 DEF With
<1>2. CASE With(a) # {}
  <2>1. \E m \in With(a) : \A k \in With(a) : m <= k
    BY <1>1, <1>2, Least
  <2>2. FirstWith(a) \in With(a)
    BY <1>2, <2>1 DEF FirstWith
  <2> QED  BY <1>1, <1>2, <2>2
<1> QED  BY <1>2 DEF FirstWith

LEMMA EvaluateWorks ==
    ASSUME CoreInv, NEW r \in Requests, Evaluate(r)
    PROVE  Works(r) /\ Tables' /\ PeopleOK' /\ CodeKept(r)
<1>1. r \in InFlight /\ Step(request[r]) = "evaluate"
  BY AtStep DEF Evaluate
<1>2. Works(r)
  BY <1>1, SameKept, AdvanceWorks DEF Evaluate
<1>3. Tables'
  BY NothingKeeps DEF Evaluate
<1>4. PICK c \in {"none", "signUp", "signIn", "link", "integrate"} :
          Learns(r, [local[r] EXCEPT !.context = c])
  BY DEF Evaluate, Context
<1>5. PICK l : l = [local[r] EXCEPT !.context = c]
  OBVIOUS
<1>6. l \in LocalType /\ l.code = local[r].code
  <2>1. local[r] \in LocalType
    BY PeopleAre DEF PeopleOK
  <2> QED  BY <2>1, <1>5 DEF LocalType
<1>7. Knows(r, l) /\ UNCHANGED <<people, seen>>
  BY <1>4, <1>5 DEF Learns
<1>8. PeopleOK'
  BY <1>6, <1>7, PeopleAre DEF PeopleOK, Knows, people, seen
<1>9. CodeKept(r)
  BY <1>1, <1>6, <1>7, CodeLearnt DEF people
<1> QED  BY <1>2, <1>3, <1>8, <1>9

LEMMA SwitchWorks ==
    ASSUME CoreInv, NEW r \in InFlight, Step(request[r]) = "find",
           NEW context, Switch(r, request[r], StepsOf(context))
    PROVE  Works(r)
<1> DEFINE o == request[r]
           op == o.call.op
<1>1. /\ r \in Requests /\ o \in RequestType /\ o.call \in Calls /\ op \in AllOps
      /\ Going(Rests[op], Follows[op], o.todo) /\ Step(o) = Head(o.todo) /\ WellFormed(o)
  BY Flying
<1>2. op \in {"oauth", "integrate"}
  <2>1. PICK n : <<"find", n>> \in Follows[op]
    BY <1>1 DEF Going
  <2> HIDE DEF o, op
  <2> QED  BY <2>1, <1>1, Table
<1>3. Rests[op] = OAuthRests /\ Follows[op] = OAuthFollows /\ op \in Making
      /\ op \notin {"rename", "close", "leave", "ask"}
  BY <1>2 DEF Rests, Follows, Making
<1>4. Marking
  BY Unmarked DEF Switch
<1>5. \/ request' = [request EXCEPT ![r] = Idle(@.call)]
      \/ request' = [request EXCEPT ![r] = [request[r] EXCEPT !.todo = SignUpSteps]]
      \/ request' = [request EXCEPT ![r] = [request[r] EXCEPT !.todo = LinkSteps]]
  BY <1>1 DEF Switch, StepsOf, CoreInv, TypeOK, WorkspacesTypeOK
<1>6. CASE request' = [request EXCEPT ![r] = Idle(@.call)]
  BY <1>4, <1>6, StopWorks DEF Stop
<1>7. ASSUME NEW todo \in {SignUpSteps, LinkSteps},
             request' = [request EXCEPT ![r] = [request[r] EXCEPT !.todo = todo]]
      PROVE  Works(r)
  <2>1. /\ request'[r] = [request[r] EXCEPT !.todo = todo]
        /\ \A s \in Requests \ {r} : request'[s] = request[s]
        /\ request' = [s \in Requests |-> request'[s]]
    BY <1>1, <1>7 DEF CoreInv, TypeOK, WorkspacesTypeOK
  <2>2. PICK p : p = request'[r]
    OBVIOUS
  <2>3. todo \in OAuthRests
    BY DEF OAuthRests, SignUpRests
  <2>4. todo \in Seq(Steps) /\ todo # <<>>
    BY <2>3, OAuthGoing DEF Going
  <2>5. /\ p.call = o.call /\ p.todo = todo /\ p.team = o.team /\ p.row = o.row
        /\ p.name = o.name /\ p.wrote = o.wrote /\ p.old = o.old /\ p \in RequestType
    BY <2>1, <2>2, <1>1, <2>4 DEF RequestType
  <2>6. Step(p) \in {"look", "findAccount"}
    BY <2>5 DEF Step, SignUpSteps, LinkSteps
  <2>7. <<"find", Step(p)>> \in Follows[op]
    BY <1>3, <2>6 DEF OAuthFollows
  <2>8. p.name \in Names
    BY <1>1, <1>3, <2>5 DEF WellFormed
  <2> HIDE DEF o, op
  <2>9. WellFormed(p)
    BY <1>1, <1>3, <2>3, <2>5, <2>6, <2>8 DEF WellFormed, HasTeam, HasRow, HasOld, op
  <2>10. OthersKept(r)
    BY <2>1 DEF OthersKept, Kept
  <2>11. request' \in [Requests -> RequestType]
    BY <2>1, <2>2, <2>5 DEF CoreInv, TypeOK, WorkspacesTypeOK
  <2> QED  BY <1>4, <2>2, <2>4, <2>5, <2>7, <2>9, <2>10, <2>11 DEF Works, o, op
<1> QED  BY <1>5, <1>6, <1>7

LEMMA FindAndSwitchWorks ==
    ASSUME CoreInv, NEW r \in Requests, FindAndSwitch(r)
    PROVE  Works(r) /\ Tables' /\ PeopleOK' /\ CodeKept(r)
<1>1. r \in InFlight /\ Step(request[r]) = "find"
  BY AtStep DEF FindAndSwitch
<1>2. Switch(r, request[r], StepsOf(local[r].context)) \/ Refuse(r)
  BY DEF FindAndSwitch
<1>3. Works(r)
  BY <1>1, <1>2, SwitchWorks, RefuseWorks
<1>4. Tables'
  BY NothingKeeps DEF FindAndSwitch
<1>5. PICK u : u = FirstWith(Address(r))
  OBVIOUS
<1>6. u \in UserIds \cup {NoOne}
  BY <1>5, FirstWithIs
<1>7. PICK l : l = [local[r] EXCEPT !.found = u]
  OBVIOUS
<1>8. l \in LocalType /\ l.code = local[r].code
  <2>1. local[r] \in LocalType
    BY PeopleAre DEF PeopleOK
  <2> QED  BY <2>1, <1>6, <1>7 DEF LocalType
<1>9. Knows(r, l) /\ UNCHANGED <<people, seen>>
  BY <1>5, <1>7 DEF FindAndSwitch, Learns
<1>10. PeopleOK'
  BY <1>8, <1>9, PeopleAre DEF PeopleOK, Knows, people, seen
<1>11. CodeKept(r)
  BY <1>1, <1>8, <1>9, CodeLearnt DEF people
<1> QED  BY <1>3, <1>4, <1>10, <1>11

LEMMA SaveAccountWorks ==
    ASSUME CoreInv, NEW r \in Requests, SaveAccount(r)
    PROVE  Works(r) /\ Tables' /\ PeopleOK' /\ CodeKept(r)
<1>1. r \in InFlight /\ Step(request[r]) = "saveAccount"
  BY AtStep DEF SaveAccount
<1>2. Works(r)
  BY <1>1, SameKept, AdvanceWorks, RefuseWorks DEF SaveAccount
<1>3. Tables'
  BY NothingKeeps DEF SaveAccount
<1>4. PICK u : u = local[r].found
  OBVIOUS
<1>5. PICK p : p = Person(r).provider
  OBVIOUS
<1>6. accounts[u][p] < 2
      /\ (accounts' = [accounts EXCEPT ![u][p] = @ + 1] \/ accounts' = accounts)
  BY <1>4, <1>5 DEF SaveAccount
<1>7. accounts \in [UserIds -> [Providers -> 0..2]]
  BY PeopleAre DEF PeopleOK
<1>8. accounts' \in [UserIds -> [Providers -> 0..2]]
  <2>1. CASE u \in UserIds /\ p \in Providers
    <3>1. accounts[u][p] + 1 \in 0..2
      BY <1>6, <1>7, <2>1
    <3> QED  BY <1>6, <1>7, <2>1, <3>1
  <2>2. CASE u \notin UserIds \/ p \notin Providers
    BY <1>6, <1>7, <2>2
  <2> QED  BY <2>1, <2>2
<1>9. PeopleOK'
  BY <1>8, PeopleAre DEF PeopleOK, SaveAccount, seen
<1>10. CodeKept(r)
  BY <1>1, CodeSame DEF SaveAccount
<1> QED  BY <1>2, <1>3, <1>9, <1>10

LEMMA NewUserType ==
    ASSUME CoreInv, NEW r \in Requests, Doing(r, "commitUser")
    PROVE  NewUser(r) \in UserType
<1>1. Person(r) \in PersonType /\ Address(r) \in Addresses /\ request[r].team \in TeamIds
  BY AtPerson, AtNames
<1>2. PICK v : v = Via(request[r].call.op)
  OBVIOUS
<1>3. v \in {"email", "phone", "oauth"}
  BY <1>2 DEF Via
<1>4. PICK p : p = Person(r)
  OBVIOUS
<1>5. p.address \in Addresses /\ p.phone \in Phones \cup {NoOne}
  BY <1>1, <1>4 DEF Address, PersonType
<1>6. NewUser(r) =
         [email |-> IF p.address \in Emails THEN p.address ELSE NoOne,
          phone |-> IF p.address \in Phones THEN p.address ELSE p.phone,
          team |-> request[r].team, via |-> v]
  BY <1>2, <1>4 DEF NewUser
<1> QED  BY <1>1, <1>3, <1>5, <1>6 DEF UserType

LEMMA CommitSignUpWorks ==
    ASSUME CoreInv, NEW r \in Requests, CommitSignUp(r)
    PROVE  Works(r) /\ Tables' /\ PeopleOK' /\ CodeKept(r)
<1>1. r \in InFlight /\ Step(request[r]) = "commitUser"
  BY AtStep DEF CommitSignUp
<1>2. Works(r) /\ Tables'
  BY ShowTeamWorks DEF CommitSignUp
<1>3. NewUser(r) \in UserType /\ Person(r) \in PersonType
  BY NewUserType, AtPerson DEF CommitSignUp
<1>4. PICK u \in UserIds :
          /\ users' = [users EXCEPT ![u] = NewUser(r)]
          /\ accounts' = IF Person(r).provider = NoProvider THEN accounts
                         ELSE [accounts EXCEPT ![u][Person(r).provider] = 1]
          /\ met' = [met EXCEPT ![u] = local[r].before \cap With(Address(r))]
  BY DEF CommitSignUp
<1>5. users' \in [UserIds -> UserType \cup {Unused, Gone}]
  BY <1>3, <1>4, PeopleAre DEF PeopleOK
<1>6. accounts' \in [UserIds -> [Providers -> 0..2]]
  <2>1. PICK p : p = Person(r).provider
    OBVIOUS
  <2>2. accounts' = accounts \/ accounts' = [accounts EXCEPT ![u][p] = 1]
    BY <1>4, <2>1
  <2>3. PICK N : N = 0..2
    OBVIOUS
  <2>4. accounts \in [UserIds -> [Providers -> N]] /\ 1 \in N
    BY <2>3, PeopleAre DEF PeopleOK
  <2>5. accounts' \in [UserIds -> [Providers -> N]]
    BY <2>2, <2>4
  <2> QED  BY <2>3, <2>5
<1>7. met' \in [UserIds -> SUBSET UserIds]
  <2>1. local[r].before \cap With(Address(r)) \subseteq UserIds
    BY DEF With
  <2> QED  BY <1>4, <2>1, PeopleAre DEF PeopleOK
<1>8. PeopleOK'
  BY <1>5, <1>6, <1>7, PeopleAre DEF PeopleOK, CommitSignUp
<1>9. CodeKept(r)
  BY <1>1, CodeSame DEF CommitSignUp
<1> QED  BY <1>2, <1>8, <1>9

LEMMA SetPhoneWorks ==
    ASSUME CoreInv, NEW r \in Requests, SetPhone(r)
    PROVE  Works(r) /\ Tables' /\ PeopleOK' /\ CodeKept(r)
<1>1. r \in InFlight /\ Step(request[r]) = "setPhone" /\ Address(r) \in Phones
  BY AtStep, AtPerson DEF SetPhone
<1>2. Works(r)
  BY <1>1, SameKept, AdvanceWorks DEF SetPhone
<1>3. Tables'
  BY NothingKeeps DEF SetPhone
<1>4. UNCHANGED <<accounts, stored, blank, verified, temporary, mailbox, lastCode, seen>>
  BY DEF SetPhone
<1>5. CASE UNCHANGED <<users, local>>
  <2>1. PeopleOK'
    BY <1>4, <1>5, PeopleAre DEF PeopleOK, seen
  <2>2. CodeKept(r)
    BY <1>1, <1>4, <1>5, CodeSame
  <2> QED  BY <1>2, <1>3, <2>1, <2>2
<1>6. CASE ~UNCHANGED <<users, local>>
  <2>1. PICK u : u = Person(r).user
    OBVIOUS
  <2>2. PICK S : S = {s \in InFlight : Address(s) = users[u].phone /\ users[u].phone # Address(r)}
    OBVIOUS
  <2>3. /\ Exists(u)
        /\ users' = [users EXCEPT ![u].phone = Address(r)]
        /\ local' = [s \in Requests |->
              IF s \in S THEN [local[s] EXCEPT !.before = @ \ {u}] ELSE local[s]]
    BY <1>6, <2>1, <2>2 DEF SetPhone
  <2>4. u \in UserIds
    BY <2>1, AtPerson DEF SetPhone
  <2>5. users[u] \in UserType
    BY <2>3, <2>4, PeopleAre DEF PeopleOK, Exists
  <2>6. [users[u] EXCEPT !.phone = Address(r)] \in UserType
    BY <2>5, <1>1 DEF UserType
  <2>7. users' \in [UserIds -> UserType \cup {Unused, Gone}]
    BY <2>3, <2>4, <2>6, PeopleAre DEF PeopleOK
  <2>8. ASSUME NEW s \in Requests
        PROVE  local'[s] \in LocalType /\ local'[s].code = local[s].code
    <3>1. local[s] \in LocalType
      BY PeopleAre DEF PeopleOK
    <3> QED  BY <2>3, <3>1 DEF LocalType
  <2>9. local' \in [Requests -> LocalType]
    BY <2>3, <2>8
  <2>10. PeopleOK'
    BY <1>4, <2>7, <2>9, PeopleAre DEF PeopleOK, seen
  <2>11. CodeKept(r)
    BY <1>1, <1>4, <2>8, CodeSame
  <2> QED  BY <1>2, <1>3, <2>10, <2>11
<1> QED  BY <1>5, <1>6

LEMMA LoadUserWorks ==
    ASSUME CoreInv, NEW r \in Requests, LoadUser(r)
    PROVE  Works(r) /\ Tables' /\ PeopleOK' /\ CodeKept(r)
<1>1. r \in InFlight /\ Step(request[r]) = "load"
  BY AtStep DEF LoadUser
<1>2. ASSUME Refuse(r)
      PROVE  Works(r)
  BY <1>1, <1>2, RefuseWorks
<1>3. ASSUME ~Refuse(r)
      PROVE  Works(r)
  <2>1. PICK t : /\ RowsOf(t) # {}
                 /\ Advance(r, [request[r] EXCEPT !.old = NameOf(t)])
    BY <1>3 DEF LoadUser
  <2>2. NameOf(t) \in Names
    BY <2>1, NameOfNames
  <2> QED  BY <1>1, <2>1, <2>2, TakesOldName
<1>4. Works(r)
  BY <1>2, <1>3
<1>5. CodeKept(r)
  BY <1>1, CodeSame DEF LoadUser, Keeps, people
<1> QED  BY <1>4, <1>5, NothingKeeps, KeepsPeople DEF LoadUser

LEMMA EraseUserWorks ==
    ASSUME CoreInv, NEW r \in Requests, EraseUser(r)
    PROVE  Works(r) /\ Tables' /\ PeopleOK' /\ CodeKept(r)
<1>1. r \in InFlight /\ Step(request[r]) = "erase" /\ request[r].team \in TeamIds
      /\ Person(r).user \in UserIds
  BY AtStep, AtNames, AtPerson DEF EraseUser
<1>2. Works(r)
  BY <1>1, SameKept, AdvanceWorks DEF EraseUser
<1>3. teams' \in [TeamIds -> {"unused", "open", "closed", "left"}]
  BY <1>1, TablesAre DEF Tables, EraseUser
<1>4. Tables'
  BY <1>3, TablesAre DEF Tables, EraseUser
<1>5. PeopleOK'
  BY <1>1, PeopleAre DEF PeopleOK, EraseUser, seen
<1>6. CodeKept(r)
  BY <1>1, CodeSame DEF EraseUser
<1> QED  BY <1>2, <1>4, <1>5, <1>6

LEMMA DropKeysWorks ==
    ASSUME CoreInv, NEW r \in Requests, DropKeys(r)
    PROVE  Works(r) /\ Tables' /\ PeopleOK' /\ CodeKept(r)
<1>1. r \in InFlight /\ Step(request[r]) = "dropKeys" /\ request[r].team \in TeamIds
      /\ request[r] \in RequestType
  BY AtStep, AtNames DEF DropKeys
<1>2. PICK dropped : /\ keys' = [keys EXCEPT ![request[r].team] = @ \ dropped]
                     /\ \/ Advance(r, request[r])
                        \/ Stop(r) /\ Doubts(request[r])
  BY DEF DropKeys
<1>3. Works(r)
  BY <1>1, <1>2, SameKept, AdvanceWorks, Doubted, StopWorks
<1>4. Tables'
  BY <1>1, <1>2, TablesAre DEF Tables, DropKeys
<1>5. CodeKept(r)
  BY <1>1, CodeSame DEF DropKeys, Keeps, people
<1> QED  BY <1>3, <1>4, <1>5, KeepsPeople DEF DropKeys

LEMMA FailAccountWorks ==
    ASSUME CoreInv, NEW r \in Requests, FailAccount(r)
    PROVE  Works(r) /\ Tables' /\ PeopleOK' /\ CodeKept(r)
<1>1. Works(r) /\ Tables'
  BY FailWorks DEF FailAccount
<1>2. r \in InFlight /\ Spoken(request[r].call.op, Person(r))
  BY Flying DEF FailAccount, Fail
<1>3. muddled' \subseteq Addresses
  <2>1. muddled' \subseteq muddled \cup (IF request[r].call.op = "ask" THEN {Address(r)} ELSE {})
    BY DEF FailAccount
  <2>2. request[r].call.op = "ask" => Address(r) \in Addresses
    BY <1>2 DEF Spoken, Address
  <2> QED  BY <2>1, <2>2, PeopleAre DEF PeopleOK
<1>4. PeopleOK'
  BY <1>3, PeopleAre DEF PeopleOK, FailAccount, people
<1>5. request'[r] = Idle(request[r].call)
  BY <1>2 DEF FailAccount, Fail, Stop, CoreInv, TypeOK, WorkspacesTypeOK, InFlight
<1>6. CodeKept(r)
  BY <1>5, CodeSame DEF FailAccount, people
<1> QED  BY <1>1, <1>4, <1>6

-----------------------------------------------------------------------------
(* The types, and what handlers have found by the step they are at.         *)
LEMMA SameForm ==
    ASSUME NEW p, NEW q, p.call = q.call, p.todo = q.todo, p.team = q.team, p.row = q.row,
           p.name = q.name, p.old = q.old, p.wrote = q.wrote, WellFormed(q)
    PROVE  WellFormed(p) /\ Step(p) = Step(q)
<1>1. Step(p) = Step(q)
  BY DEF Step
<1> QED  BY <1>1 DEF WellFormed, HasTeam, HasRow, HasOld

LEMMA WorksTypes ==
    ASSUME CoreInv, NEW r \in Requests, Works(r), Tables', PeopleOK'
    PROVE  TypeOK'
BY DEF Works, Marking, Tables, PeopleOK, TypeOK, WorkspacesTypeOK

LEMMA WorksHandlers ==
    ASSUME CoreInv, NEW r \in Requests, Works(r), PeopleOK', CodeKept(r)
    PROVE  HandlersInv'
<1>1. r \in InFlight /\ OthersKept(r)
  BY DEF Works
<1>2. ASSUME NEW s \in Requests \ {r}, request'[s].todo # <<>>
      PROVE  WellFormed(request'[s]) /\ HasCode(s)'
  <2>1. Kept(s)
    BY <1>1 DEF OthersKept
  <2>2. s \in InFlight
    BY <1>2, <2>1 DEF Kept, InFlight
  <2>3. WellFormed(request[s]) /\ HasCode(s) /\ Spoken(request[s].call.op, Person(s))
        /\ request[s].call.op \in AllOps
        /\ \E n : <<Step(request[s]), n>> \in Follows[request[s].call.op]
    BY <2>2, Flying DEF Going
  <2>4. WellFormed(request'[s]) /\ Step(request'[s]) = Step(request[s])
    BY <2>1, <2>3, SameForm DEF Kept
  <2>5. local'[s].code = local[s].code /\ Address(s)' = Address(s)
    BY <2>1 DEF CodeKept, Kept, Address, Person
  <2>6. Step(request[s]) \in {"publish", "store"} => Address(s) \in Addresses
    BY <2>3, Table DEF Spoken, Address
  <2>7. HasCode(s)'
    <3>1. CASE Step(request[s]) \in {"publish", "store"}
      <4>1. local[s].code \in Codes /\ local[s].code <= lastCode[Address(s)]
        BY <2>3, <3>1 DEF HasCode
      <4>2. lastCode[Address(s)] <= lastCode'[Address(s)]
        BY <2>6, <3>1 DEF CodeKept
      <4>3. lastCode[Address(s)] \in Nat /\ lastCode'[Address(s)] \in Nat
            /\ local[s].code \in Nat
        BY <2>6, <3>1, <4>1, PeopleAre, CodesAreNat DEF PeopleOK
      <4>4. local[s].code <= lastCode'[Address(s)]
        BY <4>1, <4>2, <4>3
      <4> QED  BY <2>5, <4>1, <4>4 DEF HasCode
    <3>2. CASE Step(request[s]) \notin {"publish", "store"}
      BY <2>4, <3>2 DEF HasCode
    <3> QED  BY <3>1, <3>2
  <2> QED  BY <2>4, <2>7
<1>3. ASSUME request'[r].todo # <<>>
      PROVE  WellFormed(request'[r]) /\ HasCode(r)'
  <2>1. request'[r] # Idle(request[r].call)
    BY <1>3 DEF Idle
  <2>2. /\ request'[r].call = request[r].call /\ WellFormed(request'[r])
        /\ <<Step(request[r]), Step(request'[r])>> \in Follows[request[r].call.op]
    BY <2>1 DEF Works
  <2>3. HasCode(r) /\ Spoken(request[r].call.op, Person(r)) /\ request[r].call.op \in AllOps
    BY <1>1, Flying
  <2>4. Address(r)' = Address(r)
    BY <2>2 DEF Address, Person
  <2>5. CASE Step(request'[r]) \in {"publish", "store"}
    <3>1. Step(request[r]) \in {"lookUp", "publish"} /\ Address(r) \in Addresses
      <4>1. Step(request[r]) \in {"lookUp", "publish"}
        BY <2>2, <2>3, <2>5, AnyTable
      <4>2. request[r].call.op = "ask"
        BY <2>2, <2>3, <4>1, Table
      <4> QED  BY <2>3, <4>1, <4>2 DEF Spoken, Address
    <3>2. lastCode[Address(r)] <= lastCode'[Address(r)]
          /\ lastCode[Address(r)] \in Nat /\ lastCode'[Address(r)] \in Nat
      BY <3>1, PeopleAre, CodesAreNat DEF PeopleOK, CodeKept
    <3>3. CASE Step(request[r]) # "lookUp" /\ local'[r].code = local[r].code
      <4>1. local[r].code \in Codes /\ local[r].code <= lastCode[Address(r)]
        BY <2>3, <3>1, <3>3 DEF HasCode
      <4>2. local[r].code \in Nat
        BY <4>1, CodesAreNat
      <4>3. local[r].code <= lastCode'[Address(r)]
        BY <3>2, <4>1, <4>2
      <4> QED  BY <2>2, <2>4, <3>3, <4>1, <4>3 DEF HasCode
    <3>4. CASE local'[r].code \in Codes /\ local'[r].code <= lastCode'[Address(r)]
      BY <2>2, <2>4, <3>4 DEF HasCode
    <3> QED  BY <2>1, <3>3, <3>4 DEF CodeKept
  <2>6. CASE Step(request'[r]) \notin {"publish", "store"}
    BY <2>2, <2>6 DEF HasCode
  <2> QED  BY <2>2, <2>5, <2>6
<1>4. ASSUME NEW s \in Requests, request'[s].todo # <<>>
      PROVE  WellFormed(request'[s]) /\ HasCode(s)'
  BY <1>2, <1>3, <1>4
<1> QED  BY <1>4 DEF HandlersInv, HandlerInv, InFlight

LEMMA WorksCore ==
    ASSUME CoreInv, NEW r \in Requests, Works(r), Tables', PeopleOK', CodeKept(r)
    PROVE  CoreInv'
BY WorksTypes, WorksHandlers DEF CoreInv

(* The step of an account handler.                                          *)
LEMMA AccountWorks ==
    ASSUME CoreInv, NEW r \in Requests, AccountStep(r)
    PROVE  Works(r) /\ Tables' /\ PeopleOK' /\ CodeKept(r)
<1>1. CASE LookUp(r)  BY <1>1, LookUpWorks
<1>2. CASE Publish(r)  BY <1>2, PublishWorks
<1>3. CASE StoreCode(r)  BY <1>3, StoreCodeWorks
<1>4. CASE MatchCode(r)  BY <1>4, MatchCodeWorks
<1>5. CASE MarkVerified(r)  BY <1>5, MarkVerifiedWorks
<1>6. CASE SaveTemporary(r)  BY <1>6, SaveTemporaryWorks
<1>7. CASE Checks(r)  BY <1>7, ChecksWork
<1>8. CASE Evaluate(r)  BY <1>8, EvaluateWorks
<1>9. CASE FindAndSwitch(r)  BY <1>9, FindAndSwitchWorks
<1>10. CASE SaveAccount(r)  BY <1>10, SaveAccountWorks
<1>11. CASE CommitSignUp(r)  BY <1>11, CommitSignUpWorks
<1>12. CASE SetPhone(r)  BY <1>12, SetPhoneWorks
<1>13. CASE LoadUser(r)  BY <1>13, LoadUserWorks
<1>14. CASE EraseUser(r)  BY <1>14, EraseUserWorks
<1>15. CASE DropKeys(r)  BY <1>15, DropKeysWorks
<1> QED  BY <1>1, <1>2, <1>3, <1>4, <1>5, <1>6, <1>7, <1>8, <1>9, <1>10, <1>11, <1>12,
            <1>13, <1>14, <1>15 DEF AccountStep, Checks

LEMMA WorkspacesSteps ==
    ASSUME CoreInv, NEW r \in Requests, WorkspacesStep(r)
    PROVE  Step(request[r]) \in TeamSteps
BY DoingStep
   DEF WorkspacesStep, TeamSteps, Look, InsertTeam, InsertSetting, CheckFlag, DropFlag, SetFlag,
       Charge, SetKeys, CommitTeam, SaveInvitations, ReadName, WriteName, ReleaseRow, Unflag,
       CommitClose

LEMMA TeamWorks ==
    ASSUME CoreInv, NEW r \in Requests, WorkspacesStep(r), Keeps
    PROVE  Works(r) /\ Tables' /\ PeopleOK' /\ CodeKept(r)
<1>1. Works(r) /\ Tables' /\ PeopleOK'
  BY WorkspacesWorks, KeepsPeople
<1>2. Step(request[r]) # "lookUp"
  BY WorkspacesSteps DEF TeamSteps
<1>3. CodeKept(r)
  BY <1>2, CodeSame DEF Keeps, people
<1> QED  BY <1>1, <1>3

(* A request comes in.                                                       *)
Start ==
    [newTeam |-> "look", rename |-> "read", close |-> "release", ask |-> "lookUp",
     confirm |-> "compare", temporary |-> "saveTemporary", emailSignUp |-> "match",
     phoneSignUp |-> "status", oauth |-> "evaluate", integrate |-> "evaluate",
     setPhone |-> "match", leave |-> "load"]
Comes(r, call) ==
    /\ request[r].call = NoCall /\ r \notin InFlight /\ call \in Calls
    /\ request'[r].call = call /\ Step(request'[r]) = Start[call.op]
    /\ request'[r].todo # <<>> /\ WellFormed(request'[r]) /\ request'[r].wrote = FALSE
    /\ request'[r].raced = {}
    /\ \A s \in Requests \ {r} : request'[s] = request[s]
    /\ request' \in [Requests -> RequestType] /\ Marking

LEMMA Starting ==
    ASSUME NEW op \in AllOps, NEW todo \in Rests[op], Head(todo) = Start[op]
    PROVE  /\ todo # <<>> /\ todo \in Seq(Steps)
           /\ Start[op] \notin {"setting", "check", "flag", "charge", "keys", "commit",
                                "invite", "commitUser", "store"}
           /\ op \in {"rename", "leave"} => Start[op] \in {"read", "load"}
<1>1. todo # <<>> /\ todo \in Seq(Steps)
  BY AllGoing DEF Going
<1>2. /\ Start[op] \notin {"setting", "check", "flag", "charge", "keys", "commit",
                           "invite", "commitUser", "store"}
      /\ op \in {"rename", "leave"} => Start[op] \in {"read", "load"}
  BY DEF AllOps, Ops, AccountOps, Start
<1> QED  BY <1>1, <1>2

LEMMA BeginComes ==
    ASSUME CoreInv, NEW r \in Requests, NEW call \in Calls, NEW todo \in Rests[call.op],
           Head(todo) = Start[call.op],
           NEW t \in TeamIds \cup {NoTeam}, NEW n \in Names \cup {NoName},
           call.op \in {"rename", "close", "leave"} => t \in TeamIds,
           call.op \in Making \cup {"rename"} => n \in Names,
           Begin(r, call, todo, t, n)
    PROVE  Comes(r, call)
<1>1. call.op \in AllOps /\ call # NoCall
  BY CallFacts
<1>2. /\ todo # <<>> /\ todo \in Seq(Steps)
      /\ Start[call.op] \notin {"setting", "check", "flag", "charge", "keys", "commit",
                                "invite", "commitUser", "store"}
      /\ call.op \in {"rename", "leave"} => Start[call.op] \in {"read", "load"}
  BY <1>1, Starting
<1>3. PICK p : p = [Idle(call) EXCEPT !.todo = todo, !.team = t, !.name = n]
  OBVIOUS
<1>4. /\ p.call = call /\ p.todo = todo /\ p.team = t /\ p.name = n /\ p.wrote = FALSE
      /\ p.row = NoTeam /\ p.old = NoName /\ p.raced = {} /\ p \in RequestType
  BY <1>2, <1>3 DEF Idle, RequestType
<1>5. Step(p) = Start[call.op]
  BY <1>2, <1>4 DEF Step
<1>6. WellFormed(p)
  BY <1>2, <1>4, <1>5 DEF WellFormed, HasTeam, HasRow, HasOld
<1>7. request \in [Requests -> RequestType]
  BY DEF CoreInv, TypeOK, WorkspacesTypeOK
<1>8. /\ request[r].call = NoCall
      /\ request'[r] = p /\ request' \in [Requests -> RequestType]
      /\ \A s \in Requests \ {r} : request'[s] = request[s]
  BY <1>3, <1>4, <1>7 DEF Begin
<1>9. r \notin InFlight
  BY <1>8, Flying, CallFacts
<1>10. Marking
  <2>1. CASE NoDoubt
    BY <2>1, Unmarked
  <2>2. CASE ~NoDoubt
    <3>1. PICK others : others = Meets(call, t)
      OBVIOUS
    <3>2. /\ suspect' = suspect \cup ({n} \ {NoName})
                             \cup {settings[s].name : s \in RowsFor(call, t)}
                             \cup UNION {NamesOf(request[s]) : s \in others}
          /\ torn' = torn \cup {t}
          /\ UNCHANGED skewed
          /\ others # {}
      BY <2>2, <3>1 DEF Begin
    <3>3. t \in TeamIds
      BY <3>1, <3>2 DEF Meets
    <3>4. \A s \in RowsFor(call, t) : settings[s].name \in Names
      BY TablesAre DEF Tables, RowsFor, IsRow, Rows
    <3>5. \A s \in others : NamesOf(request[s]) \subseteq Names
      BY <1>7, <3>1 DEF Meets, InFlight, NamesOf, RequestType
    <3>6. suspect' \subseteq Names
      BY <3>2, <3>4, <3>5 DEF CoreInv, TypeOK, WorkspacesTypeOK
    <3> QED  BY <3>2, <3>3, <3>6 DEF Marking, CoreInv, TypeOK, WorkspacesTypeOK
  <2> QED  BY <2>1, <2>2
<1> QED  BY <1>2, <1>4, <1>5, <1>6, <1>8, <1>9, <1>10 DEF Comes

LEMMA ReceiveComes ==
    ASSUME CoreInv, NEW r \in Requests, NEW call \in Calls, Receive(r, call)
    PROVE  Comes(r, call)
<1>1. CASE call.op = "newTeam" /\ Begin(r, call, NewTeamSteps, NoTeam, call.name)
  <2>1. NewTeamSteps \in Rests[call.op] /\ Head(NewTeamSteps) = Start[call.op]
    BY <1>1 DEF Rests, NewTeamSteps, Start
  <2>2. call.name \in Names
    BY <1>1, CallFacts
  <2> QED  BY <1>1, <2>1, <2>2, BeginComes
<1>2. CASE call.op = "rename" /\ Begin(r, call, RenameSteps, call.team, call.name)
  <2>1. RenameSteps \in Rests[call.op] /\ Head(RenameSteps) = Start[call.op]
    BY <1>2 DEF Rests, RenameSteps, Start
  <2>2. call.name \in Names /\ call.team \in TeamIds
    BY <1>2, CallFacts
  <2> QED  BY <1>2, <2>1, <2>2, BeginComes
<1>3. CASE call.op = "close" /\ Begin(r, call, CloseSteps, call.team, NoName)
  <2>1. CloseSteps \in Rests[call.op] /\ Head(CloseSteps) = Start[call.op]
    BY <1>3 DEF Rests, CloseSteps, Start
  <2>2. call.team \in TeamIds
    BY <1>3, CallFacts
  <2> QED  BY <1>3, <2>1, <2>2, BeginComes DEF Making
<1> QED  BY <1>1, <1>2, <1>3 DEF Receive

LEMMA TodoStarts ==
    ASSUME NEW call \in Calls, call.op \in AccountOps
    PROVE  Todo(call) \in Rests[call.op] /\ Head(Todo(call)) = Start[call.op]
<1>1. CASE call.op = "ask"
  BY <1>1 DEF Todo, Rests, Start, AskSteps
<1>2. CASE call.op = "confirm"
  BY <1>2 DEF Todo, Rests, Start, ConfirmSteps
<1>3. CASE call.op = "temporary"
  BY <1>3 DEF Todo, Rests, Start, TemporarySteps
<1>4. CASE call.op = "emailSignUp"
  BY <1>4 DEF Todo, Rests, Start, EmailSignUpSteps
<1>5. CASE call.op = "phoneSignUp"
  BY <1>5 DEF Todo, Rests, Start, PhoneSignUpSteps
<1>6. CASE call.op \in {"oauth", "integrate"}
  <2>1. Todo(call) = OAuthSteps /\ Rests[call.op] = OAuthRests /\ Start[call.op] = "evaluate"
    BY <1>6 DEF Todo, Rests, Start
  <2> QED  BY <2>1 DEF OAuthSteps, OAuthRests
<1>7. CASE call.op = "setPhone"
  BY <1>7 DEF Todo, Rests, Start, SetPhoneSteps
<1>8. CASE call.op = "leave"
  BY <1>8 DEF Todo, Rests, Start, LeaveSteps
<1> QED  BY <1>1, <1>2, <1>3, <1>4, <1>5, <1>6, <1>7, <1>8 DEF AccountOps

LEMMA AccountComes ==
    ASSUME CoreInv, NEW r \in Requests, NEW call \in Calls, ReceiveAccount(r, call)
    PROVE  Comes(r, call)
<1> DEFINE p == call.person
           home == IF call.op = "leave" THEN users[p.user].team ELSE NoTeam
           name == IF call.op \in {"emailSignUp", "phoneSignUp", "oauth", "integrate"}
                   THEN BaseName[p.address] ELSE NoName
<1>1. Begin(r, call, Todo(call), home, name) /\ call.op \in AccountOps
      /\ (p.user # NoOne => Exists(p.user))
  BY DEF ReceiveAccount
<1>2. call.op \in AllOps /\ p \in PersonType /\ Spoken(call.op, p)
  BY CallFacts
<1>3. call.op = "leave" => home \in TeamIds
  <2>1. ASSUME call.op = "leave" PROVE users[p.user].team \in TeamIds
    <3>1. p.user \in UserIds /\ NoOne \notin UserIds
      BY <1>2, <2>1, AccountsAssumption DEF Spoken
    <3>2. users[p.user] \in UserType
      BY <1>1, <3>1, PeopleAre DEF PeopleOK, Exists
    <3> QED  BY <3>2 DEF UserType
  <2> QED  BY <2>1
<1>4. call.op \in {"emailSignUp", "phoneSignUp", "oauth", "integrate"} => name \in Names
  BY <1>2, AccountsAssumption DEF Spoken, Addresses
<1>5. home \in TeamIds \cup {NoTeam} /\ name \in Names \cup {NoName}
  BY <1>3, <1>4
<1>6. Todo(call) \in Rests[call.op] /\ Head(Todo(call)) = Start[call.op]
  BY <1>1, TodoStarts
<1>7. call.op \notin {"rename", "close", "newTeam"}
  BY <1>1 DEF AccountOps
<1>8. /\ call.op \in {"rename", "close", "leave"} => home \in TeamIds
      /\ call.op \in Making \cup {"rename"} => name \in Names
  BY <1>3, <1>4, <1>7 DEF Making
<1> HIDE DEF home, name
<1> QED  BY <1>1, <1>5, <1>6, <1>8, BeginComes

LEMMA ComesHandlers ==
    ASSUME CoreInv, NEW r \in Requests, NEW call \in Calls, Comes(r, call),
           UNCHANGED lastCode, \A s \in Requests \ {r} : local'[s] = local[s]
    PROVE  HandlersInv'
<1>1. ASSUME NEW s \in Requests, request'[s].todo # <<>>
      PROVE  WellFormed(request'[s]) /\ HasCode(s)'
  <2>1. CASE s = r
    <3>1. Step(request'[r]) \notin {"publish", "store"}
      <4>1. call.op \in AllOps
        BY CallFacts
      <4>2. Start[call.op] \notin {"publish", "store"}
        BY <4>1 DEF Start, AllOps, Ops, AccountOps
      <4> QED  BY <4>2 DEF Comes
    <3> QED  BY <2>1, <3>1 DEF Comes, HasCode
  <2>2. CASE s # r
    <3>1. request'[s] = request[s] /\ local'[s] = local[s]
      BY <2>2 DEF Comes
    <3>2. s \in InFlight
      BY <1>1, <3>1 DEF InFlight
    <3>3. WellFormed(request[s]) /\ HasCode(s)
      BY <3>2, Flying
    <3> QED  BY <3>1, <3>3 DEF HasCode, Address, Person
  <2> QED  BY <2>1, <2>2
<1> QED  BY <1>1 DEF HandlersInv, HandlerInv, InFlight

LEMMA ReceiveCore ==
    ASSUME CoreInv, NEW r \in Requests, NEW call \in Calls, Receive(r, call), Keeps
    PROVE  CoreInv' /\ Comes(r, call)
<1>1. Comes(r, call) /\ Tables' /\ PeopleOK'
  BY ReceiveComes, KeepsPeople, NothingKeeps DEF Receive
<1>2. HandlersInv'
  BY <1>1, ComesHandlers DEF Keeps, people
<1>3. TypeOK'
  BY <1>1 DEF Comes, Marking, Tables, PeopleOK, TypeOK, WorkspacesTypeOK
<1> QED  BY <1>1, <1>2, <1>3 DEF CoreInv

LEMMA AccountCore ==
    ASSUME CoreInv, NEW r \in Requests, NEW call \in Calls, ReceiveAccount(r, call)
    PROVE  CoreInv' /\ Comes(r, call)
<1>1. Comes(r, call) /\ Tables'
  BY AccountComes, NothingKeeps DEF ReceiveAccount
<1>2. PICK W : W = With(call.person.address)
  OBVIOUS
<1>3. W \subseteq UserIds
  BY <1>2 DEF With
<1>4. PICK l : l = [NoLocal EXCEPT !.before = W]
  OBVIOUS
<1>5. l \in LocalType
  BY <1>3, <1>4 DEF NoLocal, LocalType
<1>6. local' = [local EXCEPT ![r] = l]
  BY <1>2, <1>4 DEF ReceiveAccount, Knows
<1>7. muddled' \subseteq Addresses
  <2>1. muddled' \subseteq muddled \cup (IF call.op = "ask" THEN {call.person.address} ELSE {})
    BY DEF ReceiveAccount
  <2>2. call.op = "ask" => call.person.address \in Addresses
    BY CallFacts DEF Spoken
  <2> QED  BY <2>1, <2>2, PeopleAre DEF PeopleOK
<1>8. PeopleOK'
  BY <1>5, <1>6, <1>7, PeopleAre DEF PeopleOK, ReceiveAccount, people
<1>9. HandlersInv'
  BY <1>1, <1>6, ComesHandlers, PeopleAre DEF ReceiveAccount, people, PeopleOK
<1>10. TypeOK'
  BY <1>1, <1>8 DEF Comes, Marking, Tables, PeopleOK, TypeOK, WorkspacesTypeOK
<1> QED  BY <1>1, <1>9, <1>10 DEF CoreInv

LEMMA ExpireCore ==
    ASSUME CoreInv, NEW a \in Addresses, Expire(a)
    PROVE  CoreInv'
<1>1. stored' \in [Addresses -> Codes \cup {0}] /\ lapsed' \in [Addresses -> Codes \cup {0}]
  BY PeopleAre DEF PeopleOK, Expire
<1>2. TypeOK'
  BY <1>1 DEF CoreInv, TypeOK, WorkspacesTypeOK, Expire, wsVars
<1>3. HandlersInv'
  BY DEF CoreInv, HandlersInv, HandlerInv, HasCode, InFlight, Address, Person, Expire, wsVars
<1> QED  BY <1>2, <1>3 DEF CoreInv

LEMMA StutterCore == ASSUME CoreInv, UNCHANGED vars PROVE CoreInv'
<1> USE DEF vars, wsVars, people, seen
<1>1. TypeOK'
  BY DEF CoreInv, TypeOK, WorkspacesTypeOK
<1>2. HandlersInv'
  BY DEF CoreInv, HandlersInv, HandlerInv, HasCode, InFlight, Address, Person
<1> QED  BY <1>1, <1>2 DEF CoreInv

LEMMA MadeCount == Cardinality(Made) \in TeamIds \cup {0}
<1>1. PICK n : n = Cardinality(TeamIds)
  OBVIOUS
<1>2. IsFiniteSet(TeamIds) /\ TeamIds = 1..n
  BY <1>1, WorkspacesAssumption
<1>3. Made \subseteq TeamIds
  BY DEF Made
<1>4. Cardinality(Made) <= n /\ IsFiniteSet(Made)
  BY <1>1, <1>2, <1>3, FS_Subset
<1>5. Cardinality(Made) \in Nat /\ n \in Nat
  BY <1>1, <1>2, <1>4, FS_CardinalityType
<1> QED  BY <1>2, <1>4, <1>5

LEMMA InitTeams == WorkspacesInit => WorkspacesTypeOK /\ InFlight = {}
<1> SUFFICES ASSUME WorkspacesInit PROVE WorkspacesTypeOK /\ InFlight = {}
  OBVIOUS
<1>1. request = [r \in Requests |-> Idle(NoCall)]
  BY DEF WorkspacesInit
<1>2. request \in [Requests -> RequestType] /\ InFlight = {}
  BY <1>1, IdleType DEF InFlight
<1>3. lastTeam \in TeamIds \cup {0} /\ lastSetting \in TeamIds \cup {0}
  BY MadeCount DEF WorkspacesInit
<1>4. Given \in [TeamIds -> Names \cup {Unused}] /\ Unused \notin Names
  BY WorkspacesAssumption
<1>5. settings \in [TeamIds -> Rows \cup {Unused, Released}]
  BY <1>4 DEF WorkspacesInit, IsGiven, Row, Rows
<1>6. flags \subseteq Names
  BY <1>4 DEF WorkspacesInit, IsGiven, Made
<1>7. /\ teams \in [TeamIds -> {"unused", "open", "closed", "left"}]
      /\ keys \in [TeamIds -> SUBSET (TeamKeys \cup {"invitations"})]
  BY DEF WorkspacesInit
<1> QED  BY <1>2, <1>3, <1>5, <1>6, <1>7 DEF WorkspacesInit, WorkspacesTypeOK

LEMMA InitCore == Init => CoreInv
<1> SUFFICES ASSUME Init PROVE CoreInv
  OBVIOUS
<1>1. WorkspacesTypeOK /\ InFlight = {}
  BY InitTeams DEF Init
<1>2. PICK s \in Starts :
          /\ users = s.users /\ accounts = s.accounts /\ temporary = s.temporary
          /\ verified = s.verified /\ confirmed = s.verified
          /\ stored = s.sent /\ lastCode = s.sent
          /\ mailbox = [a \in Addresses |-> {s.sent[a]} \ {0}]
  BY DEF Init
<1>3. /\ s.users \in [UserIds -> UserType \cup {Unused}]
      /\ s.accounts \in [UserIds -> [Providers -> 0..2]]
      /\ s.sent \in [Addresses -> Codes \cup {0}]
      /\ s.temporary \subseteq Emails /\ s.verified \subseteq Addresses
  BY AccountsAssumption
<1>4. local \in [Requests -> LocalType]
  <2>1. NoLocal \in LocalType
    BY DEF NoLocal, LocalType
  <2> QED  BY <2>1 DEF Init
<1>5. mailbox \in [Addresses -> SUBSET Codes]
  BY <1>2, <1>3
<1>6. TypeOK
  BY <1>1, <1>2, <1>3, <1>4, <1>5 DEF Init, TypeOK
<1>7. HandlersInv
  BY <1>1 DEF HandlersInv, HandlerInv
<1> QED  BY <1>6, <1>7 DEF CoreInv

LEMMA NextCore == CoreInv /\ [Next]_vars => CoreInv'
<1> SUFFICES ASSUME CoreInv, [Next]_vars PROVE CoreInv'
  OBVIOUS
<1>1. ASSUME NEW r \in Requests, NEW call \in Calls, Receive(r, call) /\ Keeps
      PROVE  CoreInv'
  BY <1>1, ReceiveCore
<1>2. ASSUME NEW r \in Requests, NEW call \in Calls, ReceiveAccount(r, call)
      PROVE  CoreInv'
  BY <1>2, AccountCore
<1>3. ASSUME NEW r \in Requests, WorkspacesStep(r) /\ Keeps
      PROVE  CoreInv'
  BY <1>3, TeamWorks, WorksCore
<1>4. ASSUME NEW r \in Requests, AccountStep(r)
      PROVE  CoreInv'
  BY <1>4, AccountWorks, WorksCore
<1>5. ASSUME NEW r \in Requests, FailAccount(r)
      PROVE  CoreInv'
  BY <1>5, FailAccountWorks, WorksCore
<1>6. CASE UNCHANGED vars
  BY <1>6, StutterCore
<1> QED  BY <1>1, <1>2, <1>3, <1>4, <1>5, <1>6, ExpireCore DEF Next

LEMMA CoreCorrect == Spec => []CoreInv
<1>1. Init => CoreInv
  BY InitCore
<1>2. CoreInv /\ [Next]_vars => CoreInv'
  BY NextCore
<1> QED  BY <1>1, <1>2, PTL DEF Spec

(* Every variable keeps to what the columns, keys and fields of the code can *)
(* hold, whatever handlers of TeamController, UserController and             *)
(* TokenController overlap and break off.                                    *)
THEOREM TypeCorrect == Spec => []TypeOK
<1>1. CoreInv => TypeOK
  BY DEF CoreInv
<1> QED  BY <1>1, CoreCorrect, PTL

(* A handler only ever has steps of its own call ahead, in the order of the  *)
(* code; it has the team, the settings row, the names and the code that the  *)
(* step it is at works with, and the code is one that was generated.         *)
THEOREM HandlersCorrect == Spec => []HandlersInv
<1>1. CoreInv => HandlersInv
  BY DEF CoreInv
<1> QED  BY <1>1, CoreCorrect, PTL

-----------------------------------------------------------------------------
(* Addresses that have been proved.                                          *)
Proving == {"match", "compare", "status"}

(* A step is handled well if the handler has proved its address by it, or   *)
(* before it, or is done.                                                   *)
LEMMA ProofsWork ==
    ASSUME CoreInv, ProofsInv, NEW r \in Requests, Works(r),
           Accepted \subseteq Accepted', verified' \subseteq Accepted', AddressesProved',
           \/ Step(request[r]) \notin Proving
           \/ Address(r) \in Accepted'
           \/ request'[r] = Idle(request[r].call)
    PROVE  ProofsInv'
<1>1. ASSUME NEW s \in Requests, request'[s].todo # <<>>, Proved(request'[s])
      PROVE  Address(s)' \in Accepted'
  <2>1. CASE s # r
    <3>1. Kept(s)
      BY <2>1 DEF Works, OthersKept
    <3>2. s \in InFlight /\ Address(s)' = Address(s)
      BY <1>1, <3>1 DEF Kept, InFlight, Address, Person
    <3>3. Proved(request[s])
      BY <1>1, <3>1 DEF Kept, Proved, Step
    <3> QED  BY <3>2, <3>3 DEF ProofsInv
  <2>2. CASE s = r
    <3>1. r \in InFlight /\ request[r].call.op \in AllOps
      BY Flying DEF Works
    <3>2. request'[r] # Idle(request[r].call)
      BY <1>1, <2>2 DEF Idle
    <3>3. /\ request'[r].call = request[r].call
          /\ <<Step(request[r]), Step(request'[r])>> \in Follows[request[r].call.op]
      BY <3>2 DEF Works
    <3>4. Address(r)' = Address(r)
      BY <3>3 DEF Address, Person
    <3>5. CASE Address(r) \in Accepted'
      BY <2>2, <3>4, <3>5
    <3>6. CASE Step(request[r]) \notin Proving
      <4>1. Proved(request[r])
        BY <1>1, <2>2, <3>3, <3>6 DEF Proved, Proving
      <4> QED  BY <2>2, <3>1, <3>4, <4>1 DEF ProofsInv
    <3> QED  BY <3>2, <3>5, <3>6
  <2> QED  BY <2>1, <2>2
<1> QED  BY <1>1 DEF ProofsInv, InFlight

LEMMA SameProofs ==
    ASSUME ProofsInv, UNCHANGED <<users, verified, confirmed, waived>>
    PROVE  /\ Accepted \subseteq Accepted' /\ verified' \subseteq Accepted'
           /\ AddressesProved'
BY DEF ProofsInv, AddressesProved, Exists, Accepted

LEMMA TeamProofs ==
    ASSUME CoreInv, ProofsInv, NEW r \in Requests, WorkspacesStep(r), Keeps
    PROVE  ProofsInv'
<1>1. Works(r)
  BY TeamWorks
<1>2. Step(request[r]) \notin Proving
  BY WorkspacesSteps DEF TeamSteps, Proving
<1> QED  BY <1>1, <1>2, SameProofs, ProofsWork DEF Keeps, people, seen

(* The steps of Accounts that neither prove an address nor save one.        *)
PlainStep(r) ==
    \/ LookUp(r) \/ Publish(r) \/ StoreCode(r) \/ SaveTemporary(r) \/ LoadTemporary(r)
    \/ Recheck(r) \/ SearchPhone(r) \/ Evaluate(r) \/ FindAndSwitch(r) \/ FindAccount(r)
    \/ SaveAccount(r) \/ LoadUser(r) \/ DropKeys(r)

LEMMA PlainSteps ==
    ASSUME CoreInv, NEW r \in Requests, PlainStep(r)
    PROVE  /\ Step(request[r]) \notin Proving
           /\ UNCHANGED <<users, verified, confirmed, waived>>
<1> USE DoingStep DEF Proving, seen, people, Keeps, Learns
<1>1. CASE LookUp(r)  BY <1>1 DEF LookUp
<1>2. CASE Publish(r)  BY <1>2 DEF Publish
<1>3. CASE StoreCode(r)  BY <1>3 DEF StoreCode
<1>4. CASE SaveTemporary(r)  BY <1>4 DEF SaveTemporary
<1>5. CASE LoadTemporary(r)  BY <1>5 DEF LoadTemporary
<1>6. CASE Recheck(r)  BY <1>6 DEF Recheck
<1>7. CASE SearchPhone(r)  BY <1>7 DEF SearchPhone
<1>8. CASE Evaluate(r)  BY <1>8 DEF Evaluate
<1>9. CASE FindAndSwitch(r)  BY <1>9 DEF FindAndSwitch
<1>10. CASE FindAccount(r)  BY <1>10 DEF FindAccount
<1>11. CASE SaveAccount(r)  BY <1>11 DEF SaveAccount
<1>12. CASE LoadUser(r)  BY <1>12 DEF LoadUser
<1>13. CASE DropKeys(r)  BY <1>13 DEF DropKeys
<1> QED  BY <1>1, <1>2, <1>3, <1>4, <1>5, <1>6, <1>7, <1>8, <1>9, <1>10, <1>11, <1>12,
            <1>13 DEF PlainStep

LEMMA MatchProofs ==
    ASSUME CoreInv, SentInv, ProofsInv, NEW r \in Requests, MatchCode(r)
    PROVE  ProofsInv'
<1>1. Works(r) /\ r \in InFlight
  BY MatchCodeWorks DEF Works
<1>2. UNCHANGED <<users, verified>> /\ Accepted \subseteq Accepted'
  BY DEF MatchCode, people, Accepted
<1>3. verified' \subseteq Accepted' /\ AddressesProved'
  BY <1>2 DEF ProofsInv, AddressesProved, Exists
<1>4. Address(r) \in Accepted' \/ request'[r] = Idle(request[r].call)
  <2>1. CASE CodeMatches(r) /\ Address(r) \in blank
    BY <2>1 DEF MatchCode, Accepted
  <2>2. CASE CodeMatches(r) /\ Address(r) \notin blank
    <3>1. Address(r) \in Addresses
      BY AtPerson DEF MatchCode
    <3>2. Sent(r)
      BY <2>2, <3>1 DEF CodeMatches, Sent, SentInv
    <3> QED  BY <2>2, <3>2 DEF MatchCode, Accepted
  <2>3. CASE ~CodeMatches(r)
    BY <1>1, <2>3 DEF MatchCode, Refuse, Stop, CoreInv, TypeOK, WorkspacesTypeOK
  <2> QED  BY <2>1, <2>2, <2>3
<1> QED  BY <1>1, <1>2, <1>3, <1>4, ProofsWork

LEMMA MarkProofs ==
    ASSUME CoreInv, ProofsInv, NEW r \in Requests, MarkVerified(r)
    PROVE  ProofsInv'
<1> USE DEF Accepted
<1>1. Works(r) /\ r \in InFlight /\ Step(request[r]) = "mark"
  BY MarkVerifiedWorks, DoingStep DEF MarkVerified
<1>2. UNCHANGED <<users, confirmed, waived>> /\ verified' = verified \cup {Address(r)}
  BY DEF MarkVerified, seen
<1>3. Proved(request[r])
  <2>1. PICK n : <<"mark", n>> \in Follows[request[r].call.op] /\ request[r].call.op \in AllOps
    BY AtStep DEF MarkVerified
  <2> QED  BY <1>1, <2>1, Table DEF Proved
<1>4. verified' \subseteq Accepted'
  BY <1>1, <1>2, <1>3 DEF ProofsInv
<1>5. AddressesProved'
  BY <1>2 DEF ProofsInv, AddressesProved, Exists
<1> QED  BY <1>1, <1>2, <1>4, <1>5, ProofsWork DEF Proving

LEMMA StatusProofs ==
    ASSUME CoreInv, ProofsInv, NEW r \in Requests, CheckStatus(r)
    PROVE  ProofsInv'
<1> USE DEF Accepted
<1>1. Works(r) /\ r \in InFlight
  BY ChecksWork DEF Works, Checks
<1>2. UNCHANGED <<users, verified, confirmed, waived>>
  BY DEF CheckStatus, Keeps, people, seen
<1>3. Address(r) \in Accepted' \/ request'[r] = Idle(request[r].call)
  <2>1. CASE PhoneVerified(r)
    BY <1>2, <2>1 DEF PhoneVerified, ProofsInv
  <2>2. CASE ~PhoneVerified(r)
    BY <1>1, <2>2 DEF CheckStatus, Refuse, Stop, CoreInv, TypeOK, WorkspacesTypeOK
  <2> QED  BY <2>1, <2>2
<1> QED  BY <1>1, <1>2, <1>3, SameProofs, ProofsWork

LEMMA SignUpProofs ==
    ASSUME CoreInv, ProofsInv, NEW r \in Requests, CommitSignUp(r)
    PROVE  ProofsInv'
<1> USE DEF Accepted
<1>1. Works(r) /\ r \in InFlight /\ Step(request[r]) = "commitUser"
  BY CommitSignUpWorks, DoingStep DEF CommitSignUp
<1>2. UNCHANGED <<verified, confirmed, waived>>
  BY DEF CommitSignUp
<1>3. PICK u \in UserIds : users' = [users EXCEPT ![u] = NewUser(r)]
  BY DEF CommitSignUp
<1>4. PICK op : op = request[r].call.op
  OBVIOUS
<1>5. op \in SigningUp
  <2>1. PICK n : <<"commitUser", n>> \in Follows[request[r].call.op]
                 /\ request[r].call.op \in AllOps
    BY AtStep DEF CommitSignUp
  <2> QED  BY <1>4, <2>1, Table
<1>6. NewUser(r).via # "oauth" => {NewUser(r).email, NewUser(r).phone} \ {NoOne} \subseteq Accepted
  <2>1. ASSUME op \in {"emailSignUp", "phoneSignUp"}
        PROVE  {NewUser(r).email, NewUser(r).phone} \ {NoOne} \subseteq Accepted
    <3>1. Address(r) \in Accepted
      BY <1>1, <1>4, <2>1 DEF ProofsInv, Proved
    <3>2. Person(r).phone = NoOne
      BY <1>1, <1>4, <2>1, Flying DEF Spoken
    <3>3. /\ NewUser(r).email \in {Address(r), NoOne}
          /\ NewUser(r).phone \in {Address(r), NoOne}
      BY <3>2 DEF NewUser, Address
    <3> QED  BY <3>1, <3>3
  <2>2. NewUser(r).via # "oauth" => op \in {"emailSignUp", "phoneSignUp"}
    BY <1>4 DEF NewUser, Via
  <2> QED  BY <2>1, <2>2
<1>7. AddressesProved'
  BY <1>2, <1>3, <1>6, PeopleAre DEF ProofsInv, AddressesProved, Exists, PeopleOK
<1>8. verified' \subseteq Accepted'
  BY <1>2 DEF ProofsInv
<1> QED  BY <1>1, <1>2, <1>7, <1>8, ProofsWork DEF Proving

LEMMA SetPhoneProofs ==
    ASSUME CoreInv, ProofsInv, NEW r \in Requests, SetPhone(r)
    PROVE  ProofsInv'
<1> USE DEF Accepted
<1>1. Works(r) /\ r \in InFlight /\ Step(request[r]) = "setPhone"
  BY SetPhoneWorks, DoingStep DEF SetPhone
<1>2. UNCHANGED <<verified, confirmed, waived>>
  BY DEF SetPhone, seen
<1>3. Address(r) \in Accepted
  <2>1. PICK n : <<"setPhone", n>> \in Follows[request[r].call.op] /\ request[r].call.op \in AllOps
    BY AtStep DEF SetPhone
  <2>2. Proved(request[r])
    BY <1>1, <2>1, Table DEF Proved
  <2> QED  BY <1>1, <2>2 DEF ProofsInv
<1>4. AddressesProved'
  <2>1. CASE UNCHANGED users
    BY <1>2, <2>1 DEF ProofsInv, AddressesProved, Exists
  <2>2. CASE ~UNCHANGED users
    <3>1. PICK u : u = Person(r).user
      OBVIOUS
    <3>2. u \in UserIds /\ Exists(u) /\ users' = [users EXCEPT ![u].phone = Address(r)]
      BY <2>2, <3>1, AtPerson DEF SetPhone
    <3>3. users[u] \in UserType
      BY <3>2, PeopleAre DEF PeopleOK, Exists
    <3>4. PICK v : v = users'[u]
      OBVIOUS
    <3>5. v.phone = Address(r) /\ v.email = users[u].email /\ v.via = users[u].via
      BY <3>2, <3>3, <3>4, PeopleAre DEF PeopleOK, UserType
    <3>6. users[u].via # "oauth" => {users[u].email} \ {NoOne} \subseteq Accepted
      BY <3>2 DEF ProofsInv, AddressesProved
    <3>7. v.via # "oauth" => {v.email, v.phone} \ {NoOne} \subseteq Accepted
      BY <1>3, <3>5, <3>6
    <3>8. \A w \in UserIds \ {u} : users'[w] = users[w]
      BY <3>2, PeopleAre DEF PeopleOK
    <3>9. ASSUME NEW w \in UserIds, Exists(w)', users'[w].via # "oauth"
          PROVE  {users'[w].email, users'[w].phone} \ {NoOne} \subseteq Accepted'
      BY <1>2, <3>4, <3>7, <3>8, <3>9 DEF ProofsInv, AddressesProved, Exists
    <3> QED  BY <3>9 DEF AddressesProved
  <2> QED  BY <2>1, <2>2
<1>5. verified' \subseteq Accepted'
  BY <1>2 DEF ProofsInv
<1> QED  BY <1>1, <1>2, <1>4, <1>5, ProofsWork DEF Proving

LEMMA EraseProofs ==
    ASSUME CoreInv, ProofsInv, NEW r \in Requests, EraseUser(r)
    PROVE  ProofsInv'
<1> USE DEF Accepted
<1>1. Works(r) /\ Step(request[r]) = "erase"
  BY EraseUserWorks, DoingStep DEF EraseUser
<1>2. UNCHANGED <<verified, confirmed, waived>> /\ users' = [users EXCEPT ![Person(r).user] = Gone]
  BY DEF EraseUser, seen
<1>3. AddressesProved'
  BY <1>2, PeopleAre DEF ProofsInv, AddressesProved, Exists, PeopleOK
<1>4. verified' \subseteq Accepted'
  BY <1>2 DEF ProofsInv
<1> QED  BY <1>1, <1>2, <1>3, <1>4, ProofsWork DEF Proving

LEMMA ComesProofs ==
    ASSUME CoreInv, ProofsInv, NEW r \in Requests, NEW call \in Calls, Comes(r, call),
           UNCHANGED <<users, verified, confirmed, waived>>
    PROVE  ProofsInv'
<1> USE DEF Accepted
<1>1. ASSUME NEW s \in Requests, request'[s].todo # <<>>, Proved(request'[s])
      PROVE  Address(s)' \in Accepted'
  <2>1. s # r
    <3>1. request'[r].call = call /\ Step(request'[r]) = Start[call.op]
      BY DEF Comes
    <3> QED  BY <1>1, <3>1 DEF Proved, Start
  <2>2. request'[s] = request[s]
    BY <2>1 DEF Comes
  <2> QED  BY <1>1, <2>2 DEF ProofsInv, InFlight, Address, Person
<1> QED  BY <1>1, SameProofs DEF ProofsInv, InFlight

LEMMA InitProofs == Init => ProofsInv
<1> SUFFICES ASSUME Init PROVE ProofsInv
  OBVIOUS
<1>1. InFlight = {}
  BY InitTeams DEF Init
<1>2. PICK s \in Starts : users = s.users /\ verified = s.verified /\ confirmed = s.verified
  BY DEF Init
<1>3. \A u \in UserIds : s.users[u] # Unused /\ s.users[u].via # "oauth" =>
         {s.users[u].email, s.users[u].phone} \ {NoOne} \subseteq s.verified
  BY AccountsAssumption
<1> QED  BY <1>1, <1>2, <1>3 DEF ProofsInv, AddressesProved, Exists, Accepted

LEMMA NextProofs == CoreInv /\ SentInv /\ ProofsInv /\ [Next]_vars => ProofsInv'
<1> SUFFICES ASSUME CoreInv, SentInv, ProofsInv, [Next]_vars PROVE ProofsInv'
  OBVIOUS
<1>1. ASSUME NEW r \in Requests, NEW call \in Calls, Receive(r, call) /\ Keeps
      PROVE  ProofsInv'
  BY <1>1, ReceiveCore, ComesProofs DEF Keeps, people, seen
<1>2. ASSUME NEW r \in Requests, NEW call \in Calls, ReceiveAccount(r, call)
      PROVE  ProofsInv'
  BY <1>2, AccountCore, ComesProofs DEF ReceiveAccount, people
<1>3. ASSUME NEW r \in Requests, WorkspacesStep(r) /\ Keeps
      PROVE  ProofsInv'
  BY <1>3, TeamProofs
<1>4. ASSUME NEW r \in Requests, AccountStep(r)
      PROVE  ProofsInv'
  <2>1. CASE PlainStep(r)
    BY <1>4, <2>1, AccountWorks, PlainSteps, SameProofs, ProofsWork
  <2>2. CASE ~PlainStep(r)
    BY <1>4, <2>2, MatchProofs, MarkProofs, StatusProofs, SignUpProofs, SetPhoneProofs,
       EraseProofs DEF AccountStep, PlainStep
  <2> QED  BY <2>1, <2>2
<1>5. ASSUME NEW r \in Requests, FailAccount(r)
      PROVE  ProofsInv'
  <2>1. Works(r) /\ r \in InFlight
    BY <1>5, FailAccountWorks DEF Works
  <2>2. request'[r] = Idle(request[r].call)
    BY <1>5, <2>1 DEF FailAccount, Fail, Stop, CoreInv, TypeOK, WorkspacesTypeOK
  <2> QED  BY <1>5, <2>1, <2>2, SameProofs, ProofsWork DEF FailAccount, people
<1>6. ASSUME UNCHANGED <<request, users, verified, confirmed, waived>>
      PROVE  ProofsInv'
  BY <1>6, SameProofs DEF ProofsInv, InFlight, Address, Person, Accepted
<1>7. ASSUME NEW a \in Addresses, Expire(a)
      PROVE  ProofsInv'
  BY <1>6, <1>7 DEF Expire, wsVars
<1>8. CASE UNCHANGED vars
  BY <1>6, <1>8 DEF vars, wsVars, people, seen
<1> QED  BY <1>1, <1>2, <1>3, <1>4, <1>5, <1>7, <1>8 DEF Next

-----------------------------------------------------------------------------
(* Users whom a sign-up has met.                                             *)
Concerned(r) == request[r].call.op \in {"phoneSignUp", "oauth", "integrate"}

LEMMA OthersBefore ==
    ASSUME CoreInv, TwinsInv, NEW r \in Requests, Works(r), UNCHANGED users,
           NEW s \in Requests \ {r}, local'[s].before = local[s].before,
           request'[s].todo # <<>>
    PROVE  BeforeInv(s)'
<1>1. Kept(s)
  BY DEF Works, OthersKept
<1>2. /\ s \in InFlight /\ Address(s)' = Address(s) /\ request'[s].call = request[s].call
      /\ Step(request'[s]) = Step(request[s])
  BY <1>1 DEF Kept, InFlight, Address, Person, Step
<1>3. BeforeInv(s)
  BY <1>2 DEF TwinsInv
<1> QED  BY <1>2, <1>3 DEF BeforeInv, With, Exists

LEMMA OwnBefore ==
    ASSUME CoreInv, TwinsInv, NEW r \in Requests, Works(r), UNCHANGED users,
           local'[r].before = local[r].before, request'[r].todo # <<>>,
           Step(request[r]) \in {"search", "find"} /\ Step(request'[r]) = "look" =>
              With(Address(r)) = {}
    PROVE  BeforeInv(r)'
<1>1. r \in InFlight /\ request[r].call.op \in AllOps /\ request'[r] # Idle(request[r].call)
  BY Flying DEF Works, Idle
<1>2. /\ request'[r].call = request[r].call /\ WellFormed(request'[r])
      /\ <<Step(request[r]), Step(request'[r])>> \in Follows[request[r].call.op]
  BY <1>1 DEF Works
<1>3. Address(r)' = Address(r) /\ BeforeInv(r)
  BY <1>1, <1>2 DEF Address, Person, TwinsInv
<1>4. Step(request'[r]) # "none"
  BY <1>1, <1>2, Ahead DEF WellFormed
<1>5. Step(request[r]) \in Looking => \/ Step(request'[r]) \in Looking
                                      \/ /\ Step(request[r]) \in {"search", "find"}
                                         /\ Step(request'[r]) = "look"
  BY <1>1, <1>2, <1>4, Table DEF Looking
<1> QED  BY <1>2, <1>3, <1>5 DEF BeforeInv, With, Exists

LEMMA TwinsWork ==
    ASSUME CoreInv, TwinsInv, NEW r \in Requests, Works(r), UNCHANGED <<users, met>>,
           \A s \in Requests : local'[s].before = local[s].before,
           Step(request[r]) \in {"search", "find"} /\ Step(request'[r]) = "look" =>
              With(Address(r)) = {}
    PROVE  TwinsInv'
<1>1. \A s \in Requests : request'[s].todo # <<>> => BeforeInv(s)'
  BY OthersBefore, OwnBefore
<1>2. NoTwins'
  BY DEF TwinsInv, NoTwins, Exists
<1> QED  BY <1>1, <1>2 DEF TwinsInv, InFlight

LEMMA TeamTwins ==
    ASSUME CoreInv, TwinsInv, NEW r \in Requests, WorkspacesStep(r), Keeps
    PROVE  TwinsInv'
<1>1. Works(r)
  BY TeamWorks
<1>2. Step(request[r]) \notin {"search", "find"}
  BY WorkspacesSteps DEF TeamSteps
<1> QED  BY <1>1, <1>2, TwinsWork DEF Keeps, people, seen

(* The steps of Accounts that make, change and delete no user.              *)
Looks(r) ==
    \/ LookUp(r) \/ Publish(r) \/ StoreCode(r) \/ MatchCode(r) \/ MarkVerified(r)
    \/ SaveTemporary(r) \/ LoadTemporary(r) \/ Recheck(r) \/ CheckStatus(r) \/ Evaluate(r)
    \/ FindAccount(r) \/ SaveAccount(r) \/ LoadUser(r) \/ DropKeys(r)

LEMMA LearntBefore ==
    ASSUME CoreInv, NEW r \in Requests, NEW l, Knows(r, l), l.before = local[r].before
    PROVE  \A s \in Requests : local'[s].before = local[s].before
BY PeopleAre DEF Knows, PeopleOK

LEMMA LooksKeep ==
    ASSUME CoreInv, NEW r \in Requests, Looks(r)
    PROVE  /\ Step(request[r]) \notin {"search", "find"}
           /\ UNCHANGED <<users, met>>
           /\ \A s \in Requests : local'[s].before = local[s].before
<1>1. CASE LookUp(r)
  <2>1. PICK l : l = [local[r] EXCEPT !.known = With(Address(r)) # {},
                                       !.code = lastCode[Address(r)] + 1]
    OBVIOUS
  <2>2. l.before = local[r].before
    BY <2>1, PeopleAre DEF PeopleOK, LocalType
  <2>3. Knows(r, l) /\ UNCHANGED <<users, met>>
    BY <1>1, <2>1 DEF LookUp, seen
  <2>4. Step(request[r]) = "lookUp"
    BY <1>1, DoingStep DEF LookUp
  <2> QED  BY <2>2, <2>3, <2>4, LearntBefore
<1>2. CASE Evaluate(r)
  <2>1. PICK c : Learns(r, [local[r] EXCEPT !.context = c])
    BY <1>2 DEF Evaluate
  <2>2. PICK l : l = [local[r] EXCEPT !.context = c]
    OBVIOUS
  <2>3. l.before = local[r].before
    BY <2>2, PeopleAre DEF PeopleOK, LocalType
  <2>4. Knows(r, l) /\ UNCHANGED <<users, met>>
    BY <2>1, <2>2 DEF Learns, seen, people
  <2>5. Step(request[r]) = "evaluate"
    BY <1>2, DoingStep DEF Evaluate
  <2> QED  BY <2>3, <2>4, <2>5, LearntBefore
<1> USE DoingStep DEF seen, people, Keeps
<1>3. CASE Publish(r)  BY <1>3 DEF Publish
<1>4. CASE StoreCode(r)  BY <1>4 DEF StoreCode
<1>5. CASE MatchCode(r)  BY <1>5 DEF MatchCode
<1>6. CASE MarkVerified(r)  BY <1>6 DEF MarkVerified
<1>7. CASE SaveTemporary(r)  BY <1>7 DEF SaveTemporary
<1>8. CASE LoadTemporary(r)  BY <1>8 DEF LoadTemporary
<1>9. CASE Recheck(r)  BY <1>9 DEF Recheck
<1>10. CASE CheckStatus(r)  BY <1>10 DEF CheckStatus
<1>11. CASE FindAccount(r)  BY <1>11 DEF FindAccount
<1>12. CASE SaveAccount(r)  BY <1>12 DEF SaveAccount
<1>13. CASE LoadUser(r)  BY <1>13 DEF LoadUser
<1>14. CASE DropKeys(r)  BY <1>14 DEF DropKeys
<1> QED  BY <1>1, <1>2, <1>3, <1>4, <1>5, <1>6, <1>7, <1>8, <1>9, <1>10, <1>11, <1>12,
            <1>13, <1>14 DEF Looks

LEMMA SearchTwins ==
    ASSUME CoreInv, TwinsInv, NEW r \in Requests, SearchPhone(r)
    PROVE  TwinsInv'
<1>1. Works(r) /\ r \in InFlight
  BY ChecksWork DEF Checks, Works
<1>2. With(Address(r)) = {} \/ request'[r] = Idle(request[r].call)
  BY <1>1 DEF SearchPhone, Taken, Refuse, Stop, CoreInv, TypeOK, WorkspacesTypeOK
<1>3. request'[r] = Idle(request[r].call) => Step(request'[r]) = "none"
  BY DEF Idle, Step
<1> QED  BY <1>1, <1>2, <1>3, TwinsWork DEF SearchPhone, Keeps, people, seen

LEMMA FindTwins ==
    ASSUME CoreInv, TwinsInv, NEW r \in Requests, FindAndSwitch(r)
    PROVE  TwinsInv'
<1>1. Works(r) /\ r \in InFlight
  BY FindAndSwitchWorks DEF Works
<1>2. Step(request'[r]) = "look" => With(Address(r)) = {}
  <2>1. CASE With(Address(r)) # {}
    <3>1. PICK u : u = FirstWith(Address(r))
      OBVIOUS
    <3>2. u # NoOne
      BY <2>1, <3>1, FirstWithIs
    <3>3. CASE Refuse(r)
      <4>1. request'[r] = Idle(request[r].call)
        BY <1>1, <3>3 DEF Refuse, Stop, CoreInv, TypeOK, WorkspacesTypeOK
      <4> QED  BY <4>1 DEF Idle, Step
    <3>4. CASE Switch(r, request[r], StepsOf(local[r].context)) /\ local[r].context # "signUp"
      <4>1. PICK todo : todo = StepsOf(local[r].context)
        OBVIOUS
      <4>2. todo = <<>> \/ todo = LinkSteps
        BY <3>4, <4>1 DEF StepsOf
      <4>3. request' = [request EXCEPT ![r] =
               IF todo = <<>> THEN Idle(request[r].call) ELSE [request[r] EXCEPT !.todo = todo]]
        BY <3>4, <4>1 DEF Switch
      <4>4. CASE todo = <<>>
        <5>1. request'[r] = Idle(request[r].call)
          BY <1>1, <4>3, <4>4 DEF CoreInv, TypeOK, WorkspacesTypeOK
        <5> QED  BY <5>1 DEF Idle, Step
      <4>5. CASE todo # <<>>
        <5>1. request'[r] = [request[r] EXCEPT !.todo = todo] /\ request[r] \in RequestType
          BY <1>1, <4>3, <4>5 DEF CoreInv, TypeOK, WorkspacesTypeOK
        <5>2. request'[r].todo = todo
          BY <5>1 DEF RequestType
        <5> QED  BY <4>2, <4>5, <5>2 DEF Step, LinkSteps
      <4> QED  BY <4>4, <4>5
    <3>5. \/ Refuse(r)
          \/ Switch(r, request[r], StepsOf(local[r].context)) /\ local[r].context # "signUp"
      BY <3>1, <3>2 DEF FindAndSwitch, ValidOAuth2Request
    <3> QED  BY <3>3, <3>4, <3>5
  <2> QED  BY <2>1
<1>3. PICK l : l = [local[r] EXCEPT !.found = FirstWith(Address(r))]
  OBVIOUS
<1>4. l.before = local[r].before
  BY <1>1, <1>3, PeopleAre DEF PeopleOK, LocalType
<1>5. Knows(r, l) /\ UNCHANGED <<users, met>>
  BY <1>3 DEF FindAndSwitch, Learns, people, seen
<1>6. \A s \in Requests : local'[s].before = local[s].before
  BY <1>4, <1>5, LearntBefore
<1> QED  BY <1>1, <1>2, <1>5, <1>6, TwinsWork

(* Everyone who has been met keeps his address or goes.                     *)
LEMMA BeforeStays ==
    ASSUME CoreInv, TwinsInv, NEW r \in Requests, Works(r),
           Step(request[r]) \notin {"search", "find"},
           \A s \in InFlight : \A u \in local'[s].before :
               /\ u \in local[s].before
               /\ users[u] = Gone => users'[u] = Gone
               /\ u \in With(Address(s)) /\ Concerned(s) =>
                     users'[u] = Gone \/ (u \in With(Address(s)))'
    PROVE  \A s \in InFlight' : BeforeInv(s)'
<1>1. ASSUME NEW s \in Requests, request'[s].todo # <<>>
      PROVE  BeforeInv(s)'
  <2>1. CASE s # r
    <3>1. Kept(s)
      BY <2>1 DEF Works, OthersKept
    <3>2. /\ s \in InFlight /\ Address(s)' = Address(s) /\ request'[s].call = request[s].call
          /\ Step(request'[s]) = Step(request[s])
      BY <1>1, <3>1 DEF Kept, InFlight, Address, Person, Step
    <3>3. BeforeInv(s)
      BY <3>2 DEF TwinsInv
    <3>4. ASSUME Concerned(s), NEW u \in local'[s].before
          PROVE  \/ users'[u] = Gone
                 \/ Step(request'[s]) \in Looking /\ (u \in With(Address(s)))'
      BY <3>2, <3>3, <3>4 DEF BeforeInv, Concerned
    <3> QED  BY <3>2, <3>4 DEF BeforeInv, Concerned
  <2>2. CASE s = r
    <3>1. r \in InFlight /\ request[r].call.op \in AllOps /\ request'[r] # Idle(request[r].call)
      BY <1>1, <2>2, Flying DEF Works, Idle
    <3>2. /\ request'[r].call = request[r].call /\ WellFormed(request'[r])
          /\ <<Step(request[r]), Step(request'[r])>> \in Follows[request[r].call.op]
      BY <3>1 DEF Works
    <3>3. Address(r)' = Address(r) /\ BeforeInv(r)
      BY <3>1, <3>2 DEF Address, Person, TwinsInv
    <3>4. Step(request'[r]) # "none"
      BY <3>1, <3>2, Ahead DEF WellFormed
    <3>5. Step(request[r]) \in Looking => Step(request'[r]) \in Looking
      BY <3>1, <3>2, <3>4, Table DEF Looking
    <3>6. ASSUME Concerned(r), NEW u \in local'[r].before
          PROVE  \/ users'[u] = Gone
                 \/ Step(request'[r]) \in Looking /\ (u \in With(Address(r)))'
      BY <3>1, <3>3, <3>5, <3>6 DEF BeforeInv, Concerned
    <3> QED  BY <2>2, <3>2, <3>6 DEF BeforeInv, Concerned
  <2> QED  BY <2>1, <2>2
<1> QED  BY <1>1 DEF InFlight

LEMMA SignUpTwins ==
    ASSUME CoreInv, TwinsInv, NEW r \in Requests, CommitSignUp(r)
    PROVE  TwinsInv'
<1>1. Works(r) /\ r \in InFlight /\ Step(request[r]) = "commitUser"
  BY CommitSignUpWorks, DoingStep DEF CommitSignUp
<1>2. PICK u \in UserIds :
          /\ users[u] = Unused /\ users' = [users EXCEPT ![u] = NewUser(r)]
          /\ met' = [met EXCEPT ![u] = local[r].before \cap With(Address(r))]
  BY DEF CommitSignUp
<1>3. UNCHANGED local
  BY DEF CommitSignUp
<1>4. Unused # Gone /\ users[u] # Gone /\ ~Exists(u)
  BY <1>2, AccountsAssumption DEF Exists
<1>5. \A v \in UserIds \ {u} : users'[v] = users[v]
  BY <1>2, PeopleAre DEF PeopleOK
<1>6. ASSUME NEW s \in InFlight, NEW v \in local'[s].before
      PROVE  /\ v \in local[s].before
             /\ users[v] = Gone => users'[v] = Gone
             /\ v \in With(Address(s)) /\ Concerned(s) =>
                   users'[v] = Gone \/ (v \in With(Address(s)))'
  <2>1. v \in local[s].before /\ v \in UserIds
    BY <1>3, <1>6, PeopleAre DEF PeopleOK, InFlight, LocalType
  <2>2. Address(s)' = Address(s)
    <3>1. request'[s].call = request[s].call
      BY <1>1 DEF Works, OthersKept, Kept, Idle, InFlight
    <3> QED  BY <3>1 DEF Address, Person
  <2>3. v # u => users'[v] = users[v]
    BY <1>5, <2>1
  <2>4. v \in With(Address(s)) => v # u
    BY <1>4 DEF With
  <2> QED  BY <1>4, <2>1, <2>2, <2>3, <2>4 DEF With, Exists
<1>7. \A s \in InFlight' : BeforeInv(s)'
  BY <1>1, <1>6, BeforeStays
<1>8. NoTwins'
  <2>1. users'[u] = NewUser(r) /\ met'[u] = local[r].before \cap With(Address(r))
    BY <1>2, PeopleAre DEF PeopleOK
  <2>2. NewUser(r).via # "email" => Concerned(r)
    <3>1. PICK n : <<"commitUser", n>> \in Follows[request[r].call.op]
                   /\ request[r].call.op \in AllOps
      BY AtStep DEF CommitSignUp
    <3>2. request[r].call.op \in SigningUp
      BY <3>1, Table
    <3> QED  BY <3>2 DEF NewUser, Via, Concerned, SigningUp, Making
  <2>3. Concerned(r) => \A v \in local[r].before : users[v] = Gone
    BY <1>1 DEF TwinsInv, BeforeInv, Concerned, Looking
  <2>4. Concerned(r) => local[r].before \cap With(Address(r)) = {}
    BY <2>3 DEF With, Exists
  <2>5. ASSUME NEW v \in UserIds, Exists(v)', users'[v].via # "email"
        PROVE  met'[v] = {}
    <3>1. CASE v = u
      BY <2>1, <2>2, <2>4, <2>5, <3>1
    <3>2. CASE v # u
      <4>1. users'[v] = users[v] /\ met'[v] = met[v]
        BY <1>2, <3>2, PeopleAre DEF PeopleOK
      <4> QED  BY <2>5, <4>1 DEF TwinsInv, NoTwins, Exists
    <3> QED  BY <3>1, <3>2
  <2> QED  BY <2>5 DEF NoTwins
<1> QED  BY <1>7, <1>8 DEF TwinsInv

LEMMA SetPhoneTwins ==
    ASSUME CoreInv, TwinsInv, NEW r \in Requests, SetPhone(r)
    PROVE  TwinsInv'
<1>1. Works(r) /\ r \in InFlight /\ Step(request[r]) = "setPhone"
  BY SetPhoneWorks, DoingStep DEF SetPhone
<1>2. UNCHANGED met
  BY DEF SetPhone, seen
<1>3. CASE UNCHANGED <<users, local>>
  BY <1>1, <1>2, <1>3, TwinsWork
<1>4. CASE ~UNCHANGED <<users, local>>
  <2>1. PICK u : u = Person(r).user
    OBVIOUS
  <2>2. PICK left : left = users[u].phone
    OBVIOUS
  <2>3. PICK a : a = Address(r)
    OBVIOUS
  <2>4. PICK S : S = {s \in InFlight : Address(s) = left /\ left # a}
    OBVIOUS
  <2>5. /\ Exists(u)
        /\ users' = [users EXCEPT ![u].phone = a]
        /\ local' = [s \in Requests |->
              IF s \in S THEN [local[s] EXCEPT !.before = @ \ {u}] ELSE local[s]]
    BY <1>4, <2>1, <2>2, <2>3, <2>4 DEF SetPhone
  <2>6. u \in UserIds
    BY <2>1, AtPerson DEF SetPhone
  <2>7. users[u] \in UserType
    BY <2>5, <2>6, PeopleAre DEF PeopleOK, Exists
  <2>8. PICK v : v = users'[u]
    OBVIOUS
  <2>9. v.phone = a /\ v.email = users[u].email /\ v.via = users[u].via /\ v \in UserType
    <3>1. a \in Phones
      BY <2>3, AtPerson DEF SetPhone
    <3> QED  BY <2>5, <2>6, <2>7, <2>8, <3>1, PeopleAre DEF PeopleOK, UserType
  <2>10. \A w \in UserIds \ {u} : users'[w] = users[w]
    BY <2>5, PeopleAre DEF PeopleOK
  <2>11. v # Unused /\ v # Gone
    BY <2>9, AccountsAssumption
  <2>12. ASSUME NEW s \in InFlight, NEW w \in local'[s].before
         PROVE  /\ w \in local[s].before
                /\ users[w] = Gone => users'[w] = Gone
                /\ w \in With(Address(s)) /\ Concerned(s) =>
                      users'[w] = Gone \/ (w \in With(Address(s)))'
    <3>1. s \in Requests /\ local[s] \in LocalType
      BY PeopleAre DEF PeopleOK, InFlight
    <3>2. w \in local[s].before /\ (s \in S => w # u) /\ w \in UserIds
      <4>1. CASE s \in S
        <5>1. local'[s] = [local[s] EXCEPT !.before = @ \ {u}]
          BY <2>5, <3>1, <4>1
        <5>2. local'[s].before = local[s].before \ {u}
          BY <3>1, <5>1 DEF LocalType
        <5> QED  BY <2>12, <3>1, <5>2 DEF LocalType
      <4>2. CASE s \notin S
        BY <2>5, <2>12, <3>1, <4>2 DEF LocalType
      <4> QED  BY <4>1, <4>2
    <3>3. Address(s)' = Address(s)
      <4>1. request'[s].call = request[s].call
        BY <1>1 DEF Works, OthersKept, Kept, Idle, InFlight
      <4> QED  BY <4>1 DEF Address, Person
    <3>4. CASE w # u
      <4>1. users'[w] = users[w]
        BY <2>10, <3>2, <3>4
      <4> QED  BY <3>2, <3>3, <4>1 DEF With, Exists
    <3>5. CASE w = u
      <4>1. Address(s) # left \/ left = a
        BY <2>4, <3>2, <3>5
      <4>2. u \in With(Address(s)) => Address(s) \in {v.email, v.phone}
        BY <2>2, <2>9, <4>1 DEF With
      <4>3. users[u] # Gone
        BY <2>5 DEF Exists
      <4> QED  BY <2>6, <2>8, <2>11, <3>2, <3>3, <3>5, <4>2, <4>3 DEF With, Exists
    <3> QED  BY <3>4, <3>5
  <2>13. \A s \in InFlight' : BeforeInv(s)'
    BY <1>1, <2>12, BeforeStays
  <2>14. NoTwins'
    <3>1. ASSUME NEW w \in UserIds, Exists(w)', users'[w].via # "email"
          PROVE  met'[w] = {}
      <4>1. CASE w = u
        BY <1>2, <2>5, <2>8, <2>9, <3>1, <4>1 DEF TwinsInv, NoTwins
      <4>2. CASE w # u
        BY <1>2, <2>10, <3>1, <4>2 DEF TwinsInv, NoTwins, Exists
      <4> QED  BY <4>1, <4>2
    <3> QED  BY <3>1 DEF NoTwins
  <2> QED  BY <2>13, <2>14 DEF TwinsInv
<1> QED  BY <1>3, <1>4

LEMMA EraseTwins ==
    ASSUME CoreInv, TwinsInv, NEW r \in Requests, EraseUser(r)
    PROVE  TwinsInv'
<1>1. Works(r) /\ r \in InFlight /\ Step(request[r]) = "erase"
  BY EraseUserWorks, DoingStep DEF EraseUser
<1>2. PICK u : u = Person(r).user
  OBVIOUS
<1>3. u \in UserIds /\ users' = [users EXCEPT ![u] = Gone] /\ UNCHANGED <<local, met>>
  BY <1>2, AtPerson DEF EraseUser, seen
<1>4. users'[u] = Gone /\ \A v \in UserIds \ {u} : users'[v] = users[v]
  BY <1>3, PeopleAre DEF PeopleOK
<1>5. ASSUME NEW s \in InFlight, NEW v \in local'[s].before
      PROVE  /\ v \in local[s].before
             /\ users[v] = Gone => users'[v] = Gone
             /\ v \in With(Address(s)) /\ Concerned(s) =>
                   users'[v] = Gone \/ (v \in With(Address(s)))'
  <2>1. v \in local[s].before /\ v \in UserIds
    BY <1>3, <1>5, PeopleAre DEF PeopleOK, InFlight, LocalType
  <2>2. Address(s)' = Address(s)
    <3>1. request'[s].call = request[s].call
      BY <1>1 DEF Works, OthersKept, Kept, Idle, InFlight
    <3> QED  BY <3>1 DEF Address, Person
  <2>3. users'[v] = Gone \/ users'[v] = users[v]
    BY <1>4, <2>1
  <2> QED  BY <2>1, <2>2, <2>3 DEF With, Exists
<1>6. \A s \in InFlight' : BeforeInv(s)'
  BY <1>1, <1>5, BeforeStays
<1>7. NoTwins'
  BY <1>3, <1>4 DEF TwinsInv, NoTwins, Exists
<1> QED  BY <1>6, <1>7 DEF TwinsInv

LEMMA ComesTwins ==
    ASSUME CoreInv, TwinsInv, NEW r \in Requests, NEW call \in Calls, Comes(r, call),
           UNCHANGED <<users, met>>, \A s \in Requests \ {r} : local'[s] = local[s],
           call.op \in {"phoneSignUp", "oauth", "integrate"} =>
              local'[r].before = With(call.person.address)
    PROVE  TwinsInv'
<1>1. ASSUME NEW s \in Requests, request'[s].todo # <<>>
      PROVE  BeforeInv(s)'
  <2>1. CASE s = r
    <3>1. request'[r].call = call /\ Step(request'[r]) = Start[call.op]
      BY DEF Comes
    <3>2. Address(r)' = call.person.address
      BY <3>1 DEF Address, Person
    <3>3. call.op \in {"phoneSignUp", "oauth", "integrate"} => Start[call.op] \in Looking
      BY DEF Start, Looking
    <3> QED  BY <2>1, <3>1, <3>2, <3>3 DEF BeforeInv, With, Exists
  <2>2. CASE s # r
    <3>1. request'[s] = request[s] /\ local'[s] = local[s]
      BY <2>2 DEF Comes
    <3>2. BeforeInv(s)
      BY <1>1, <3>1 DEF TwinsInv, InFlight
    <3> QED  BY <3>1, <3>2 DEF BeforeInv, With, Exists, Address, Person
  <2> QED  BY <2>1, <2>2
<1>2. NoTwins'
  BY DEF TwinsInv, NoTwins, Exists
<1> QED  BY <1>1, <1>2 DEF TwinsInv, InFlight

LEMMA InitTwins == Init => TwinsInv
<1>1. Init => InFlight = {}
  BY InitTeams DEF Init
<1> QED  BY <1>1 DEF Init, TwinsInv, NoTwins

LEMMA NextTwins == CoreInv /\ TwinsInv /\ [Next]_vars => TwinsInv'
<1> SUFFICES ASSUME CoreInv, TwinsInv, [Next]_vars PROVE TwinsInv'
  OBVIOUS
<1>1. ASSUME NEW r \in Requests, NEW call \in Calls, Receive(r, call) /\ Keeps
      PROVE  TwinsInv'
  <2>1. Comes(r, call) /\ UNCHANGED <<users, met, local>>
    BY <1>1, ReceiveCore DEF Keeps, people, seen
  <2>2. call.op \notin {"phoneSignUp", "oauth", "integrate"}
    BY <1>1 DEF Receive
  <2> QED  BY <2>1, <2>2, ComesTwins
<1>2. ASSUME NEW r \in Requests, NEW call \in Calls, ReceiveAccount(r, call)
      PROVE  TwinsInv'
  <2>1. Comes(r, call) /\ UNCHANGED <<users, met>>
    BY <1>2, AccountCore DEF ReceiveAccount, people
  <2>2. PICK l : l = [NoLocal EXCEPT !.before = With(call.person.address)]
    OBVIOUS
  <2>3. l.before = With(call.person.address)
    BY <2>2 DEF NoLocal
  <2>4. local' = [local EXCEPT ![r] = l]
    BY <1>2, <2>2 DEF ReceiveAccount, Knows
  <2>5. local'[r] = l /\ \A s \in Requests \ {r} : local'[s] = local[s]
    BY <2>4, PeopleAre DEF PeopleOK
  <2> QED  BY <2>1, <2>3, <2>5, ComesTwins
<1>3. ASSUME NEW r \in Requests, WorkspacesStep(r) /\ Keeps
      PROVE  TwinsInv'
  BY <1>3, TeamTwins
<1>4. ASSUME NEW r \in Requests, AccountStep(r)
      PROVE  TwinsInv'
  <2>1. ASSUME Looks(r) PROVE TwinsInv'
    <3>1. Works(r)
      BY <1>4, AccountWorks
    <3>2. /\ Step(request[r]) \notin {"search", "find"}
          /\ UNCHANGED <<users, met>>
          /\ \A s \in Requests : local'[s].before = local[s].before
      BY <2>1, LooksKeep
    <3> QED  BY <3>1, <3>2, TwinsWork
  <2>2. CASE ~Looks(r)
    BY <1>4, <2>2, SearchTwins, FindTwins, SignUpTwins, SetPhoneTwins, EraseTwins
       DEF AccountStep, Looks
  <2> QED  BY <2>1, <2>2
<1>5. ASSUME NEW r \in Requests, FailAccount(r)
      PROVE  TwinsInv'
  <2>1. Works(r) /\ r \in InFlight
    BY <1>5, FailAccountWorks DEF Works
  <2>2. request'[r] = Idle(request[r].call)
    BY <1>5, <2>1 DEF FailAccount, Fail, Stop, CoreInv, TypeOK, WorkspacesTypeOK
  <2>3. Step(request'[r]) # "look"
    BY <2>2 DEF Idle, Step
  <2> QED  BY <1>5, <2>1, <2>3, TwinsWork DEF FailAccount, people
<1>6. ASSUME UNCHANGED <<request, users, met, local>>
      PROVE  TwinsInv'
  BY <1>6 DEF TwinsInv, NoTwins, BeforeInv, With, Exists, InFlight, Address, Person
<1>7. ASSUME NEW a \in Addresses, Expire(a)
      PROVE  TwinsInv'
  BY <1>6, <1>7 DEF Expire, wsVars
<1>8. CASE UNCHANGED vars
  BY <1>6, <1>8 DEF vars, wsVars, people, seen
<1> QED  BY <1>1, <1>2, <1>3, <1>4, <1>5, <1>7, <1>8 DEF Next

(* A sign-up by phone or with an OAuth2 account never makes a second user    *)
(* of an address whose user was there when the request came in, although     *)
(* the look-up and the commit are steps of their own that others come        *)
(* between: whoever was there has gone, or the look-up has found him.        *)
THEOREM NoTwinsCorrect == Spec => []NoTwins
<1>1. Init => CoreInv /\ TwinsInv
  BY InitCore, InitTwins
<1>2. (CoreInv /\ TwinsInv) /\ [Next]_vars => (CoreInv /\ TwinsInv)'
  BY NextCore, NextTwins
<1>3. CoreInv /\ TwinsInv => NoTwins
  BY DEF TwinsInv
<1> QED  BY <1>1, <1>2, <1>3, PTL DEF Spec

-----------------------------------------------------------------------------
(* The codes of an address.                                                  *)
LEMMA CodeTypes ==
    ASSUME CoreInv, NEW a \in Addresses
    PROVE  /\ stored[a] \in Nat /\ lapsed[a] \in Nat /\ lastCode[a] \in Nat
           /\ \A c \in mailbox[a] : c \in Nat
<1>1. /\ stored[a] \in Codes \cup {0} /\ lapsed[a] \in Codes \cup {0}
      /\ lastCode[a] \in Codes \cup {0} /\ mailbox[a] \subseteq Codes
  BY PeopleAre DEF PeopleOK
<1> QED  BY <1>1, CodesAreNat

(* A step of a handler that does not ask for a code of the address.         *)
LEMMA AskedSame ==
    ASSUME CoreInv, NEW r \in Requests, Works(r), NEW a, r \notin AskedFor(a)
    PROVE  /\ AskedFor(a)' = AskedFor(a) /\ r \notin AskedFor(a)'
           /\ \A s \in AskedFor(a) : Step(request'[s]) = Step(request[s])
<1>1. r \in InFlight /\ request'[r].call = request[r].call
  BY DEF Works, Idle
<1>2. r \notin AskedFor(a)'
  BY <1>1 DEF AskedFor, Address, Person
<1>3. ASSUME NEW s \in Requests \ {r}
      PROVE  (s \in AskedFor(a)' <=> s \in AskedFor(a)) /\ Step(request'[s]) = Step(request[s])
  BY DEF Works, OthersKept, Kept, AskedFor, InFlight, Address, Person, Step
<1>4. AskedFor(a) \subseteq Requests /\ AskedFor(a)' \subseteq Requests
  BY DEF AskedFor, InFlight
<1> QED  BY <1>2, <1>3, <1>4

LEMMA CodesAtSame ==
    ASSUME CoreInv, NEW r \in Requests, Works(r), NEW a \in Addresses, CodesAt(a),
           r \notin AskedFor(a),
           stored'[a] = stored[a], lapsed'[a] = lapsed[a], mailbox'[a] = mailbox[a],
           lastCode'[a] = lastCode[a], a \in muddled => a \in muddled',
           \A s \in Requests \ {r} : local'[s].code = local[s].code
    PROVE  CodesAt(a)'
<1>1. /\ AskedFor(a)' = AskedFor(a)
      /\ \A s \in AskedFor(a) : Step(request'[s]) = Step(request[s])
      /\ \A s \in AskedFor(a) : local'[s].code = local[s].code
  <2>1. \A s \in AskedFor(a) : s \in Requests \ {r}
    BY DEF AskedFor, InFlight
  <2>2. /\ AskedFor(a)' = AskedFor(a)
        /\ \A s \in AskedFor(a) : Step(request'[s]) = Step(request[s])
    BY AskedSame
  <2> QED  BY <2>1, <2>2
<1>2. \A c : Storing(a, c) => Storing(a, c)'
  BY <1>1 DEF Storing
<1> QED  BY <1>1, <1>2 DEF CodesAt

LEMMA CodesWork ==
    ASSUME CoreInv, CodesInv, NEW r \in Requests, Works(r), request[r].call.op # "ask",
           UNCHANGED <<stored, lapsed, mailbox, lastCode, muddled>>,
           \A s \in Requests \ {r} : local'[s].code = local[s].code
    PROVE  CodesInv'
<1>1. \A a \in Addresses : r \notin AskedFor(a) /\ CodesAt(a)
  BY DEF AskedFor, CodesInv
<1>2. \A a \in Addresses : CodesAt(a)'
  BY <1>1, CodesAtSame
<1> QED  BY <1>2 DEF CodesInv

(* A step of a handler that asks for a code goes on to the next.            *)
LEMMA AskGoes ==
    ASSUME CoreInv, NEW r \in Requests, Works(r), request[r].call.op = "ask",
           request'[r].todo # <<>>
    PROVE  /\ request'[r].call = request[r].call
           /\ Step(request[r]) = "lookUp" => Step(request'[r]) = "publish"
           /\ Step(request[r]) = "publish" => Step(request'[r]) = "store"
           /\ Step(request[r]) # "store"
<1>1. request'[r] # Idle(request[r].call) /\ r \in InFlight
  BY DEF Idle, Works
<1>2. /\ request'[r].call = request[r].call /\ WellFormed(request'[r])
      /\ <<Step(request[r]), Step(request'[r])>> \in Follows["ask"]
  BY <1>1 DEF Works
<1>3. Step(request'[r]) # "none"
  BY <1>2, Ahead DEF WellFormed, AllOps, AccountOps
<1> QED  BY <1>2, <1>3 DEF Follows

(* Who else asks for a code of the address.                                 *)
LEMMA OthersAsk ==
    ASSUME CoreInv, NEW r \in Requests, Works(r), NEW a
    PROVE  /\ \A s \in AskedFor(a)' : s # r => s \in AskedFor(a)
           /\ \A s \in AskedFor(a) : s # r => s \in AskedFor(a)'
           /\ \A s \in AskedFor(a) : s # r => Step(request'[s]) = Step(request[s])
           /\ r \in AskedFor(a)' => r \in AskedFor(a)
<1>1. r \in InFlight /\ request'[r].call = request[r].call
  BY DEF Works, Idle
<1>2. AskedFor(a) \subseteq Requests /\ AskedFor(a)' \subseteq Requests
  BY DEF AskedFor, InFlight
<1>3. r \in AskedFor(a)' => r \in AskedFor(a)
  BY <1>1 DEF AskedFor, Address, Person
<1>4. ASSUME NEW s \in Requests \ {r}
      PROVE  (s \in AskedFor(a)' <=> s \in AskedFor(a)) /\ Step(request'[s]) = Step(request[s])
  BY DEF Works, OthersKept, Kept, AskedFor, InFlight, Address, Person, Step
<1> QED  BY <1>2, <1>3, <1>4

LEMMA AskAt ==
    ASSUME CoreInv, NEW r \in Requests, NEW step \in {"lookUp", "publish", "store"},
           Doing(r, step)
    PROVE  /\ r \in InFlight /\ Step(request[r]) = step /\ request[r].call.op = "ask"
           /\ Address(r) \in Addresses /\ r \in AskedFor(Address(r))
           /\ \A b : b # Address(r) => r \notin AskedFor(b)
           /\ step # "lookUp" => /\ local[r].code \in Nat
                                 /\ local[r].code <= lastCode[Address(r)]
<1>1. r \in InFlight /\ Step(request[r]) = step /\ Address(r) \in Addresses
  BY AtStep, AtPerson
<1>2. request[r].call.op = "ask"
  <2>1. PICK n : <<step, n>> \in Follows[request[r].call.op] /\ request[r].call.op \in AllOps
    BY AtStep
  <2> QED  BY <2>1, Table
<1>3. step # "lookUp" => local[r].code \in Codes /\ local[r].code <= lastCode[Address(r)]
  BY <1>1, Flying DEF HasCode
<1> QED  BY <1>1, <1>2, <1>3, CodesAreNat DEF AskedFor

LEMMA LookUpCodes ==
    ASSUME CoreInv, CodesInv, NEW r \in Requests, LookUp(r)
    PROVE  CodesInv'
<1>1. PICK a : a = Address(r)
  OBVIOUS
<1>2. /\ r \in InFlight /\ Step(request[r]) = "lookUp" /\ request[r].call.op = "ask"
      /\ a \in Addresses /\ r \in AskedFor(a)
      /\ \A b : b # a => r \notin AskedFor(b)
  BY <1>1, AskAt DEF LookUp
<1>3. Works(r) /\ UNCHANGED <<stored, lapsed, mailbox, muddled>>
  BY LookUpWorks DEF LookUp, seen
<1>4. /\ lastCode'[a] = lastCode[a] + 1
      /\ \A b \in Addresses \ {a} : lastCode'[b] = lastCode[b]
  BY <1>1, <1>2, PeopleAre DEF PeopleOK, LookUp
<1>5. /\ local'[r].code = lastCode[a] + 1
      /\ \A s \in Requests \ {r} : local'[s].code = local[s].code
  <2>1. PICK l : l = [local[r] EXCEPT !.known = With(a) # {}, !.code = lastCode[a] + 1]
    OBVIOUS
  <2>2. l.code = lastCode[a] + 1
    BY <2>1, PeopleAre DEF PeopleOK, LocalType
  <2>3. local' = [local EXCEPT ![r] = l]
    BY <1>1, <2>1 DEF LookUp, Knows
  <2> QED  BY <2>2, <2>3, PeopleAre DEF PeopleOK
<1>6. \A b \in Addresses \ {a} : CodesAt(b)'
  BY <1>2, <1>3, <1>4, <1>5, CodesAtSame DEF CodesInv
<1>7. CodesAt(a)'
  <2>1. CodesAt(a)
    BY <1>2 DEF CodesInv
  <2>2. /\ stored[a] \in Nat /\ lapsed[a] \in Nat /\ lastCode[a] \in Nat
        /\ \A c \in mailbox[a] : c \in Nat
    BY <1>2, CodeTypes
  <2>3. /\ \A s \in AskedFor(a)' : s \in AskedFor(a)
        /\ \A s \in AskedFor(a) : s # r => s \in AskedFor(a)'
        /\ \A s \in AskedFor(a) : s # r => Step(request'[s]) = Step(request[s])
    BY <1>2, <1>3, OthersAsk
  <2>4. \A c : Storing(a, c) => Storing(a, c)'
    <3>1. ASSUME NEW c, Storing(a, c) PROVE Storing(a, c)'
      <4>1. PICK s \in AskedFor(a) : Step(request[s]) = "store" /\ c <= local[s].code
        BY <3>1 DEF Storing
      <4>2. s # r /\ s \in Requests
        BY <1>2, <4>1 DEF AskedFor, InFlight
      <4> QED  BY <1>5, <2>3, <4>1, <4>2 DEF Storing
    <3> QED  BY <3>1
  <2>5. /\ lapsed'[a] <= lastCode'[a] /\ stored'[a] <= lastCode'[a]
        /\ \A c \in mailbox'[a] : c <= lastCode'[a]
    BY <1>3, <1>4, <2>1, <2>2 DEF CodesAt
  <2>6. ASSUME a \notin muddled'
        PROVE  /\ \A q, s \in AskedFor(a)' : q = s
               /\ \A s \in AskedFor(a)' :
                     Step(request'[s]) # "lookUp" => local'[s].code = lastCode'[a]
               /\ stored'[a] # 0 => lapsed'[a] <= stored'[a]
               /\ \A c \in mailbox'[a] :
                     c <= stored'[a] \/ c <= lapsed'[a] \/ Storing(a, c)'
    <3>1. a \notin muddled /\ \A q, s \in AskedFor(a) : q = s
      BY <1>3, <2>1, <2>6 DEF CodesAt
    <3> QED  BY <1>2, <1>3, <1>4, <1>5, <2>1, <2>3, <2>4, <3>1 DEF CodesAt
  <2> QED  BY <2>5, <2>6 DEF CodesAt
<1> QED  BY <1>6, <1>7 DEF CodesInv

LEMMA PublishCodes ==
    ASSUME CoreInv, CodesInv, NEW r \in Requests, Publish(r)
    PROVE  CodesInv'
<1>1. PICK a : a = Address(r)
  OBVIOUS
<1>2. /\ r \in InFlight /\ Step(request[r]) = "publish" /\ request[r].call.op = "ask"
      /\ a \in Addresses /\ r \in AskedFor(a)
      /\ \A b : b # a => r \notin AskedFor(b)
      /\ local[r].code \in Nat /\ local[r].code <= lastCode[a]
  BY <1>1, AskAt DEF Publish
<1>3. Works(r) /\ UNCHANGED <<stored, lapsed, lastCode, local, muddled>>
  BY PublishWorks DEF Publish, seen
<1>4. /\ mailbox'[a] \subseteq mailbox[a] \cup {local[r].code}
      /\ \A b \in Addresses \ {a} : mailbox'[b] = mailbox[b]
  BY <1>1, <1>2, PeopleAre DEF PeopleOK, Publish
<1>5. \A b \in Addresses \ {a} : CodesAt(b)'
  BY <1>2, <1>3, <1>4, CodesAtSame DEF CodesInv
<1>6. CodesAt(a)'
  <2>1. CodesAt(a)
    BY <1>2 DEF CodesInv
  <2>2. /\ \A s \in AskedFor(a)' : s \in AskedFor(a)
        /\ \A s \in AskedFor(a) : s # r => s \in AskedFor(a)'
        /\ \A s \in AskedFor(a) : s # r => Step(request'[s]) = Step(request[s])
    BY <1>2, <1>3, OthersAsk
  <2>3. r \in AskedFor(a)' /\ Step(request'[r]) = "store"
    <3>1. request'[r] = After(Wrote(r))
      BY <1>2 DEF Publish, Advance, CoreInv, TypeOK, WorkspacesTypeOK, InFlight
    <3>2. request[r].todo \in Rests["ask"] /\ Head(request[r].todo) = "publish"
      BY <1>2, Flying DEF WellFormed, Publish, Doing
    <3>3. Tail(request[r].todo) = <<"store">>
      <4>1. Rests["ask"] = {<<"lookUp", "publish", "store">>, <<"publish", "store">>, <<"store">>}
        BY DEF Rests, AskSteps
      <4>2. /\ Head(<<"lookUp", "publish", "store">>) = "lookUp" /\ Head(<<"store">>) = "store"
            /\ Tail(<<"publish", "store">>) = <<"store">>
        OBVIOUS
      <4> QED  BY <3>2, <4>1, <4>2
    <3>4. PICK w : w = Wrote(r)
      OBVIOUS
    <3>5. w.todo = request[r].todo /\ w.call = request[r].call /\ w \in RequestType
      BY <1>2, <3>4, Flying DEF Wrote, RequestType
    <3>6. request'[r] = [w EXCEPT !.todo = Tail(@)]
      BY <3>1, <3>3, <3>4, <3>5 DEF After
    <3>7. request'[r].todo = <<"store">> /\ request'[r].call = request[r].call
      BY <3>3, <3>5, <3>6 DEF RequestType
    <3>8. request'[r].todo # <<>> /\ Head(request'[r].todo) = "store"
      BY <3>7
    <3>9. Address(r)' = a
      BY <1>1, <3>7 DEF Address, Person
    <3> QED  BY <1>2, <3>7, <3>8, <3>9 DEF AskedFor, InFlight, Step
  <2>4. \A c : Storing(a, c) => Storing(a, c)'
    <3>1. ASSUME NEW c, Storing(a, c) PROVE Storing(a, c)'
      <4>1. PICK s \in AskedFor(a) : Step(request[s]) = "store" /\ c <= local[s].code
        BY <3>1 DEF Storing
      <4>2. s # r
        BY <1>2, <4>1
      <4> QED  BY <1>3, <2>2, <4>1, <4>2 DEF Storing
    <3> QED  BY <3>1
  <2>5. Storing(a, local[r].code)'
    BY <1>2, <1>3, <2>3 DEF Storing
  <2>6. /\ lapsed'[a] <= lastCode'[a] /\ stored'[a] <= lastCode'[a]
        /\ \A c \in mailbox'[a] : c <= lastCode'[a]
    BY <1>2, <1>3, <1>4, <2>1 DEF CodesAt
  <2>7. ASSUME a \notin muddled'
        PROVE  /\ \A q, s \in AskedFor(a)' : q = s
               /\ \A s \in AskedFor(a)' :
                     Step(request'[s]) # "lookUp" => local'[s].code = lastCode'[a]
               /\ stored'[a] # 0 => lapsed'[a] <= stored'[a]
               /\ \A c \in mailbox'[a] :
                     c <= stored'[a] \/ c <= lapsed'[a] \/ Storing(a, c)'
    <3>1. a \notin muddled /\ \A q, s \in AskedFor(a) : q = s
      BY <1>3, <2>1, <2>7 DEF CodesAt
    <3>2. \A s \in AskedFor(a)' : s = r
      BY <1>2, <2>2, <3>1
    <3>3. local[r].code = lastCode[a]
      BY <1>2, <1>3, <2>1, <3>1 DEF CodesAt
    <3>4. stored'[a] # 0 => lapsed'[a] <= stored'[a]
      BY <1>3, <2>1, <3>1 DEF CodesAt
    <3>5. \A c \in mailbox'[a] : c <= stored'[a] \/ c <= lapsed'[a] \/ Storing(a, c)'
      BY <1>3, <1>4, <2>1, <2>4, <2>5, <3>1 DEF CodesAt
    <3> QED  BY <1>3, <3>2, <3>3, <3>4, <3>5
  <2> QED  BY <2>6, <2>7 DEF CodesAt
<1> QED  BY <1>5, <1>6 DEF CodesInv

LEMMA StoreCodes ==
    ASSUME CoreInv, CodesInv, NEW r \in Requests, StoreCode(r)
    PROVE  CodesInv'
<1>1. PICK a : a = Address(r)
  OBVIOUS
<1>2. /\ r \in InFlight /\ Step(request[r]) = "store" /\ request[r].call.op = "ask"
      /\ a \in Addresses /\ r \in AskedFor(a)
      /\ \A b : b # a => r \notin AskedFor(b)
      /\ local[r].code \in Nat /\ local[r].code <= lastCode[a]
  BY <1>1, AskAt DEF StoreCode
<1>3. Works(r) /\ UNCHANGED <<mailbox, lapsed, lastCode, local, muddled>>
  BY StoreCodeWorks DEF StoreCode, seen
<1>4. /\ stored'[a] = local[r].code
      /\ \A b \in Addresses \ {a} : stored'[b] = stored[b]
  BY <1>1, <1>2, PeopleAre DEF PeopleOK, StoreCode, CodeToStore
<1>5. \A b \in Addresses \ {a} : CodesAt(b)'
  BY <1>2, <1>3, <1>4, CodesAtSame DEF CodesInv
<1>6. CodesAt(a)'
  <2>1. CodesAt(a)
    BY <1>2 DEF CodesInv
  <2>2. \A s \in AskedFor(a)' : s \in AskedFor(a)
    BY <1>2, <1>3, OthersAsk
  <2>3. r \notin AskedFor(a)'
    BY <1>2, <1>3, AskGoes DEF AskedFor, InFlight
  <2>4. /\ lapsed'[a] <= lastCode'[a] /\ stored'[a] <= lastCode'[a]
        /\ \A c \in mailbox'[a] : c <= lastCode'[a]
    BY <1>2, <1>3, <1>4, <2>1 DEF CodesAt
  <2>5. ASSUME a \notin muddled'
        PROVE  /\ AskedFor(a)' = {}
               /\ lapsed'[a] <= stored'[a]
               /\ \A c \in mailbox'[a] : c <= stored'[a]
    <3>1. a \notin muddled /\ \A q, s \in AskedFor(a) : q = s
      BY <1>3, <2>1, <2>5 DEF CodesAt
    <3>2. AskedFor(a)' = {}
      BY <1>2, <2>2, <2>3, <3>1
    <3>3. local[r].code = lastCode[a]
      BY <1>2, <2>1, <3>1 DEF CodesAt
    <3> QED  BY <1>3, <1>4, <2>1, <3>2, <3>3 DEF CodesAt
  <2> QED  BY <2>4, <2>5 DEF CodesAt
<1> QED  BY <1>5, <1>6 DEF CodesInv

LEMMA NotAsking ==
    ASSUME CoreInv, NEW r \in InFlight,
           Step(request[r]) \notin {"lookUp", "publish", "store"}
    PROVE  request[r].call.op # "ask"
<1>1. PICK n : <<Step(request[r]), n>> \in Follows[request[r].call.op]
  BY Flying DEF Going
<1> QED  BY <1>1 DEF Follows

LEMMA OtherSteps ==
    ASSUME CoreInv, NEW r \in Requests, AccountStep(r),
           ~LookUp(r), ~Publish(r), ~StoreCode(r)
    PROVE  /\ Step(request[r]) \notin {"lookUp", "publish", "store"}
           /\ UNCHANGED <<stored, blank, lapsed, mailbox, lastCode, muddled>>
<1> USE DoingStep DEF seen, people, Keeps, Learns
<1>1. CASE MatchCode(r)  BY <1>1 DEF MatchCode
<1>2. CASE MarkVerified(r)  BY <1>2 DEF MarkVerified
<1>3. CASE SaveTemporary(r)  BY <1>3 DEF SaveTemporary
<1>4. CASE LoadTemporary(r)  BY <1>4 DEF LoadTemporary
<1>5. CASE Recheck(r)  BY <1>5 DEF Recheck
<1>6. CASE CheckStatus(r)  BY <1>6 DEF CheckStatus
<1>7. CASE SearchPhone(r)  BY <1>7 DEF SearchPhone
<1>8. CASE Evaluate(r)  BY <1>8 DEF Evaluate
<1>9. CASE FindAndSwitch(r)  BY <1>9 DEF FindAndSwitch
<1>10. CASE FindAccount(r)  BY <1>10 DEF FindAccount
<1>11. CASE SaveAccount(r)  BY <1>11 DEF SaveAccount
<1>12. CASE CommitSignUp(r)  BY <1>12 DEF CommitSignUp
<1>13. CASE SetPhone(r)  BY <1>13 DEF SetPhone
<1>14. CASE LoadUser(r)  BY <1>14 DEF LoadUser
<1>15. CASE EraseUser(r)  BY <1>15 DEF EraseUser
<1>16. CASE DropKeys(r)  BY <1>16 DEF DropKeys
<1> QED  BY <1>1, <1>2, <1>3, <1>4, <1>5, <1>6, <1>7, <1>8, <1>9, <1>10, <1>11, <1>12,
            <1>13, <1>14, <1>15, <1>16 DEF AccountStep

LEMMA AccountCodes ==
    ASSUME CoreInv, CodesInv, NEW r \in Requests, AccountStep(r)
    PROVE  CodesInv'
<1>1. CASE LookUp(r) \/ Publish(r) \/ StoreCode(r)
  BY <1>1, LookUpCodes, PublishCodes, StoreCodes
<1>2. CASE ~(LookUp(r) \/ Publish(r) \/ StoreCode(r))
  <2>1. Works(r) /\ r \in InFlight /\ \A s \in Requests \ {r} : local'[s].code = local[s].code
    BY AccountWorks DEF Works, CodeKept
  <2>2. /\ request[r].call.op # "ask"
        /\ UNCHANGED <<stored, lapsed, mailbox, lastCode, muddled>>
    BY <1>2, <2>1, OtherSteps, NotAsking
  <2> QED  BY <2>1, <2>2, CodesWork
<1> QED  BY <1>1, <1>2

LEMMA TeamCodes ==
    ASSUME CoreInv, CodesInv, NEW r \in Requests, WorkspacesStep(r), Keeps
    PROVE  CodesInv'
<1>1. Works(r) /\ r \in InFlight
  BY TeamWorks DEF Works
<1>2. request[r].call.op # "ask"
  BY <1>1, WorkspacesSteps, NotAsking DEF TeamSteps
<1> QED  BY <1>1, <1>2, CodesWork DEF Keeps, people, seen

(* A handler that breaks off before it has sent a code is as if it had not  *)
(* been; otherwise the address is muddled.                                  *)
LEMMA FailCodes ==
    ASSUME CoreInv, CodesInv, NEW r \in Requests, FailAccount(r)
    PROVE  CodesInv'
<1>1. Works(r) /\ r \in InFlight
  BY FailAccountWorks DEF Works
<1>2. UNCHANGED <<stored, lapsed, mailbox, lastCode, local>>
      /\ muddled' = muddled \cup
           (IF request[r].call.op = "ask" /\ request[r].wrote THEN {Address(r)} ELSE {})
  BY DEF FailAccount, people
<1>3. CASE request[r].call.op # "ask"
  BY <1>1, <1>2, <1>3, CodesWork
<1>4. CASE request[r].call.op = "ask"
  <2>1. PICK a : a = Address(r)
    OBVIOUS
  <2>2. r \in AskedFor(a) /\ (\A b : b # a => r \notin AskedFor(b)) /\ a \in Addresses
    BY <1>1, <1>4, <2>1, Flying DEF AskedFor, Spoken, Address
  <2>3. \A b \in Addresses \ {a} : CodesAt(b)'
    BY <1>1, <1>2, <2>2, CodesAtSame DEF CodesInv
  <2>4. CodesAt(a)'
    <3>1. CodesAt(a)
      BY <2>2 DEF CodesInv
    <3>2. request'[r] = Idle(request[r].call)
      BY <1>1 DEF FailAccount, Fail, Stop, CoreInv, TypeOK, WorkspacesTypeOK
    <3>3. r \notin AskedFor(a)'
      BY <3>2 DEF AskedFor, InFlight, Idle
    <3>4. /\ \A s \in AskedFor(a)' : s \in AskedFor(a) /\ Step(request'[s]) = Step(request[s])
          /\ \A s \in AskedFor(a) : s # r => s \in AskedFor(a)' /\ Step(request'[s]) = Step(request[s])
      BY <1>1, <3>3, OthersAsk
    <3>5. ASSUME a \notin muddled' PROVE a \notin muddled /\ Step(request[r]) # "store"
      BY <1>1, <1>2, <1>4, <2>1, <3>5, Flying DEF WellFormed
    <3>6. ASSUME a \notin muddled', NEW c, Storing(a, c)
          PROVE  Storing(a, c)'
      <4>1. PICK s \in AskedFor(a) : Step(request[s]) = "store" /\ c <= local[s].code
        BY <3>6 DEF Storing
      <4>2. s # r
        BY <3>5, <3>6, <4>1
      <4> QED  BY <1>2, <3>4, <4>1, <4>2 DEF Storing
    <3> QED  BY <1>2, <3>1, <3>4, <3>5, <3>6 DEF CodesAt
  <2> QED  BY <2>3, <2>4 DEF CodesInv
<1> QED  BY <1>3, <1>4

LEMMA ComesCodes ==
    ASSUME CoreInv, CodesInv, NEW r \in Requests, NEW call \in Calls, Comes(r, call),
           UNCHANGED <<stored, lapsed, mailbox, lastCode>>, muddled \subseteq muddled',
           \A s \in Requests \ {r} : local'[s] = local[s],
           call.op = "ask" /\ Asking(call.person.address) # {} =>
              call.person.address \in muddled'
    PROVE  CodesInv'
<1>1. /\ request'[r].call = call /\ Step(request'[r]) = Start[call.op] /\ r \notin InFlight
      /\ request'[r].todo # <<>>
      /\ \A s \in Requests \ {r} : request'[s] = request[s]
  BY DEF Comes
<1>2. ASSUME NEW a \in Addresses
      PROVE  CodesAt(a)'
  <2>1. CodesAt(a)
    BY DEF CodesInv
  <2>2. AskedFor(a) \subseteq Requests \ {r} /\ AskedFor(a)' \subseteq Requests
    BY <1>1 DEF AskedFor, InFlight
  <2>3. /\ \A s \in AskedFor(a) : s \in AskedFor(a)' /\ request'[s] = request[s]
                                  /\ local'[s] = local[s]
        /\ \A s \in AskedFor(a)' : s # r => s \in AskedFor(a)
    BY <1>1, <2>2 DEF AskedFor, InFlight, Address, Person
  <2>4. \A c : Storing(a, c) => Storing(a, c)'
    BY <2>3 DEF Storing
  <2>5. CASE r \notin AskedFor(a)'
    BY <2>1, <2>3, <2>4, <2>5 DEF CodesAt
  <2>6. CASE r \in AskedFor(a)'
    <3>1. call.op = "ask" /\ call.person.address = a
      BY <1>1, <2>6 DEF AskedFor, Address, Person
    <3>2. Step(request'[r]) = "lookUp"
      BY <1>1, <3>1 DEF Start
    <3>3. a \notin muddled' => AskedFor(a) = {}
      BY <3>1 DEF Asking, AskedFor
    <3>4. a \notin muddled' => \A q, s \in AskedFor(a)' : q = s
      BY <2>3, <3>3
    <3> QED  BY <2>1, <2>3, <2>4, <3>2, <3>3, <3>4 DEF CodesAt
  <2> QED  BY <2>5, <2>6
<1> QED  BY <1>2 DEF CodesInv

LEMMA ExpireCodes ==
    ASSUME CoreInv, CodesInv, NEW a \in Addresses, Expire(a)
    PROVE  CodesInv'
<1>1. /\ UNCHANGED <<mailbox, lastCode, muddled, request, local>>
      /\ stored' = [stored EXCEPT ![a] = 0] /\ lapsed' = [lapsed EXCEPT ![a] = stored[a]]
      /\ stored[a] # 0
  BY DEF Expire, wsVars
<1>2. \A b, c : Storing(b, c)' = Storing(b, c) /\ AskedFor(b)' = AskedFor(b)
  BY <1>1 DEF Storing, AskedFor, InFlight, Address, Person
<1>3. ASSUME NEW b \in Addresses
      PROVE  CodesAt(b)'
  <2>1. CodesAt(b)
    BY DEF CodesInv
  <2>2. /\ stored[b] \in Nat /\ lapsed[b] \in Nat /\ lastCode[b] \in Nat
        /\ \A c \in mailbox[b] : c \in Nat
    BY CodeTypes
  <2>3. CASE b = a
    <3>1. stored'[a] = 0 /\ lapsed'[a] = stored[a]
      BY <1>1, PeopleAre DEF PeopleOK
    <3> QED  BY <1>1, <1>2, <2>1, <2>2, <2>3, <3>1 DEF CodesAt
  <2>4. CASE b # a
    <3>1. stored'[b] = stored[b] /\ lapsed'[b] = lapsed[b]
      BY <1>1, <2>4, PeopleAre DEF PeopleOK
    <3> QED  BY <1>1, <1>2, <2>1, <3>1 DEF CodesAt
  <2> QED  BY <2>3, <2>4
<1> QED  BY <1>3 DEF CodesInv

LEMMA InitCodes == Init => CodesInv
<1> SUFFICES ASSUME Init PROVE CodesInv
  OBVIOUS
<1>1. InFlight = {} /\ CoreInv
  BY InitTeams, InitCore DEF Init
<1>2. PICK s \in Starts : /\ stored = s.sent /\ lastCode = s.sent
                          /\ mailbox = [a \in Addresses |-> {s.sent[a]} \ {0}]
  BY DEF Init
<1>3. ASSUME NEW a \in Addresses
      PROVE  CodesAt(a)
  <2>1. stored[a] \in Nat /\ lastCode[a] = stored[a] /\ lapsed[a] = 0
        /\ \A c \in mailbox[a] : c = stored[a]
    BY <1>1, <1>2, CodeTypes DEF Init
  <2>2. AskedFor(a) = {}
    BY <1>1 DEF AskedFor
  <2> QED  BY <2>1, <2>2 DEF CodesAt
<1> QED  BY <1>3 DEF CodesInv

LEMMA NextCodes == CoreInv /\ CodesInv /\ [Next]_vars => CodesInv'
<1> SUFFICES ASSUME CoreInv, CodesInv, [Next]_vars PROVE CodesInv'
  OBVIOUS
<1>1. ASSUME NEW r \in Requests, NEW call \in Calls, Receive(r, call) /\ Keeps
      PROVE  CodesInv'
  <2>1. Comes(r, call) /\ UNCHANGED <<stored, lapsed, mailbox, lastCode, local, muddled>>
    BY <1>1, ReceiveCore DEF Keeps, people, seen
  <2>2. call.op # "ask"
    BY <1>1 DEF Receive
  <2> QED  BY <2>1, <2>2, ComesCodes
<1>2. ASSUME NEW r \in Requests, NEW call \in Calls, ReceiveAccount(r, call)
      PROVE  CodesInv'
  <2>1. Comes(r, call) /\ UNCHANGED <<stored, lapsed, mailbox, lastCode>>
    BY <1>2, AccountCore DEF ReceiveAccount, people
  <2>2. \A s \in Requests \ {r} : local'[s] = local[s]
    BY <1>2, PeopleAre DEF ReceiveAccount, Knows, PeopleOK
  <2>3. muddled' = muddled \cup
          (IF call.op = "ask" /\ Asking(call.person.address) # {}
           THEN {call.person.address} ELSE {})
    BY <1>2 DEF ReceiveAccount
  <2> QED  BY <2>1, <2>2, <2>3, ComesCodes
<1>3. ASSUME NEW r \in Requests, WorkspacesStep(r) /\ Keeps
      PROVE  CodesInv'
  BY <1>3, TeamCodes
<1>4. ASSUME NEW r \in Requests, AccountStep(r)
      PROVE  CodesInv'
  BY <1>4, AccountCodes
<1>5. ASSUME NEW r \in Requests, FailAccount(r)
      PROVE  CodesInv'
  BY <1>5, FailCodes
<1>6. CASE UNCHANGED vars
  BY <1>6 DEF vars, wsVars, people, seen, CodesInv, CodesAt, Storing, AskedFor, InFlight,
              Address, Person
<1> QED  BY <1>1, <1>2, <1>3, <1>4, <1>5, <1>6, ExpireCodes DEF Next

(* The newest code a person has been sent is the one that counts, until it   *)
(* expires, is followed by one that is not sent to him, or was asked for     *)
(* twice at once, or its handler broke off between the message and the       *)
(* store: a code in the mailbox is never newer than the one that is stored   *)
(* or was the last to lapse.                                                 *)
THEOREM NewestCodeCorrect == Spec => []NewestCodeCounts
<1>1. Init => CoreInv /\ CodesInv
  BY InitCore, InitCodes
<1>2. (CoreInv /\ CodesInv) /\ [Next]_vars => (CoreInv /\ CodesInv)'
  BY NextCore, NextCodes
<1>3. CoreInv /\ CodesInv => NewestCodeCounts
  <2> SUFFICES ASSUME CoreInv, CodesInv, NEW a \in Addresses, a \notin muddled \cup Awaited,
                      NEW c \in mailbox[a]
               PROVE  c <= stored[a] \/ c <= lapsed[a]
    BY DEF NewestCodeCounts
  <2>1. AskedFor(a) = {}
    BY DEF Awaited, AskedFor
  <2>2. CodesAt(a)
    BY DEF CodesInv
  <2> QED  BY <2>1, <2>2 DEF CodesAt, Storing
<1> QED  BY <1>1, <1>2, <1>3, PTL DEF Spec

-----------------------------------------------------------------------------
(* Codes that have been sent.                                                *)
(* A step of a handler that sends nothing.                                   *)
LEMMA SentWork ==
    ASSUME CoreInv, SentInv, NEW r \in Requests, Works(r), Step(request[r]) # "publish",
           UNCHANGED mailbox,
           \A a \in Addresses : stored'[a] # 0 /\ a \notin blank' => stored'[a] \in mailbox[a],
           \A s \in Requests \ {r} : /\ local'[s].code = local[s].code
                                    /\ local'[s].known = local[s].known
    PROVE  SentInv'
<1>1. ASSUME NEW s \in InFlight', Step(request'[s]) = "store", ~ Blanks(s)'
      PROVE  (local[s].code \in mailbox[Address(s)])'
  <2>1. CASE s = r
    <3>1. request'[r] # Idle(request[r].call) /\ r \in InFlight
      BY <1>1, <2>1 DEF Idle, InFlight, Works
    <3>2. <<Step(request[r]), "store">> \in Follows[request[r].call.op]
      BY <1>1, <2>1, <3>1 DEF Works
    <3>3. request[r].call.op \in AllOps
      BY <3>1, Flying
    <3> QED  BY <3>2, <3>3, AnyTable
  <2>2. CASE s # r
    <3>1. s \in Requests \ {r}
      BY <2>2 DEF InFlight
    <3>2. /\ s \in InFlight /\ Step(request[s]) = "store" /\ Address(s)' = Address(s)
      BY <1>1, <3>1 DEF Works, OthersKept, Kept, InFlight, Step, Address, Person
    <3>3. ~ Blanks(s)
      BY <1>1, <3>1, <3>2 DEF Blanks
    <3> QED  BY <3>1, <3>2, <3>3 DEF SentInv
  <2> QED  BY <2>1, <2>2
<1> QED  BY <1>1 DEF SentInv

LEMMA PublishSent ==
    ASSUME CoreInv, SentInv, NEW r \in Requests, Publish(r)
    PROVE  SentInv'
<1>1. PICK a : a = Address(r)
  OBVIOUS
<1>2. r \in InFlight /\ a \in Addresses /\ Works(r)
  BY <1>1, AskAt, PublishWorks DEF Publish
<1>3. UNCHANGED <<stored, blank, local>>
  BY DEF Publish, seen
<1>4. /\ \A b \in Addresses : mailbox[b] \subseteq mailbox'[b]
      /\ ~ Blanks(r) => local[r].code \in mailbox'[a]
  BY <1>1, <1>2, PeopleAre DEF PeopleOK, Publish
<1>5. \A b \in Addresses : stored'[b] # 0 /\ b \notin blank' => stored'[b] \in mailbox'[b]
  BY <1>3, <1>4 DEF SentInv
<1>6. ASSUME NEW s \in InFlight', Step(request'[s]) = "store", ~ Blanks(s)'
      PROVE  (local[s].code \in mailbox[Address(s)])'
  <2>1. CASE s = r
    <3>1. request'[r] # Idle(request[r].call)
      BY <1>6, <2>1 DEF Idle, InFlight
    <3>2. Address(r)' = a
      BY <1>1, <1>2, <3>1 DEF Works, Address, Person
    <3>3. ~ Blanks(r)
      BY <1>1, <1>3, <1>6, <2>1, <3>2 DEF Blanks
    <3> QED  BY <1>3, <1>4, <2>1, <3>2, <3>3
  <2>2. CASE s # r
    <3>1. s \in Requests \ {r}
      BY <2>2 DEF InFlight
    <3>2. s \in InFlight /\ Step(request[s]) = "store" /\ Address(s)' = Address(s)
      BY <1>2, <1>6, <3>1 DEF Works, OthersKept, Kept, InFlight, Step, Address, Person
    <3>3. ~ Blanks(s)
      BY <1>3, <1>6, <3>2 DEF Blanks
    <3>4. Address(s) \in Addresses
      <4>1. Doing(s, "store")
        BY <3>2, Flying DEF Doing
      <4> QED  BY <3>1, <4>1, AskAt
    <3> QED  BY <1>3, <1>4, <3>2, <3>3, <3>4 DEF SentInv
  <2> QED  BY <2>1, <2>2
<1> QED  BY <1>5, <1>6 DEF SentInv

LEMMA StoreSent ==
    ASSUME CoreInv, SentInv, NEW r \in Requests, StoreCode(r)
    PROVE  SentInv'
<1>1. PICK a : a = Address(r)
  OBVIOUS
<1>2. r \in InFlight /\ Step(request[r]) = "store" /\ a \in Addresses /\ Works(r)
  BY <1>1, AskAt, StoreCodeWorks DEF StoreCode
<1>3. /\ UNCHANGED <<mailbox, local>>
      /\ stored' = [stored EXCEPT ![a] = local[r].code]
      /\ blank' = IF Blanks(r) THEN blank \cup {a} ELSE blank \ {a}
  BY <1>1 DEF StoreCode, CodeToStore, seen
<1>4. ASSUME NEW b \in Addresses, stored'[b] # 0, b \notin blank'
      PROVE  stored'[b] \in mailbox[b]
  <2>1. CASE b = a
    BY <1>1, <1>2, <1>3, <1>4, <2>1, PeopleAre DEF PeopleOK, SentInv
  <2>2. CASE b # a
    BY <1>3, <1>4, <2>2, PeopleAre DEF PeopleOK, SentInv
  <2> QED  BY <2>1, <2>2
<1> QED  BY <1>2, <1>3, <1>4, SentWork

LEMMA LookUpSent ==
    ASSUME CoreInv, SentInv, NEW r \in Requests, LookUp(r)
    PROVE  SentInv'
<1>1. Works(r) /\ Step(request[r]) = "lookUp" /\ UNCHANGED <<stored, blank, mailbox>>
  BY LookUpWorks, AskAt DEF LookUp
<1>2. \A s \in Requests \ {r} : local'[s] = local[s]
  BY PeopleAre DEF PeopleOK, LookUp, Knows
<1> QED  BY <1>1, <1>2, SentWork DEF SentInv

(* What another handler has found of its address stays.                      *)
LEMMA OtherSent ==
    ASSUME CoreInv, SentInv, NEW r \in Requests, AccountStep(r),
           ~ LookUp(r), ~ Publish(r), ~ StoreCode(r)
    PROVE  SentInv'
<1>1. Works(r) /\ \A s \in Requests \ {r} : local'[s].code = local[s].code
  BY AccountWorks DEF CodeKept
<1>2. Step(request[r]) # "publish" /\ UNCHANGED <<stored, blank, mailbox>>
  BY OtherSteps
<1>3. \A s \in Requests \ {r} : local'[s].known = local[s].known
  <2>1. CASE UNCHANGED local
    BY <2>1
  <2>2. CASE \E l : Knows(r, l)
    BY <2>2, PeopleAre DEF PeopleOK, Knows
  <2>3. CASE SetPhone(r) /\ Exists(Person(r).user)
    BY <2>3, PeopleAre DEF PeopleOK, SetPhone, LocalType
  <2>4. UNCHANGED local \/ (\E l : Knows(r, l)) \/ (SetPhone(r) /\ Exists(Person(r).user))
    <3>1. CASE Evaluate(r)
      BY <3>1 DEF Evaluate, Learns
    <3>2. CASE FindAndSwitch(r)
      BY <3>2 DEF FindAndSwitch, Learns
    <3>3. CASE SetPhone(r)
      BY <3>3 DEF SetPhone
    <3>4. CASE LoadTemporary(r) \/ Recheck(r) \/ CheckStatus(r) \/ SearchPhone(r)
               \/ FindAccount(r) \/ LoadUser(r) \/ DropKeys(r)
      BY <3>4 DEF Keeps, LoadTemporary, Recheck, CheckStatus, SearchPhone, FindAccount,
                  LoadUser, DropKeys
    <3>5. CASE MatchCode(r) \/ MarkVerified(r) \/ SaveTemporary(r) \/ SaveAccount(r)
               \/ CommitSignUp(r) \/ EraseUser(r)
      BY <3>5 DEF MatchCode, MarkVerified, SaveTemporary, SaveAccount, CommitSignUp,
                  EraseUser
    <3> QED  BY <3>1, <3>2, <3>3, <3>4, <3>5 DEF AccountStep
  <2> QED  BY <2>1, <2>2, <2>3, <2>4
<1> QED  BY <1>1, <1>2, <1>3, SentWork DEF SentInv

LEMMA ComesSent ==
    ASSUME CoreInv, SentInv, NEW r \in Requests, NEW call \in Calls, Comes(r, call),
           UNCHANGED <<stored, blank, mailbox>>,
           \A s \in Requests \ {r} : local'[s] = local[s]
    PROVE  SentInv'
<1>1. ASSUME NEW s \in InFlight', Step(request'[s]) = "store", ~ Blanks(s)'
      PROVE  (local[s].code \in mailbox[Address(s)])'
  <2>1. s # r
    <3>1. Step(request'[r]) = Start[call.op] /\ call.op \in AllOps
      BY CallFacts DEF Comes
    <3> QED  BY <1>1, <3>1 DEF Start, AllOps, Ops, AccountOps
  <2>2. s \in Requests \ {r}
    BY <2>1 DEF InFlight
  <2>3. request'[s] = request[s] /\ local'[s] = local[s]
    BY <2>2 DEF Comes
  <2>4. s \in InFlight /\ Step(request[s]) = "store" /\ ~ Blanks(s) /\ Address(s)' = Address(s)
    BY <1>1, <2>2, <2>3 DEF InFlight, Step, Blanks, Address, Person
  <2> QED  BY <2>3, <2>4 DEF SentInv
<1> QED  BY <1>1 DEF SentInv

LEMMA InitSent == Init => SentInv
<1> SUFFICES ASSUME Init PROVE SentInv
  OBVIOUS
<1>1. InFlight = {}
  BY InitTeams DEF Init
<1>2. PICK s \in Starts : /\ stored = s.sent
                          /\ mailbox = [a \in Addresses |-> {s.sent[a]} \ {0}]
  BY DEF Init
<1> QED  BY <1>1, <1>2 DEF SentInv

LEMMA NextSent == CoreInv /\ SentInv /\ [Next]_vars => SentInv'
<1> SUFFICES ASSUME CoreInv, SentInv, [Next]_vars PROVE SentInv'
  OBVIOUS
<1>1. ASSUME NEW r \in Requests, NEW call \in Calls, Receive(r, call) /\ Keeps
      PROVE  SentInv'
  BY <1>1, ReceiveCore, ComesSent DEF Keeps, people
<1>2. ASSUME NEW r \in Requests, NEW call \in Calls, ReceiveAccount(r, call)
      PROVE  SentInv'
  <2>1. Comes(r, call) /\ UNCHANGED <<stored, blank, mailbox>>
    BY <1>2, AccountCore DEF ReceiveAccount, people
  <2>2. \A s \in Requests \ {r} : local'[s] = local[s]
    BY <1>2, PeopleAre DEF ReceiveAccount, Knows, PeopleOK
  <2> QED  BY <2>1, <2>2, ComesSent
<1>3. ASSUME NEW r \in Requests, WorkspacesStep(r) /\ Keeps
      PROVE  SentInv'
  <2>1. Works(r) /\ Step(request[r]) # "publish"
    BY <1>3, TeamWorks, WorkspacesSteps DEF TeamSteps
  <2> QED  BY <1>3, <2>1, SentWork DEF Keeps, people, SentInv
<1>4. ASSUME NEW r \in Requests, AccountStep(r)
      PROVE  SentInv'
  BY <1>4, LookUpSent, PublishSent, StoreSent, OtherSent
<1>5. ASSUME NEW r \in Requests, FailAccount(r)
      PROVE  SentInv'
  <2>1. Works(r) /\ r \in InFlight /\ UNCHANGED <<stored, blank, mailbox, local>>
    BY <1>5, FailAccountWorks DEF Works, FailAccount, people
  <2>2. request'[r] = Idle(request[r].call)
    BY <1>5, <2>1 DEF FailAccount, Fail, Stop, CoreInv, TypeOK, WorkspacesTypeOK
  <2>3. ASSUME NEW s \in InFlight', Step(request'[s]) = "store", ~ Blanks(s)'
        PROVE  (local[s].code \in mailbox[Address(s)])'
    <3>1. s \in Requests \ {r}
      BY <2>2 DEF InFlight, Idle
    <3>2. /\ s \in InFlight /\ Step(request[s]) = "store"
          /\ Address(s)' = Address(s) /\ ~ Blanks(s)
      BY <2>1, <2>3, <3>1 DEF Works, OthersKept, Kept, InFlight, Step, Blanks, Address, Person
    <3> QED  BY <2>1, <3>2 DEF SentInv
  <2> QED  BY <2>1, <2>3 DEF SentInv
<1>6. ASSUME NEW a \in Addresses, Expire(a)
      PROVE  SentInv'
  <2>1. /\ UNCHANGED <<request, local, mailbox>>
        /\ stored' = [stored EXCEPT ![a] = 0] /\ blank' = blank \ {a}
    BY <1>6 DEF Expire, wsVars
  <2>2. \A b \in Addresses : stored'[b] # 0 /\ b \notin blank' =>
           stored'[b] = stored[b] /\ b \notin blank
    BY <2>1, PeopleAre DEF PeopleOK
  <2>3. \A s \in InFlight' : Step(request'[s]) = "store" /\ ~ Blanks(s)' =>
           (local[s].code \in mailbox[Address(s)])'
    BY <2>1 DEF SentInv, InFlight, Step, Blanks, Address, Person
  <2> QED  BY <2>1, <2>2, <2>3 DEF SentInv
<1>7. CASE UNCHANGED vars
  BY <1>7 DEF vars, wsVars, people, SentInv, InFlight, Step, Blanks, Address, Person
<1> QED  BY <1>1, <1>2, <1>3, <1>4, <1>5, <1>6, <1>7 DEF Next

(* Whoever signs up by e-mail or by phone, and whoever sets a phone, has     *)
(* once returned a code that was sent to the address while it was stored,    *)
(* however sign-ups, confirmations and deletions overlap; only of a phone    *)
(* may he have returned, instead, the empty code that is stored for it when  *)
(* it had a user as the code was asked for.  An address is marked as         *)
(* verified only after that.                                                 *)
THEOREM AddressesCorrect == Spec => []AddressesProved
<1>1. Init => CoreInv /\ SentInv /\ ProofsInv
  BY InitCore, InitSent, InitProofs
<1>2. (CoreInv /\ SentInv /\ ProofsInv) /\ [Next]_vars => (CoreInv /\ SentInv /\ ProofsInv)'
  BY NextCore, NextSent, NextProofs
<1>3. CoreInv /\ SentInv /\ ProofsInv => AddressesProved
  BY DEF ProofsInv
<1> QED  BY <1>1, <1>2, <1>3, PTL DEF Spec

=============================================================================
