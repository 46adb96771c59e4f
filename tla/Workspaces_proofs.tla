------------------------- MODULE Workspaces_proofs -------------------------
(***************************************************************************)
(* What Workspaces promises of teams and of the names of their workspaces,   *)
(* proved of the specification of Accounts, in which everything that makes   *)
(* and changes a team is at work.                                            *)
(***************************************************************************)
EXTENDS Accounts_proofs, FiniteSetTheorems

-----------------------------------------------------------------------------
(* Numbers of teams and of their settings.                                   *)
NewTeam(q) ==
    q.call.op \in Making /\
    Step(q) \in {"setting", "check", "flag", "charge", "keys", "commit", "commitUser"}
NewRow(q) ==
    q.call.op \in Making /\
    Step(q) \in {"check", "flag", "charge", "keys", "commit", "commitUser"}
OldTeam(q) == q.call.op \in {"rename", "close", "leave"} \/ Step(q) = "invite"
Closing(q) == q.call.op = "close" /\ Step(q) # "release"

(* The team and the settings that are being made are nobody's yet, and those *)
(* that a handler was given or has made are there.                           *)
TeamInv(r) ==
    LET q == request[r] IN
    /\ q.team # NoTeam => NewTeam(q) \/ OldTeam(q)
    /\ NewTeam(q) => teams[q.team] = "unused" /\ q.team <= lastTeam
    /\ NewRow(q) => settings[q.row] = Unused /\ q.row <= lastSetting
    /\ OldTeam(q) => teams[q.team] # "unused"
    /\ Closing(q) => settings[q.team] # Unused

CountersInv ==
    /\ \A t \in TeamIds : teams[t] # "unused" => t <= lastTeam
    /\ \A s \in TeamIds : settings[s] # Unused => s <= lastSetting
    /\ \A s \in TeamIds : IsRow(s) => teams[settings[s].team] # "unused"
    /\ \A s1, s2 \in TeamIds :
          IsRow(s1) /\ IsRow(s2) /\ settings[s1].team = settings[s2].team => s1 = s2
    /\ \A u \in UserIds : Exists(u) => teams[users[u].team] # "unused"

(* No two handlers make one team or one row, or are past the lock of one row. *)
Apart(q, r) ==
    /\ NewTeam(q) /\ NewTeam(r) => q.team # r.team
    /\ NewRow(q) /\ NewRow(r) => q.row # r.row
    /\ Closing(q) /\ Closing(r) => q.team # r.team
ApartInv == \A q, r \in InFlight : q # r => Apart(request[q], request[r])

NumbersInv ==
    CountersInv /\ ApartInv /\ \A r \in InFlight : TeamInv(r)

(* How a handler that goes on comes to be at its next step.                  *)
LEMMA Transitions ==
    ASSUME CoreInv, NEW r, Works(r), request'[r].todo # <<>>
    PROVE  /\ NewTeam(request'[r]) => NewTeam(request[r]) \/ Step(request[r]) = "team"
           /\ NewRow(request'[r]) => NewRow(request[r]) \/ Step(request[r]) = "setting"
           /\ Closing(request'[r]) => Closing(request[r]) \/ Step(request[r]) = "release"
           /\ OldTeam(request'[r]) => OldTeam(request[r]) \/ Step(request[r]) = "commit"
           /\ NewTeam(request[r]) /\ Step(request[r]) # "commit" => NewTeam(request'[r])
           /\ OldTeam(request[r]) => OldTeam(request'[r])
           /\ request'[r].call = request[r].call
<1> DEFINE o == request[r]
           p == request'[r]
<1>1. /\ p.call = o.call /\ <<Step(o), Step(p)>> \in Follows[o.call.op]
  BY IdleType, Flying DEF Works
<1>2. o.call.op \in AllOps
  BY Flying DEF Works
<1> HIDE DEF o, p
<1>3. PICK op, s, n : op = o.call.op /\ s = Step(o) /\ n = Step(p)
  OBVIOUS
<1>4. op \in AllOps /\ <<s, n>> \in Follows[op]
  BY <1>1, <1>2, <1>3
<1>5. /\ n = "setting" => s = "team"
      /\ op \in Making /\ n \in {"check", "flag", "charge", "keys", "commit", "commitUser"} =>
            s \in {"setting", "check", "flag", "charge", "keys", "commit"}
      /\ s = "commit" => n = "invite"
      /\ n = "invite" => s = "commit"
      /\ op \in Making /\ s \in {"setting", "check", "flag", "charge", "keys"} =>
            n \in {"check", "flag", "charge", "keys", "commit", "commitUser"}
      /\ s # "commitUser" \/ n = "none"
      /\ s # "invite" \/ n = "none"
      /\ n # "release"
  <2>1. CASE op = "newTeam"  BY <1>4, <2>1 DEF Follows
  <2>2. CASE op \in {"rename", "close", "leave"}  BY <1>4, <2>2 DEF Follows, Making
  <2>3. CASE op = "ask"  BY <1>4, <2>3 DEF Follows
  <2>4. CASE op = "confirm"  BY <1>4, <2>4 DEF Follows
  <2>5. CASE op = "temporary"  BY <1>4, <2>5 DEF Follows
  <2>6. CASE op = "emailSignUp"  BY <1>4, <2>6 DEF Follows, SignUpFollows
  <2>7. CASE op = "phoneSignUp"  BY <1>4, <2>7 DEF Follows, SignUpFollows
  <2>8. CASE op \in {"oauth", "integrate"}  BY <1>4, <2>8 DEF Follows, OAuthFollows, SignUpFollows
  <2>9. CASE op = "setPhone"  BY <1>4, <2>9 DEF Follows
  <2> QED  BY <1>4, <2>1, <2>2, <2>3, <2>4, <2>5, <2>6, <2>7, <2>8, <2>9
           DEF AllOps, Ops, AccountOps
<1>6. n # "none"
  <2>1. request'[r].todo # <<>> /\ WellFormed(request'[r])
    BY IdleType, Flying DEF Works
  <2> QED  BY <2>1, <1>1, <1>2, <1>3, Ahead DEF WellFormed, p
<1>7. /\ s = "invite" => op = "newTeam"
      /\ s \in {"commit", "team", "setting"} => op \in Making
      /\ s = "setting" => n = "check"
  BY <1>4, Table DEF SigningUp, Making
<1>8. {"rename", "close", "leave"} \cap Making = {}
  BY DEF Making
<1>9. /\ NewTeam(p) => NewTeam(o) \/ s = "team"
      /\ NewRow(p) => NewRow(o) \/ s = "setting"
      /\ Closing(p) => Closing(o) \/ s = "release"
      /\ OldTeam(p) => OldTeam(o) \/ s = "commit"
      /\ NewTeam(o) /\ s # "commit" => NewTeam(p)
      /\ OldTeam(o) => OldTeam(p)
  BY <1>1, <1>3, <1>5, <1>6, <1>7, <1>8 DEF NewTeam, NewRow, Closing, OldTeam
<1> QED  BY <1>1, <1>3, <1>9 DEF o, p

(* What a handler is about does not change with the steps of another.        *)
LEMMA OthersStand ==
    ASSUME CoreInv, NEW r, OthersKept(r), NEW s \in InFlight', s # r
    PROVE  /\ s \in InFlight /\ Kept(s) /\ Step(request'[s]) = Step(request[s])
           /\ NewTeam(request'[s]) = NewTeam(request[s])
           /\ NewRow(request'[s]) = NewRow(request[s])
           /\ OldTeam(request'[s]) = OldTeam(request[s])
           /\ Closing(request'[s]) = Closing(request[s])
<1>1. s \in Requests /\ Kept(s) /\ request'[s].todo # <<>>
  BY DEF InFlight, OthersKept
<1>2. s \in InFlight /\ Step(request'[s]) = Step(request[s])
  BY <1>1 DEF InFlight, Kept, Step
<1> QED  BY <1>1, <1>2 DEF Kept, NewTeam, NewRow, OldTeam, Closing

(* A step that makes neither a team nor settings.                            *)
TablesStand ==
    /\ UNCHANGED <<lastTeam, lastSetting>>
    /\ \A t \in TeamIds : teams'[t] = "unused" <=> teams[t] = "unused"
    /\ \A s \in TeamIds : settings'[s] = Unused <=> settings[s] = Unused
    /\ \A s \in TeamIds : IsRow(s)' => IsRow(s) /\ settings'[s].team = settings[s].team
PeopleStand ==
    \A u \in UserIds : Exists(u)' => Exists(u) /\ users'[u].team = users[u].team
SameTeam(r) ==
    request'[r].todo # <<>> =>
        request'[r].team = request[r].team /\ request'[r].row = request[r].row

LEMMA CountersStand ==
    ASSUME CoreInv, CountersInv, TablesStand, PeopleStand
    PROVE  CountersInv'
<1>1. /\ \A t \in TeamIds : teams'[t] # "unused" => t <= lastTeam'
      /\ \A s \in TeamIds : settings'[s] # Unused => s <= lastSetting'
  BY DEF CountersInv, TablesStand
<1>2. \A s \in TeamIds : IsRow(s) => settings[s].team \in TeamIds
  BY TablesAre DEF Tables, IsRow, Rows
<1>3. \A s \in TeamIds : IsRow(s)' => teams'[settings'[s].team] # "unused"
  BY <1>2 DEF CountersInv, TablesStand
<1>4. \A s1, s2 \in TeamIds :
          IsRow(s1)' /\ IsRow(s2)' /\ settings'[s1].team = settings'[s2].team => s1 = s2
  BY DEF CountersInv, TablesStand
<1>5. \A u \in UserIds : Exists(u) => users[u].team \in TeamIds
  BY PeopleAre DEF PeopleOK, Exists, UserType
<1>6. \A u \in UserIds : Exists(u)' => teams'[users'[u].team] # "unused"
  BY <1>5 DEF CountersInv, TablesStand, PeopleStand
<1> QED  BY <1>1, <1>3, <1>4, <1>6 DEF CountersInv

LEMMA TeamsOf ==
    ASSUME CoreInv, NEW r \in InFlight
    PROVE  /\ NewTeam(request[r]) \/ OldTeam(request[r]) => request[r].team \in TeamIds
           /\ NewRow(request[r]) => request[r].row \in TeamIds
           /\ Closing(request[r]) => request[r].team \in TeamIds
BY Flying DEF WellFormed, HasTeam, HasRow, NewTeam, OldTeam, NewRow, Closing

LEMMA NumbersStand ==
    ASSUME CoreInv, NumbersInv, NEW r, Works(r), TablesStand, PeopleStand, SameTeam(r),
           Step(request[r]) \notin {"team", "setting", "commit"},
           Step(request[r]) = "release" /\ request'[r].todo # <<>> =>
              /\ settings[request[r].team] # Unused
              /\ \A s \in InFlight : s # r /\ Closing(request[s]) =>
                     request[s].team # request[r].team
    PROVE  NumbersInv'
<1>1. CountersInv'
  BY CountersStand DEF NumbersInv
<1>2. r \in InFlight /\ OthersKept(r)
  BY DEF Works
<1>3. ASSUME NEW s \in InFlight'
      PROVE  /\ s \in InFlight
             /\ request'[s].team = request[s].team /\ request'[s].row = request[s].row
             /\ NewTeam(request'[s]) => NewTeam(request[s])
             /\ NewRow(request'[s]) => NewRow(request[s])
             /\ Closing(request'[s]) =>
                   \/ Closing(request[s])
                   \/ s = r /\ Step(request[r]) = "release"
             /\ OldTeam(request'[s]) => OldTeam(request[s])
             /\ NewTeam(request[s]) \/ OldTeam(request[s]) =>
                   NewTeam(request'[s]) \/ OldTeam(request'[s])
  <2>1. CASE s = r
    <3>1. request'[r].todo # <<>>
      BY <2>1 DEF InFlight
    <3> QED  BY <1>2, <2>1, <3>1, Transitions DEF SameTeam
  <2>2. CASE s # r
    BY <1>2, <2>2, OthersStand DEF Kept
  <2> QED  BY <2>1, <2>2
<1>4. ASSUME NEW s \in InFlight'
      PROVE  TeamInv(s)'
  <2>1. TeamInv(s) /\ s \in InFlight
    BY <1>3 DEF NumbersInv
  <2>2. /\ NewTeam(request[s]) \/ OldTeam(request[s]) => request[s].team \in TeamIds
        /\ NewRow(request[s]) => request[s].row \in TeamIds
        /\ Closing(request[s]) => request[s].team \in TeamIds
    BY <2>1, TeamsOf
  <2>3. request'[s].team # NoTeam => NewTeam(request'[s]) \/ OldTeam(request'[s])
    BY <1>3, <2>1 DEF TeamInv
  <2>4. NewTeam(request'[s]) =>
            teams'[request'[s].team] = "unused" /\ request'[s].team <= lastTeam'
    BY <1>3, <2>1, <2>2 DEF TeamInv, TablesStand
  <2>5. NewRow(request'[s]) =>
            settings'[request'[s].row] = Unused /\ request'[s].row <= lastSetting'
    BY <1>3, <2>1, <2>2 DEF TeamInv, TablesStand
  <2>6. OldTeam(request'[s]) => teams'[request'[s].team] # "unused"
    BY <1>3, <2>1, <2>2 DEF TeamInv, TablesStand
  <2>7. Closing(request'[s]) => settings'[request'[s].team] # Unused
    <3>1. CASE Closing(request[s])
      BY <1>3, <2>1, <2>2, <3>1 DEF TeamInv, TablesStand
    <3>2. CASE s = r /\ Step(request[r]) = "release" /\ Closing(request'[s])
      <4>1. request'[r].todo # <<>>
        BY <3>2 DEF InFlight
      <4>2. OldTeam(request[r])
        BY <1>2, <3>2, <4>1, Transitions DEF Closing, OldTeam
      <4> QED  BY <1>2, <1>3, <2>2, <3>2, <4>1, <4>2 DEF TablesStand
    <3> QED  BY <1>3, <3>1, <3>2
  <2> HIDE DEF TablesStand
  <2> QED  BY <2>3, <2>4, <2>5, <2>6, <2>7 DEF TeamInv
<1>5. ASSUME NEW q \in InFlight', NEW s \in InFlight', q # s
      PROVE  Apart(request'[q], request'[s])
  <2>1. Apart(request[q], request[s]) /\ q \in InFlight /\ s \in InFlight
    BY <1>3, <1>5 DEF NumbersInv, ApartInv
  <2>2. Closing(request'[q]) /\ Closing(request'[s]) => request[q].team # request[s].team
    <3>1. CASE q = r /\ Step(request[r]) = "release" /\ Closing(request'[q])
      <4>1. request'[r].todo # <<>>
        BY <3>1 DEF InFlight
      <4>2. Closing(request'[s]) => Closing(request[s])
        BY <1>3, <1>5, <3>1
      <4> QED  BY <1>5, <2>1, <3>1, <4>1, <4>2
    <3>2. CASE s = r /\ Step(request[r]) = "release" /\ Closing(request'[s])
      <4>1. request'[r].todo # <<>>
        BY <3>2 DEF InFlight
      <4>2. Closing(request'[q]) => Closing(request[q])
        BY <1>3, <1>5, <3>2
      <4> QED  BY <1>5, <2>1, <3>2, <4>1, <4>2
    <3> QED  BY <1>3, <2>1, <3>1, <3>2 DEF Apart
  <2> QED  BY <1>3, <2>1, <2>2 DEF Apart
<1> QED  BY <1>1, <1>4, <1>5 DEF NumbersInv, ApartInv

-----------------------------------------------------------------------------
(* What becomes of the local state of a handler.                             *)
LEMMA GoesOn ==
    ASSUME NEW r, NEW q \in RequestType, q.todo = request[r].todo, request'[r] = After(q),
           request'[r].todo # <<>>
    PROVE  /\ request'[r].team = q.team /\ request'[r].row = q.row
           /\ request'[r].name = q.name /\ request'[r].old = q.old
           /\ request'[r].wrote = q.wrote /\ request'[r].raced = q.raced
           /\ request'[r].call = q.call
<1>1. Idle(q.call).todo = <<>>
  BY DEF Idle
<1>2. request'[r] = [q EXCEPT !.todo = Tail(@)]
  BY <1>1 DEF After
<1> QED  BY <1>2 DEF RequestType

LEMMA Requesting == CoreInv => request \in [Requests -> RequestType]
BY DEF CoreInv, TypeOK, WorkspacesTypeOK

LEMMA Becomes ==
    ASSUME CoreInv, NEW r \in InFlight, NEW q, request' = [request EXCEPT ![r] = q]
    PROVE  request'[r] = q
BY Requesting DEF InFlight

LEMMA WroteIs ==
    ASSUME CoreInv, NEW r \in InFlight
    PROVE  /\ Wrote(r) \in RequestType /\ Wrote(r).todo = request[r].todo
           /\ Wrote(r).team = request[r].team /\ Wrote(r).row = request[r].row
           /\ Wrote(r).name = request[r].name /\ Wrote(r).old = request[r].old
           /\ Wrote(r).raced = request[r].raced /\ Wrote(r).wrote = TRUE
           /\ Wrote(r).call = request[r].call
<1>1. request[r] \in RequestType
  BY Flying
<1>2. PICK w : w = Wrote(r)
  OBVIOUS
<1>3. /\ w \in RequestType /\ w.todo = request[r].todo /\ w.team = request[r].team
      /\ w.row = request[r].row /\ w.name = request[r].name /\ w.old = request[r].old
      /\ w.raced = request[r].raced /\ w.wrote = TRUE /\ w.call = request[r].call
  BY <1>1, <1>2 DEF Wrote, RequestType
<1> QED  BY <1>2, <1>3

(* The handler goes on with all it has, or it is done.                       *)
Same(r) ==
    request'[r].todo # <<>> =>
        /\ request'[r].team = request[r].team /\ request'[r].row = request[r].row
        /\ request'[r].name = request[r].name /\ request'[r].old = request[r].old
        /\ request'[r].raced = request[r].raced

LEMMA AdvanceSame ==
    ASSUME CoreInv, NEW r \in InFlight, Advance(r, request[r]) \/ Advance(r, Wrote(r))
    PROVE  Same(r)
<1>1. PICK q : /\ request' = [request EXCEPT ![r] = After(q)]
               /\ q = request[r] \/ q = Wrote(r)
  BY DEF Advance
<1>2. /\ q \in RequestType /\ q.todo = request[r].todo /\ q.team = request[r].team
      /\ q.row = request[r].row /\ q.name = request[r].name /\ q.old = request[r].old
      /\ q.raced = request[r].raced
  BY <1>1, Flying, WroteIs
<1>3. request'[r] = After(q)
  BY <1>1, Becomes
<1> QED  BY <1>2, <1>3, GoesOn DEF Same

LEMMA StopSame ==
    ASSUME CoreInv, NEW r \in InFlight, Stop(r)
    PROVE  Same(r) /\ request'[r].todo = <<>>
<1>1. request' = [request EXCEPT ![r] = Idle(request[r].call)]
  BY DEF Stop
<1>2. request'[r] = Idle(request[r].call)
  BY <1>1, Becomes
<1>3. request'[r].todo = <<>>
  BY <1>2 DEF Idle
<1> QED  BY <1>3 DEF Same

LEMMA NothingStands ==
    ASSUME CoreInv, Nothing
    PROVE  TablesStand
BY DEF Nothing, TablesStand, IsRow

LEMMA KeepsStands == ASSUME Keeps PROVE PeopleStand
BY DEF Keeps, people, PeopleStand, Exists

LEMMA TeamInts == CoreInv =>
    TeamIds \subseteq Int /\ lastTeam \in Int /\ lastSetting \in Int
<1> SUFFICES ASSUME CoreInv
             PROVE  TeamIds \subseteq Int /\ lastTeam \in Int /\ lastSetting \in Int
  OBVIOUS
<1>1. Cardinality(TeamIds) \in Nat
  BY WorkspacesAssumption, FS_CardinalityType
<1>2. TeamIds \subseteq Int
  BY <1>1, WorkspacesAssumption
<1>3. lastTeam \in TeamIds \cup {0} /\ lastSetting \in TeamIds \cup {0}
  BY TablesAre DEF Tables
<1> QED  BY <1>2, <1>3

LEMMA TeamKept ==
    ASSUME CoreInv, NumbersInv, NEW r, OthersKept(r), NEW s \in InFlight', s # r,
           lastTeam <= lastTeam', lastSetting <= lastSetting',
           lastTeam' \in Int, lastSetting' \in Int,
           NewTeam(request[s]) => teams'[request[s].team] = "unused",
           NewRow(request[s]) => settings'[request[s].row] = Unused,
           \A t \in TeamIds : teams[t] # "unused" => teams'[t] # "unused",
           \A t \in TeamIds : settings[t] # Unused => settings'[t] # Unused
    PROVE  TeamInv(s)'
<1>1. /\ s \in InFlight /\ Kept(s)
      /\ NewTeam(request'[s]) = NewTeam(request[s])
      /\ NewRow(request'[s]) = NewRow(request[s])
      /\ OldTeam(request'[s]) = OldTeam(request[s])
      /\ Closing(request'[s]) = Closing(request[s])
  BY OthersStand
<1>2. TeamInv(s)
  BY <1>1 DEF NumbersInv
<1>3. /\ NewTeam(request[s]) \/ OldTeam(request[s]) => request[s].team \in TeamIds
      /\ NewRow(request[s]) => request[s].row \in TeamIds
      /\ Closing(request[s]) => request[s].team \in TeamIds
  BY <1>1, TeamsOf
<1>4. TeamIds \subseteq Int /\ lastTeam \in Int /\ lastSetting \in Int
  BY TeamInts
<1>5. /\ NewTeam(request[s]) => request[s].team <= lastTeam'
      /\ NewRow(request[s]) => request[s].row <= lastSetting'
  <2>1. ASSUME NewTeam(request[s]) PROVE request[s].team <= lastTeam'
    <3>1. request[s].team \in Int /\ request[s].team <= lastTeam
      BY <1>2, <1>3, <1>4, <2>1 DEF TeamInv
    <3> QED  BY <1>4, <3>1
  <2>2. ASSUME NewRow(request[s]) PROVE request[s].row <= lastSetting'
    <3>1. request[s].row \in Int /\ request[s].row <= lastSetting
      BY <1>2, <1>3, <1>4, <2>2 DEF TeamInv
    <3> QED  BY <1>4, <3>1
  <2> QED  BY <2>1, <2>2
<1>6. request'[s].team = request[s].team /\ request'[s].row = request[s].row
  BY <1>1 DEF Kept
<1> QED  BY <1>1, <1>2, <1>3, <1>5, <1>6 DEF TeamInv

LEMMA ApartKept ==
    ASSUME CoreInv, NumbersInv, NEW r, OthersKept(r),
           \A s \in InFlight' : s # r /\ r \in InFlight' => Apart(request'[r], request'[s])
    PROVE  ApartInv'
<1>1. ASSUME NEW q \in InFlight', NEW s \in InFlight', q # s
      PROVE  Apart(request'[q], request'[s])
  <2>1. CASE q = r
    BY <1>1, <2>1
  <2>2. CASE s = r
    BY <1>1, <2>2 DEF Apart
  <2>3. CASE q # r /\ s # r
    <3>1. Apart(request[q], request[s])
      BY <1>1, <2>3, OthersStand DEF NumbersInv, ApartInv
    <3>2. /\ NewTeam(request'[q]) = NewTeam(request[q]) /\ NewTeam(request'[s]) = NewTeam(request[s])
          /\ NewRow(request'[q]) = NewRow(request[q]) /\ NewRow(request'[s]) = NewRow(request[s])
          /\ Closing(request'[q]) = Closing(request[q]) /\ Closing(request'[s]) = Closing(request[s])
          /\ Kept(q) /\ Kept(s)
      BY <1>1, <2>3, OthersStand
    <3> QED  BY <3>1, <3>2 DEF Apart, Kept
  <2> QED  BY <2>1, <2>2, <2>3
<1> QED  BY <1>1 DEF ApartInv

LEMMA InsertTeamNumbers ==
    ASSUME CoreInv, NumbersInv, NEW r \in Requests, InsertTeam(r), UNCHANGED users
    PROVE  NumbersInv'
<1>1. Works(r) /\ r \in InFlight /\ Step(request[r]) = "team" /\ request[r] \in RequestType
  BY InsertWorks, AtStep DEF InsertTeam
<1>2. request[r].call.op \in Making
  <2>1. PICK n : <<"team", n>> \in Follows[request[r].call.op] /\ request[r].call.op \in AllOps
    BY AtStep DEF InsertTeam
  <2> QED  BY <2>1, Table
<1>3. /\ lastTeam + 1 \in TeamIds /\ lastTeam' = lastTeam + 1
      /\ UNCHANGED <<teams, settings, lastSetting, flags, keys, charges>>
      /\ Advance(r, [request[r] EXCEPT !.team = lastTeam + 1])
  BY DEF InsertTeam
<1>4. request'[r].todo # <<>> => request'[r].team = lastTeam + 1
  <2>1. PICK q : q = [request[r] EXCEPT !.team = lastTeam + 1]
    OBVIOUS
  <2>2. q \in RequestType /\ q.todo = request[r].todo /\ q.team = lastTeam + 1
    BY <1>1, <1>3, <2>1 DEF RequestType
  <2>3. request'[r] = After(q)
    BY <1>1, <1>3, <2>1, Becomes DEF Advance
  <2> QED  BY <2>2, <2>3, GoesOn
<1>5. TeamIds \subseteq Int /\ lastTeam \in Int /\ lastSetting \in Int
  BY TeamInts
<1>6. teams[lastTeam + 1] = "unused"
  BY <1>3, <1>5 DEF NumbersInv, CountersInv
<1>7. CountersInv'
  <2>1. (\A u \in UserIds : Exists(u)' => teams'[users'[u].team] # "unused")
    BY <1>3 DEF NumbersInv, CountersInv, Exists
  <2>2. (\A t \in TeamIds : teams'[t] # "unused" => t <= lastTeam')
    BY <1>3, <1>5 DEF NumbersInv, CountersInv
  <2>3. (\A t \in TeamIds : settings'[t] # Unused => t <= lastSetting')
    BY <1>3, <1>5 DEF NumbersInv, CountersInv
  <2>4. \A t \in TeamIds : IsRow(t)' = IsRow(t)
    BY <1>3 DEF IsRow
  <2> QED  BY <1>3, <2>1, <2>2, <2>3, <2>4 DEF NumbersInv, CountersInv
<1>8. ASSUME r \in InFlight'
      PROVE  /\ request'[r].team = lastTeam + 1
             /\ NewTeam(request'[r])
             /\ ~NewRow(request'[r]) /\ ~OldTeam(request'[r]) /\ ~Closing(request'[r])
  <2>1. request'[r].todo # <<>>
    BY <1>8 DEF InFlight
  <2>2. <<"team", Step(request'[r])>> \in Follows[request[r].call.op] /\ request[r].call.op \in AllOps
        /\ request'[r].call = request[r].call
    BY <1>1, <2>1, IdleType, Flying DEF Works
  <2>3. Step(request'[r]) = "setting"
    BY <2>2, Table
  <2> QED  BY <1>2, <1>4, <2>1, <2>2, <2>3 DEF NewTeam, NewRow, OldTeam, Closing, Making
<1>9. ASSUME NEW s \in InFlight'
      PROVE  TeamInv(s)'
  <2>1. CASE s = r
    BY <1>3, <1>5, <1>6, <1>8, <2>1 DEF TeamInv
  <2>2. CASE s # r
    <3>1. s \in InFlight /\ OthersKept(r) /\ TeamInv(s)
      BY <1>1, <2>2, OthersStand DEF Works, NumbersInv
    <3> QED  BY <1>3, <1>5, <2>2, <3>1, TeamKept DEF TeamInv
  <2> QED  BY <2>1, <2>2
<1>10. ASSUME NEW s \in InFlight', s # r, r \in InFlight'
       PROVE  Apart(request'[r], request'[s])
  <2>1. /\ s \in InFlight /\ Kept(s) /\ TeamInv(s)
        /\ NewTeam(request'[s]) = NewTeam(request[s])
    BY <1>1, <1>10, OthersStand DEF Works, NumbersInv
  <2>2. NewTeam(request'[s]) => request'[s].team <= lastTeam /\ request'[s].team \in TeamIds
    BY <2>1, TeamsOf DEF Kept, TeamInv
  <2> QED  BY <1>5, <1>8, <1>10, <2>2 DEF Apart
<1>11. ApartInv'
  BY <1>1, <1>10, ApartKept DEF Works
<1> QED  BY <1>7, <1>9, <1>11 DEF NumbersInv

LEMMA InsertSettingNumbers ==
    ASSUME CoreInv, NumbersInv, NEW r \in Requests, InsertSetting(r), UNCHANGED users
    PROVE  NumbersInv'
<1>1. Works(r) /\ r \in InFlight /\ Step(request[r]) = "setting" /\ request[r] \in RequestType
  BY InsertWorks, AtStep DEF InsertSetting
<1>2. request[r].call.op \in Making
  <2>1. PICK n : <<"setting", n>> \in Follows[request[r].call.op] /\ request[r].call.op \in AllOps
    BY AtStep DEF InsertSetting
  <2> QED  BY <2>1, Table
<1>3. /\ lastSetting + 1 \in TeamIds /\ lastSetting' = lastSetting + 1
      /\ UNCHANGED <<teams, settings, lastTeam, flags, keys, charges>>
  BY DEF InsertSetting
<1>4. request'[r].todo # <<>> =>
          request'[r].row = lastSetting + 1 /\ request'[r].team = request[r].team
  <2>1. PICK q : q = [request[r] EXCEPT !.row = lastSetting + 1]
    OBVIOUS
  <2>2. /\ q \in RequestType /\ q.todo = request[r].todo /\ q.row = lastSetting + 1
        /\ q.team = request[r].team
    BY <1>1, <1>3, <2>1 DEF RequestType
  <2>3. request' = [request EXCEPT ![r] = After(q)]
    BY <2>1 DEF InsertSetting
  <2>4. request'[r] = After(q)
    BY <1>1, <2>3, Becomes
  <2> QED  BY <2>2, <2>4, GoesOn
<1>5. TeamIds \subseteq Int /\ lastTeam \in Int /\ lastSetting \in Int
  BY TeamInts
<1>6. settings[lastSetting + 1] = Unused
  BY <1>3, <1>5 DEF NumbersInv, CountersInv
<1>7. CountersInv'
  <2>1. (\A u \in UserIds : Exists(u)' => teams'[users'[u].team] # "unused")
    BY <1>3 DEF NumbersInv, CountersInv, Exists
  <2>2. (\A t \in TeamIds : teams'[t] # "unused" => t <= lastTeam')
    BY <1>3, <1>5 DEF NumbersInv, CountersInv
  <2>3. (\A t \in TeamIds : settings'[t] # Unused => t <= lastSetting')
    BY <1>3, <1>5 DEF NumbersInv, CountersInv
  <2>4. \A t \in TeamIds : IsRow(t)' = IsRow(t)
    BY <1>3 DEF IsRow
  <2> QED  BY <1>3, <2>1, <2>2, <2>3, <2>4 DEF NumbersInv, CountersInv
<1>8. ASSUME r \in InFlight'
      PROVE  /\ request'[r].team = request[r].team /\ request'[r].row = lastSetting + 1
             /\ NewTeam(request'[r]) /\ NewTeam(request[r])
             /\ NewRow(request'[r]) /\ ~OldTeam(request'[r]) /\ ~Closing(request'[r])
  <2>1. request'[r].todo # <<>>
    BY <1>8 DEF InFlight
  <2>2. <<"setting", Step(request'[r])>> \in Follows[request[r].call.op] /\ request[r].call.op \in AllOps
        /\ request'[r].call = request[r].call
    BY <1>1, <2>1, IdleType, Flying DEF Works
  <2>3. Step(request'[r]) = "check"
    BY <2>2, Table
  <2> QED  BY <1>1, <1>2, <1>4, <2>1, <2>2, <2>3 DEF NewTeam, NewRow, OldTeam, Closing, Making
<1>9. ASSUME NEW s \in InFlight'
      PROVE  TeamInv(s)'
  <2>1. CASE s = r
    <3>1. TeamInv(r)
      BY <1>1 DEF NumbersInv
    <3> QED  BY <1>3, <1>5, <1>6, <1>8, <2>1, <3>1 DEF TeamInv
  <2>2. CASE s # r
    <3>1. s \in InFlight /\ OthersKept(r) /\ TeamInv(s)
      BY <1>1, <2>2, OthersStand DEF Works, NumbersInv
    <3> QED  BY <1>3, <1>5, <2>2, <3>1, TeamKept DEF TeamInv
  <2> QED  BY <2>1, <2>2
<1>10. ASSUME NEW s \in InFlight', s # r, r \in InFlight'
       PROVE  Apart(request'[r], request'[s])
  <2>1. /\ s \in InFlight /\ Kept(s) /\ TeamInv(s) /\ Apart(request[r], request[s])
        /\ NewRow(request'[s]) = NewRow(request[s]) /\ NewTeam(request'[s]) = NewTeam(request[s])
    BY <1>1, <1>10, OthersStand DEF Works, NumbersInv, ApartInv
  <2>2. NewRow(request'[s]) => request'[s].row <= lastSetting /\ request'[s].row \in TeamIds
    BY <2>1, TeamsOf DEF Kept, TeamInv
  <2> QED  BY <1>5, <1>8, <1>10, <2>1, <2>2 DEF Apart, Kept
<1>11. ApartInv'
  BY <1>1, <1>10, ApartKept DEF Works
<1> QED  BY <1>7, <1>9, <1>11 DEF NumbersInv

LEMMA ShowTeamNumbers ==
    ASSUME CoreInv, NumbersInv, NEW r \in Requests,
           Doing(r, "commit") \/ Doing(r, "commitUser"), ShowTeam(r),
           \A u \in UserIds : Exists(u)' =>
               \/ Exists(u) /\ users'[u].team = users[u].team
               \/ users'[u].team = request[r].team
    PROVE  NumbersInv'
<1>1. /\ Works(r) /\ r \in InFlight /\ request[r] \in RequestType
      /\ Step(request[r]) \in {"commit", "commitUser"} /\ request[r].call.op \in Making
      /\ request[r].team \in TeamIds /\ request[r].row \in TeamIds
  BY ShowTeamWorks, AtStep, AtNames
<1>2. PICK t, i : t = request[r].team /\ i = request[r].row
  OBVIOUS
<1>3. NewTeam(request[r]) /\ NewRow(request[r])
  BY <1>1 DEF NewTeam, NewRow
<1>4. TeamInv(r)
  BY <1>1 DEF NumbersInv
<1>5. /\ t \in TeamIds /\ i \in TeamIds /\ teams[t] = "unused" /\ t <= lastTeam
      /\ settings[i] = Unused /\ i <= lastSetting
  BY <1>1, <1>2, <1>3, <1>4 DEF TeamInv
<1>6. PICK row : row = Row(t, request[r].name)
  OBVIOUS
<1>7. row.team = t
  BY <1>6 DEF Row
<1>8. /\ teams' = [teams EXCEPT ![t] = "open"]
      /\ settings' = [settings EXCEPT ![i] = row]
      /\ lastTeam' = lastTeam /\ lastSetting' = lastSetting
      /\ Advance(r, Wrote(r))
  <2>1. Wrote(r).team = t /\ Wrote(r).row = i /\ Wrote(r).name = request[r].name
    BY <1>1, <1>2, WroteIs
  <2> QED  BY <2>1, <1>6 DEF ShowTeam
<1>9. /\ teams \in [TeamIds -> {"unused", "open", "closed", "left"}]
      /\ settings \in [TeamIds -> Rows \cup {Unused, Released}]
  BY TablesAre DEF Tables
<1>10. /\ teams'[t] = "open" /\ \A k \in TeamIds : k # t => teams'[k] = teams[k]
       /\ settings'[i] = row /\ \A k \in TeamIds : k # i => settings'[k] = settings[k]
  BY <1>5, <1>8, <1>9
<1>11. \A k \in TeamIds : teams[k] # "unused" => teams'[k] # "unused"
  BY <1>10
<1>12. \A k \in TeamIds : settings[k] # Unused => settings'[k] # Unused
  BY <1>5, <1>10
<1>13. \A k \in TeamIds : k # i => IsRow(k)' = IsRow(k)
  BY <1>10 DEF IsRow
<1>14. \A k \in TeamIds : IsRow(k) => settings[k].team \in TeamIds
  BY <1>9 DEF IsRow, Rows
<1>15. CountersInv'
  <2>1. \A k \in TeamIds : teams'[k] # "unused" => k <= lastTeam'
    BY <1>5, <1>8, <1>10 DEF NumbersInv, CountersInv
  <2>2. \A k \in TeamIds : settings'[k] # Unused => k <= lastSetting'
    BY <1>5, <1>8, <1>10 DEF NumbersInv, CountersInv
  <2>3. \A k \in TeamIds : IsRow(k)' => teams'[settings'[k].team] # "unused"
    <3>1. teams'[settings'[i].team] # "unused"
      BY <1>7, <1>10
    <3>2. ASSUME NEW k \in TeamIds, k # i, IsRow(k)' PROVE teams'[settings'[k].team] # "unused"
      BY <3>2, <1>10, <1>11, <1>13, <1>14 DEF NumbersInv, CountersInv
    <3> QED  BY <3>1, <3>2
  <2>4. ASSUME NEW k \in TeamIds, k # i, IsRow(k)' PROVE settings'[k].team # t
    BY <2>4, <1>5, <1>10, <1>13 DEF NumbersInv, CountersInv
  <2>5. ASSUME NEW j \in TeamIds, NEW k \in TeamIds, IsRow(j)', IsRow(k)',
               settings'[j].team = settings'[k].team
        PROVE  j = k
    <3>1. CASE j = i
      BY <3>1, <2>4, <2>5, <1>7, <1>10
    <3>2. CASE k = i
      BY <3>2, <2>4, <2>5, <1>7, <1>10
    <3>3. CASE j # i /\ k # i
      BY <3>3, <2>5, <1>10, <1>13 DEF NumbersInv, CountersInv
    <3> QED  BY <3>1, <3>2, <3>3
  <2>6. ASSUME NEW u \in UserIds, Exists(u)' PROVE teams'[users'[u].team] # "unused"
    <3>1. CASE users'[u].team = request[r].team
      BY <3>1, <1>2, <1>10
    <3>2. CASE Exists(u) /\ users'[u].team = users[u].team
      <4>1. users[u].team \in TeamIds
        BY <3>2, PeopleAre DEF PeopleOK, Exists, UserType
      <4> QED  BY <3>2, <4>1, <1>11 DEF NumbersInv, CountersInv
    <3> QED  BY <2>6, <3>1, <3>2
  <2> QED  BY <2>1, <2>2, <2>3, <2>5, <2>6 DEF CountersInv
<1>16. Same(r)
  BY <1>1, <1>8, AdvanceSame
<1>17. ASSUME r \in InFlight'
       PROVE  /\ request'[r].team = t /\ OldTeam(request'[r])
              /\ ~NewTeam(request'[r]) /\ ~NewRow(request'[r]) /\ ~Closing(request'[r])
  <2>1. request'[r].todo # <<>>
    BY <1>17 DEF InFlight
  <2>2. <<Step(request[r]), Step(request'[r])>> \in Follows[request[r].call.op]
        /\ request[r].call.op \in AllOps
        /\ request'[r].call = request[r].call /\ WellFormed(request'[r])
    BY <1>1, <2>1, IdleType, Flying DEF Works
  <2>3. Step(request'[r]) \in {"invite", "none"}
    BY <1>1, <2>2, Table
  <2>4. Step(request'[r]) # "none"
    BY <2>2, Ahead DEF WellFormed
  <2>5. request'[r].team = t
    BY <1>2, <1>16, <2>1 DEF Same
  <2> QED  BY <1>1, <2>2, <2>3, <2>4, <2>5 DEF NewTeam, NewRow, OldTeam, Closing, Making
<1>18. ASSUME NEW s \in InFlight'
       PROVE  TeamInv(s)'
  <2>1. CASE s = r
    BY <1>10, <1>17, <2>1 DEF TeamInv
  <2>2. CASE s # r
    <3>1. s \in InFlight /\ OthersKept(r) /\ TeamInv(s) /\ Apart(request[r], request[s])
      BY <1>1, <2>2, OthersStand DEF Works, NumbersInv, ApartInv
    <3>2. NewTeam(request[s]) => teams'[request[s].team] = "unused"
      BY <3>1, <1>2, <1>3, <1>10, TeamsOf DEF Apart, TeamInv
    <3>3. NewRow(request[s]) => settings'[request[s].row] = Unused
      BY <3>1, <1>2, <1>3, <1>10, TeamsOf DEF Apart, TeamInv
    <3>4. lastTeam \in Int /\ lastSetting \in Int
      BY TeamInts
    <3> QED  BY <1>8, <1>11, <1>12, <2>2, <3>1, <3>2, <3>3, <3>4, TeamKept
  <2> QED  BY <2>1, <2>2
<1>19. ApartInv'
  BY <1>1, <1>17, ApartKept DEF Works, Apart
<1> QED  BY <1>15, <1>18, <1>19 DEF NumbersInv

LEMMA ReleaseNumbers ==
    ASSUME CoreInv, NumbersInv, NEW r \in Requests, ReleaseRow(r), Keeps
    PROVE  NumbersInv'
<1>1. Works(r) /\ r \in InFlight /\ Step(request[r]) = "release"
  BY ReleaseRowWorks, AtStep DEF ReleaseRow
<1>2. TablesStand /\ PeopleStand
  BY NothingStands, KeepsStands DEF ReleaseRow
<1>3. Same(r)
  <2>1. Refuse(r) \/ Advance(r, request[r])
    BY DEF ReleaseRow
  <2> QED  BY <1>1, <2>1, AdvanceSame, StopSame DEF Refuse
<1>4. ASSUME request'[r].todo # <<>> PROVE settings[request[r].team] # Unused
  BY <1>1, <1>4, StopSame DEF ReleaseRow, Refuse
<1>5. ASSUME NEW s \in InFlight, Closing(request[s]) PROVE request[s].team # request[r].team
  <2>1. Step(request[s]) = Head(request[s].todo)
    BY Flying
  <2>2. ~Doing(s, "release")
    BY <1>5, <2>1 DEF Closing, Doing
  <2> QED  BY <1>5, <2>2 DEF ReleaseRow, Locked, Closing
<1>6. SameTeam(r)
  BY <1>3 DEF Same, SameTeam
<1> QED  BY <1>1, <1>2, <1>4, <1>5, <1>6, NumbersStand

-----------------------------------------------------------------------------
(* What is changed by each step.                                             *)
LEMMA LookDoes ==
    ASSUME CoreInv, NEW r \in Requests, Look(r)
    PROVE  /\ Works(r) /\ r \in InFlight /\ Step(request[r]) = "look"
           /\ request[r].call.op \in Making /\ Nothing /\ NoDoubt /\ SameTeam(r)
<1>1. /\ Works(r) /\ r \in InFlight /\ Step(request[r]) = "look" /\ request[r] \in RequestType
      /\ Nothing
  BY LookWorks, AtStep DEF Look
<1>2. request[r].call.op \in Making
  <2>1. PICK n : <<"look", n>> \in Follows[request[r].call.op] /\ request[r].call.op \in AllOps
    BY AtStep DEF Look
  <2> QED  BY <2>1, Table
<1>3. CASE Refuse(r)
  BY <1>1, <1>2, <1>3, StopSame DEF Refuse, SameTeam
<1>4. CASE Advance(r, request[r])
  BY <1>1, <1>2, <1>4, AdvanceSame DEF Advance, Same, SameTeam
<1>5. ASSUME NEW k \in Numbers, Advance(r, [request[r] EXCEPT !.name = DefaultName(@, k)])
      PROVE  NoDoubt /\ SameTeam(r)
  <2>1. DefaultName(request[r].name, k) \in Names
    BY AtNames, WorkspacesAssumption DEF DefaultName, Look
  <2>2. PICK q : q = [request[r] EXCEPT !.name = DefaultName(@, k)]
    OBVIOUS
  <2>3. /\ q \in RequestType /\ q.todo = request[r].todo /\ q.team = request[r].team
        /\ q.row = request[r].row
    BY <1>1, <2>1, <2>2 DEF RequestType
  <2>4. request'[r] = After(q) /\ NoDoubt
    BY <1>1, <1>5, <2>2, Becomes DEF Advance
  <2> QED  BY <2>3, <2>4, GoesOn DEF SameTeam
<1> QED  BY <1>1, <1>2, <1>3, <1>4, <1>5 DEF Look

LEMMA CheckDoes ==
    ASSUME CoreInv, NEW r \in Requests, CheckFlag(r)
    PROVE  /\ Works(r) /\ r \in InFlight /\ Step(request[r]) = "check" /\ Nothing
           /\ request'[r].todo # <<>> =>
                 /\ request'[r].team = request[r].team /\ request'[r].row = request[r].row
                 /\ request'[r].name = request[r].name /\ request'[r].old = request[r].old
                 /\ request'[r].wrote = request[r].wrote
                 /\ request'[r].raced = request[r].raced \ {request[r].name}
                 /\ request[r].name \notin flags
           /\ \/ NoDoubt
              \/ Doubts(request[r]) /\ request'[r].todo = <<>>
           /\ request'[r].todo = <<>> /\ request[r].wrote /\ request[r].name # request[r].old =>
                 Doubts(request[r])
           /\ \A s \in Requests \ {r} : request'[s] = request[s]
           /\ request'[r].todo # <<>> \/ request[r].name \in flags
<1>1. /\ Works(r) /\ r \in InFlight /\ Step(request[r]) = "check" /\ request[r] \in RequestType
      /\ Nothing
  BY CheckFlagWorks, AtStep DEF CheckFlag
<1>2. CASE request[r].name \in flags
  <2>1. Stop(r)
    BY <1>2 DEF CheckFlag, InUse
  <2>2. \A s \in Requests \ {r} : request'[s] = request[s]
    BY <2>1, Requesting DEF Stop
  <2> QED  BY <1>1, <1>2, <2>1, <2>2, StopSame DEF CheckFlag, InUse
<1>3. CASE request[r].name \notin flags
  <2>1. PICK q : q = [request[r] EXCEPT !.raced = @ \ {request[r].name}]
    OBVIOUS
  <2>2. /\ q \in RequestType /\ q.todo = request[r].todo /\ q.team = request[r].team
        /\ q.row = request[r].row /\ q.name = request[r].name /\ q.old = request[r].old
        /\ q.wrote = request[r].wrote /\ q.raced = request[r].raced \ {request[r].name}
    BY <1>1, <2>1 DEF RequestType
  <2>3. request' = [request EXCEPT ![r] = After(q)] /\ NoDoubt
    BY <1>3, <2>1 DEF CheckFlag, InUse, Advance
  <2>4. request'[r] = After(q)
    BY <1>1, <2>3, Becomes
  <2>5. \A s \in Requests \ {r} : request'[s] = request[s]
    BY <2>3, Requesting
  <2>6. request'[r].todo # <<>>
    <3>1. PICK n : <<"check", n>> \in Follows[request[r].call.op] /\ request[r].call.op \in AllOps
      BY AtStep DEF CheckFlag
    <3>2. /\ Going(Rests[request[r].call.op], Follows[request[r].call.op], request[r].todo)
          /\ Head(request[r].todo) = "check" /\ request[r].call.op \in AllOps
      BY <1>1, Flying
    <3>3. <<"check", NextStep(Tail(request[r].todo))>> \in Follows[request[r].call.op]
      BY <3>2 DEF Going
    <3>4. NextStep(Tail(request[r].todo)) \in {"flag", "drop"}
      BY <3>2, <3>3, Table
    <3>5. Tail(request[r].todo) # <<>>
      BY <3>4 DEF NextStep
    <3>6. After(q) = [q EXCEPT !.todo = Tail(@)]
      BY <2>2, <3>5 DEF After
    <3> QED  BY <2>2, <2>4, <3>5, <3>6 DEF RequestType
  <2> QED  BY <1>1, <1>3, <2>2, <2>3, <2>4, <2>5, <2>6, GoesOn
<1> QED  BY <1>2, <1>3

(* A handler that writes elsewhere than in its tables.                       *)
WritesOn(r) ==
    /\ Works(r) /\ r \in InFlight /\ Same(r)
    /\ request'[r].todo # <<>> => request'[r].wrote

LEMMA WritesOnDoes ==
    ASSUME CoreInv, NEW r \in InFlight, Works(r), request' = [request EXCEPT ![r] = After(Wrote(r))]
    PROVE  WritesOn(r) /\ \A s \in Requests \ {r} : request'[s] = request[s]
<1>1. request'[r] = After(Wrote(r))
  BY Becomes
<1>2. /\ Wrote(r) \in RequestType /\ Wrote(r).todo = request[r].todo
      /\ Wrote(r).team = request[r].team /\ Wrote(r).row = request[r].row
      /\ Wrote(r).name = request[r].name /\ Wrote(r).old = request[r].old
      /\ Wrote(r).raced = request[r].raced /\ Wrote(r).wrote = TRUE
  BY WroteIs
<1>3. Same(r) /\ (request'[r].todo # <<>> => request'[r].wrote)
  BY <1>1, <1>2, GoesOn DEF Same
<1>4. \A s \in Requests \ {r} : request'[s] = request[s]
  BY Requesting
<1> QED  BY <1>3, <1>4 DEF WritesOn

LEMMA DropDoes ==
    ASSUME CoreInv, NEW r \in Requests, DropFlag(r)
    PROVE  /\ WritesOn(r) /\ Step(request[r]) = "drop"
           /\ \A s \in Requests \ {r} : request'[s] = request[s]
           /\ flags' = flags \ {request[r].old}
           /\ suspect \subseteq suspect'
           /\ request[r].call.op = "leave" => request[r].old \in suspect'
           /\ UNCHANGED <<teams, settings, lastTeam, lastSetting, keys, charges, torn, skewed>>
<1>1. Works(r) /\ r \in InFlight /\ Step(request[r]) = "drop"
  BY DropFlagWorks, AtStep DEF DropFlag
<1>2. PICK w : w = Wrote(r)
  OBVIOUS
<1>3. w.old = request[r].old /\ w.call = request[r].call
  BY <1>1, <1>2, WroteIs
<1>4. /\ request' = [request EXCEPT ![r] = After(w)] /\ flags' = flags \ {w.old}
      /\ suspect' = suspect \cup (IF w.old \in w.raced \/ w.call.op = "leave" THEN {w.old} ELSE {})
      /\ UNCHANGED <<teams, settings, lastTeam, lastSetting, keys, charges, torn, skewed>>
  BY <1>2 DEF DropFlag
<1>5. WritesOn(r) /\ \A s \in Requests \ {r} : request'[s] = request[s]
  BY <1>1, <1>2, <1>4, WritesOnDoes
<1> QED  BY <1>1, <1>3, <1>4, <1>5

LEMMA SetFlagDoes ==
    ASSUME CoreInv, NEW r \in Requests, SetFlag(r)
    PROVE  /\ WritesOn(r) /\ Step(request[r]) = "flag"
           /\ flags' = flags \cup {request[r].name}
           /\ suspect' = suspect \cup ({request[r].name} \cap request[r].raced)
           /\ \A s \in InFlight \ {r} : request[r].name \in request'[s].raced
           /\ UNCHANGED <<teams, settings, lastTeam, lastSetting, keys, charges, torn, skewed>>
<1>1. Works(r) /\ r \in InFlight /\ Step(request[r]) = "flag"
  BY SetFlagWorks, AtStep DEF SetFlag
<1>2. PICK w : w = Wrote(r)
  OBVIOUS
<1>3. /\ w \in RequestType /\ w.todo = request[r].todo
      /\ w.team = request[r].team /\ w.row = request[r].row
      /\ w.name = request[r].name /\ w.old = request[r].old
      /\ w.raced = request[r].raced /\ w.wrote = TRUE
  BY <1>1, <1>2, WroteIs
<1>4. /\ request' = [s \in Requests |->
             IF s = r THEN After(w)
             ELSE IF s \in InFlight
                  THEN [request[s] EXCEPT !.raced = @ \cup {w.name}] ELSE request[s]]
      /\ flags' = flags \cup {w.name}
      /\ suspect' = suspect \cup ({w.name} \cap w.raced)
      /\ UNCHANGED <<teams, settings, lastTeam, lastSetting, keys, charges, torn, skewed>>
  BY <1>2 DEF SetFlag
<1>5. request'[r] = After(w)
  BY <1>4
<1>6. Same(r) /\ (request'[r].todo # <<>> => request'[r].wrote)
  BY <1>3, <1>5, GoesOn DEF Same
<1>7. ASSUME NEW s \in InFlight \ {r} PROVE w.name \in request'[s].raced
  <2>1. request'[s] = [request[s] EXCEPT !.raced = @ \cup {w.name}] /\ request[s] \in RequestType
    BY <1>4, Flying DEF InFlight
  <2> QED  BY <2>1 DEF RequestType
<1> QED  BY <1>1, <1>3, <1>4, <1>6, <1>7 DEF WritesOn

LEMMA ChargeDoes ==
    ASSUME CoreInv, NEW r \in Requests, Charge(r)
    PROVE  /\ WritesOn(r) /\ Step(request[r]) = "charge" /\ request[r].team \in TeamIds
           /\ \A s \in Requests \ {r} : request'[s] = request[s]
           /\ charges' = charges \cup {request[r].team} /\ NoDoubt
           /\ UNCHANGED <<teams, settings, lastTeam, lastSetting, flags, keys>>
<1>1. /\ Works(r) /\ r \in InFlight /\ Step(request[r]) = "charge" /\ request[r].team \in TeamIds
      /\ request' = [request EXCEPT ![r] = After(Wrote(r))] /\ NoDoubt
  BY ChargeWorks, AtStep, AtNames DEF Charge, Advance
<1>2. WritesOn(r) /\ \A s \in Requests \ {r} : request'[s] = request[s]
  BY <1>1, WritesOnDoes
<1> QED  BY <1>1, <1>2 DEF Charge

LEMMA StopOthers ==
    ASSUME CoreInv, NEW r, Stop(r)
    PROVE  \A s \in Requests \ {r} : request'[s] = request[s]
BY Requesting DEF Stop

LEMMA SetKeysDoes ==
    ASSUME CoreInv, NEW r \in Requests, SetKeys(r)
    PROVE  /\ Works(r) /\ r \in InFlight /\ Same(r) /\ Step(request[r]) = "keys"
           /\ request'[r].todo # <<>> => request'[r].wrote
           /\ request[r].team \in TeamIds
           /\ \A s \in Requests \ {r} : request'[s] = request[s]
           /\ \E K \in SUBSET TeamKeys :
                 /\ keys' = [keys EXCEPT ![request[r].team] = @ \cup K]
                 /\ \/ K = TeamKeys /\ NoDoubt /\ request'[r].todo # <<>>
                    \/ Doubts(request[r]) /\ request'[r].todo = <<>>
           /\ UNCHANGED <<teams, settings, lastTeam, lastSetting, flags, charges>>
<1>1. /\ Works(r) /\ r \in InFlight /\ Step(request[r]) = "keys" /\ request[r].team \in TeamIds
      /\ UNCHANGED <<teams, settings, lastTeam, lastSetting, flags, charges>>
  BY SetKeysWorks, AtStep, AtNames DEF SetKeys
<1>2. PICK k \in 0..Len(KeyOrder) :
          /\ keys' = [keys EXCEPT ![request[r].team] = @ \cup {KeyOrder[i] : i \in 1..k}]
          /\ \/ k = Len(KeyOrder) /\ Advance(r, Wrote(r))
             \/ Stop(r) /\ Doubts(request[r])
  BY DEF SetKeys
<1>3. PICK K : K = {KeyOrder[i] : i \in 1..k}
  OBVIOUS
<1>4. K \subseteq TeamKeys /\ keys' = [keys EXCEPT ![request[r].team] = @ \cup K]
  BY <1>2, <1>3, KeyOrderIs
<1>5. CASE Stop(r) /\ Doubts(request[r])
  BY <1>1, <1>4, <1>5, StopSame, StopOthers
<1>6. CASE k = Len(KeyOrder) /\ Advance(r, Wrote(r))
  <2>1. WritesOn(r) /\ \A s \in Requests \ {r} : request'[s] = request[s]
    BY <1>1, <1>6, WritesOnDoes DEF Advance
  <2>2. K = TeamKeys
    BY <1>3, <1>6 DEF KeyOrder, TeamKeys
  <2>3. request'[r].todo # <<>>
    <3>1. /\ Going(Rests[request[r].call.op], Follows[request[r].call.op], request[r].todo)
          /\ Head(request[r].todo) = "keys" /\ request[r].call.op \in AllOps
      BY <1>1, Flying
    <3>2. <<"keys", NextStep(Tail(request[r].todo))>> \in Follows[request[r].call.op]
      BY <3>1 DEF Going
    <3>3. NextStep(Tail(request[r].todo)) \in {"commit", "commitUser"}
      BY <3>1, <3>2, Table
    <3>4. Tail(request[r].todo) # <<>>
      BY <3>3 DEF NextStep
    <3>5. PICK w : w = Wrote(r)
      OBVIOUS
    <3>6. w \in RequestType /\ w.todo = request[r].todo
      BY <1>1, <3>5, WroteIs
    <3>7. request'[r] = After(w)
      BY <1>1, <1>6, <3>5, Becomes DEF Advance
    <3>8. After(w) = [w EXCEPT !.todo = Tail(@)]
      BY <3>4, <3>6 DEF After
    <3> QED  BY <3>4, <3>6, <3>7, <3>8 DEF RequestType
  <2> QED  BY <1>1, <1>4, <1>6, <2>1, <2>2, <2>3 DEF WritesOn, Advance
<1> QED  BY <1>2, <1>5, <1>6

LEMMA InviteDoes ==
    ASSUME CoreInv, NEW r \in Requests, SaveInvitations(r)
    PROVE  /\ Works(r) /\ r \in InFlight /\ Same(r) /\ Step(request[r]) = "invite"
           /\ request[r].team \in TeamIds
           /\ \A s \in Requests \ {r} : request'[s] = request[s]
           /\ keys' = [keys EXCEPT ![request[r].team] = @ \cup {"invitations"}] /\ NoDoubt
           /\ request'[r].todo = <<>>
           /\ UNCHANGED <<teams, settings, lastTeam, lastSetting, flags, charges>>
<1>1. /\ Works(r) /\ r \in InFlight /\ Step(request[r]) = "invite" /\ request[r].team \in TeamIds
      /\ Advance(r, request[r])
  BY InvitationsWork, AtStep, AtNames DEF SaveInvitations
<1>2. \A s \in Requests \ {r} : request'[s] = request[s]
  BY <1>1, Requesting DEF Advance
<1>3. request'[r].todo = <<>>
  <2>1. /\ Going(Rests[request[r].call.op], Follows[request[r].call.op], request[r].todo)
        /\ Head(request[r].todo) = "invite" /\ request[r].call.op \in AllOps
    BY <1>1, Flying
  <2>2. <<"invite", NextStep(Tail(request[r].todo))>> \in Follows[request[r].call.op]
    BY <2>1 DEF Going
  <2>3. NextStep(Tail(request[r].todo)) = "none"
    BY <2>1, <2>2, Table
  <2>4. Tail(request[r].todo) \notin Rests[request[r].call.op]
    <3>1. ASSUME Tail(request[r].todo) \in Rests[request[r].call.op] PROVE FALSE
      <4>1. Going(Rests[request[r].call.op], Follows[request[r].call.op], Tail(request[r].todo))
        BY <2>1, <3>1, AllGoing
      <4>2. PICK n : <<Head(Tail(request[r].todo)), n>> \in Follows[request[r].call.op]
                     /\ Tail(request[r].todo) # <<>>
        BY <4>1 DEF Going
      <4>3. Head(Tail(request[r].todo)) = "none"
        BY <2>3, <4>2 DEF NextStep
      <4> QED  BY <2>1, <4>2, <4>3, Table
    <3> QED  BY <3>1
  <2>5. Tail(request[r].todo) = <<>>
    BY <2>1, <2>4 DEF Going
  <2>6. request'[r] = Idle(request[r].call)
    BY <1>1, <2>5, Becomes DEF Advance, After
  <2> QED  BY <2>6 DEF Idle
<1> QED  BY <1>1, <1>2, <1>3, AdvanceSame DEF SaveInvitations, Advance

(* A handler that reads the name of its team.                                *)
LEMMA ReadsOld ==
    ASSUME CoreInv, NEW r \in InFlight, NEW n \in Names,
           Advance(r, [request[r] EXCEPT !.old = n])
    PROVE  /\ NoDoubt /\ \A s \in Requests \ {r} : request'[s] = request[s]
           /\ request'[r].todo # <<>> =>
                 /\ request'[r].team = request[r].team /\ request'[r].row = request[r].row
                 /\ request'[r].name = request[r].name /\ request'[r].old = n
                 /\ request'[r].wrote = request[r].wrote /\ request'[r].raced = request[r].raced
<1>1. request[r] \in RequestType
  BY Flying
<1>2. PICK q : q = [request[r] EXCEPT !.old = n]
  OBVIOUS
<1>3. /\ q \in RequestType /\ q.todo = request[r].todo /\ q.team = request[r].team
      /\ q.row = request[r].row /\ q.name = request[r].name /\ q.old = n
      /\ q.wrote = request[r].wrote /\ q.raced = request[r].raced
  BY <1>1, <1>2 DEF RequestType
<1>4. request' = [request EXCEPT ![r] = After(q)] /\ NoDoubt
  BY <1>2 DEF Advance
<1>5. request'[r] = After(q) /\ \A s \in Requests \ {r} : request'[s] = request[s]
  BY <1>4, Becomes, Requesting
<1> QED  BY <1>3, <1>4, <1>5, GoesOn

LEMMA ReadDoes ==
    ASSUME CoreInv, NEW r \in Requests, ReadName(r)
    PROVE  /\ Works(r) /\ r \in InFlight /\ Step(request[r]) = "read" /\ Nothing /\ NoDoubt
           /\ \A s \in Requests \ {r} : request'[s] = request[s]
           /\ request'[r].todo # <<>> =>
                 /\ RowsOf(request[r].team) # {}
                 /\ request'[r].team = request[r].team /\ request'[r].row = request[r].row
                 /\ request'[r].name = request[r].name
                 /\ request'[r].old = NameOf(request[r].team)
                 /\ request'[r].wrote = request[r].wrote /\ request'[r].raced = request[r].raced
<1>1. Works(r) /\ r \in InFlight /\ Step(request[r]) = "read" /\ Nothing
  BY ReadNameWorks, AtStep DEF ReadName
<1>2. CASE Refuse(r)
  BY <1>1, <1>2, StopSame, StopOthers DEF Refuse
<1>3. CASE ~Refuse(r)
  <2>1. RowsOf(request[r].team) # {}
        /\ Advance(r, [request[r] EXCEPT !.old = NameOf(request[r].team)])
    BY <1>3 DEF ReadName
  <2>2. NameOf(request[r].team) \in Names
    BY <2>1, NameOfNames
  <2> QED  BY <1>1, <2>1, <2>2, ReadsOld
<1> QED  BY <1>2, <1>3

LEMMA WriteDoes ==
    ASSUME CoreInv, NEW r \in Requests, WriteName(r)
    PROVE  /\ WritesOn(r) /\ Step(request[r]) = "row" /\ NoDoubt
           /\ request[r].team \in TeamIds /\ request[r].name \in Names
           /\ \A s \in Requests \ {r} : request'[s] = request[s]
           /\ \A s \in RowsOf(request[r].team) :
                 ~Locked(s) /\ settings'[s] = Row(request[r].team, request[r].name)
           /\ \A s \in TeamIds \ RowsOf(request[r].team) : settings'[s] = settings[s]
           /\ UNCHANGED <<teams, lastTeam, lastSetting, flags, keys, charges>>
<1>1. /\ Works(r) /\ r \in InFlight /\ Step(request[r]) = "row"
      /\ request[r].team \in TeamIds /\ request[r].name \in Names
  BY WriteNameWorks, AtStep, AtNames DEF WriteName
<1>2. PICK w : w = Wrote(r)
  OBVIOUS
<1>3. w.team = request[r].team /\ w.name = request[r].name
  BY <1>1, <1>2, WroteIs
<1>4. /\ settings' = [s \in TeamIds |->
            IF s \in RowsOf(w.team) THEN Row(w.team, w.name) ELSE settings[s]]
      /\ \A s \in RowsOf(w.team) : ~Locked(s)
      /\ request' = [request EXCEPT ![r] = After(w)] /\ NoDoubt
      /\ UNCHANGED <<teams, lastTeam, lastSetting, flags, keys, charges>>
  BY <1>2 DEF WriteName, Advance
<1>5. WritesOn(r) /\ \A s \in Requests \ {r} : request'[s] = request[s]
  BY <1>1, <1>2, <1>4, WritesOnDoes
<1>6. RowsOf(w.team) \subseteq TeamIds
  BY DEF RowsOf
<1> QED  BY <1>1, <1>3, <1>4, <1>5, <1>6

LEMMA UnflagDoes ==
    ASSUME CoreInv, NEW r \in Requests, Unflag(r)
    PROVE  /\ Works(r) /\ r \in InFlight /\ Step(request[r]) = "unflag"
           /\ request[r].call.op = "close" /\ request[r].team \in TeamIds
           /\ \A s \in Requests \ {r} : request'[s] = request[s]
           /\ request'[r].todo # <<>> =>
                 /\ request'[r].team = request[r].team /\ request'[r].row = request[r].row
                 /\ request'[r].name = request[r].name
                 /\ request'[r].old =
                       IF IsRow(request[r].team) THEN settings[request[r].team].name ELSE NoName
                 /\ request'[r].wrote /\ request'[r].raced = request[r].raced
           /\ flags' = flags \ (IF IsRow(request[r].team) THEN {settings[request[r].team].name} ELSE {})
           /\ suspect \subseteq suspect'
           /\ IsRow(request[r].team) /\ settings[request[r].team].name \in request[r].raced =>
                 settings[request[r].team].name \in suspect'
           /\ UNCHANGED <<teams, settings, lastTeam, lastSetting, keys, charges, torn, skewed>>
<1>1. /\ Works(r) /\ r \in InFlight /\ Step(request[r]) = "unflag" /\ request[r] \in RequestType
      /\ request[r].team \in TeamIds
  BY UnflagWorks, AtStep, AtNames DEF Unflag
<1>2. request[r].call.op = "close"
  <2>1. PICK n : <<"unflag", n>> \in Follows[request[r].call.op] /\ request[r].call.op \in AllOps
    BY AtStep DEF Unflag
  <2> QED  BY <2>1, Table
<1>3. PICK s : s = request[r].team
  OBVIOUS
<1>4. PICK w : w = Wrote(r)
  OBVIOUS
<1>5. PICK n : n = IF IsRow(s) THEN settings[s].name ELSE NoName
  OBVIOUS
<1>6. n \in Names \cup {NoName}
  BY <1>1, <1>3, <1>5, TablesAre DEF Tables, Rows, IsRow
<1>7. /\ w \in RequestType /\ w.todo = request[r].todo /\ w.team = request[r].team
      /\ w.row = request[r].row /\ w.name = request[r].name
      /\ w.raced = request[r].raced /\ w.wrote = TRUE
  BY <1>1, <1>4, WroteIs
<1>8. PICK q : q = [w EXCEPT !.old = n]
  OBVIOUS
<1>9. /\ q \in RequestType /\ q.todo = request[r].todo /\ q.team = request[r].team
      /\ q.row = request[r].row /\ q.name = request[r].name /\ q.old = n
      /\ q.raced = request[r].raced /\ q.wrote = TRUE
  BY <1>6, <1>7, <1>8 DEF RequestType
<1>10. PICK gone : gone = IF IsRow(s) THEN {settings[s].name} ELSE {}
  OBVIOUS
<1>11. /\ request' = [request EXCEPT ![r] = After(q)]
       /\ flags' = flags \ gone
       /\ suspect' = suspect \cup (gone \cap w.raced)
       /\ UNCHANGED <<teams, settings, lastTeam, lastSetting, keys, charges, torn, skewed>>
  BY <1>3, <1>4, <1>5, <1>8, <1>10 DEF Unflag
<1>12. request'[r] = After(q) /\ \A c \in Requests \ {r} : request'[c] = request[c]
  BY <1>1, <1>11, Becomes, Requesting
<1>13. request'[r].todo # <<>> =>
          /\ request'[r].team = q.team /\ request'[r].row = q.row
          /\ request'[r].name = q.name /\ request'[r].old = q.old
          /\ request'[r].wrote = q.wrote /\ request'[r].raced = q.raced
  BY <1>9, <1>12, GoesOn
<1>14. IsRow(s) /\ settings[s].name \in w.raced => settings[s].name \in suspect'
  BY <1>10, <1>11
<1>15. suspect \subseteq suspect'
  BY <1>11
<1> HIDE DEF IsRow
<1> QED  BY <1>1, <1>2, <1>3, <1>5, <1>7, <1>9, <1>10, <1>11, <1>12, <1>13, <1>14, <1>15

LEMMA CommitCloseDoes ==
    ASSUME CoreInv, NEW r \in Requests, CommitClose(r)
    PROVE  /\ Works(r) /\ r \in InFlight /\ Same(r) /\ Step(request[r]) = "commitClose"
           /\ request[r].call.op = "close" /\ request[r].team \in TeamIds
           /\ \A s \in Requests \ {r} : request'[s] = request[s]
           /\ teams' = [teams EXCEPT ![request[r].team] = "closed"]
           /\ settings' = [settings EXCEPT ![request[r].team] = Released]
           /\ NoDoubt
           /\ UNCHANGED <<lastTeam, lastSetting, flags, keys, charges>>
<1>1. /\ Works(r) /\ r \in InFlight /\ Step(request[r]) = "commitClose"
      /\ request[r].team \in TeamIds /\ Advance(r, request[r])
      /\ teams' = [teams EXCEPT ![request[r].team] = "closed"]
      /\ settings' = [settings EXCEPT ![request[r].team] = Released]
      /\ UNCHANGED <<lastTeam, lastSetting, flags, keys, charges>>
  BY CommitCloseWorks, AtStep, AtNames DEF CommitClose
<1>2. request[r].call.op = "close"
  <2>1. PICK n : <<"commitClose", n>> \in Follows[request[r].call.op] /\ request[r].call.op \in AllOps
    BY AtStep DEF CommitClose
  <2> QED  BY <2>1, Table
<1>3. Same(r) /\ NoDoubt /\ \A s \in Requests \ {r} : request'[s] = request[s]
  BY <1>1, AdvanceSame, Requesting DEF Advance
<1> QED  BY <1>1, <1>2, <1>3

LEMMA LoadDoes ==
    ASSUME CoreInv, NEW r \in Requests, LoadUser(r)
    PROVE  /\ Works(r) /\ r \in InFlight /\ Step(request[r]) = "load" /\ Nothing /\ NoDoubt
           /\ \A s \in Requests \ {r} : request'[s] = request[s]
           /\ request[r].call.op = "leave" /\ UNCHANGED users
           /\ request'[r].todo # <<>> =>
                 /\ request'[r].team = request[r].team /\ request'[r].row = request[r].row
                 /\ request'[r].name = request[r].name
                 /\ RowsOf(users[Person(r).user].team) # {}
                 /\ request'[r].wrote = request[r].wrote
<1>1. Works(r) /\ r \in InFlight /\ Step(request[r]) = "load" /\ Nothing /\ UNCHANGED users
  BY LoadUserWorks, AtStep DEF LoadUser, Keeps, people
<1>2. request[r].call.op = "leave"
  <2>1. PICK n : <<"load", n>> \in Follows[request[r].call.op] /\ request[r].call.op \in AllOps
    BY AtStep DEF LoadUser
  <2> QED  BY <2>1, Table
<1>3. CASE Refuse(r)
  BY <1>1, <1>2, <1>3, StopSame, StopOthers DEF Refuse
<1>4. CASE ~Refuse(r)
  <2>1. PICK t : t = users[Person(r).user].team
    OBVIOUS
  <2>2. RowsOf(t) # {} /\ Advance(r, [request[r] EXCEPT !.old = NameOf(t)])
    BY <1>4, <2>1 DEF LoadUser
  <2>3. NameOf(t) \in Names
    BY <2>2, NameOfNames
  <2> QED  BY <1>1, <1>2, <2>1, <2>2, <2>3, ReadsOld
<1> QED  BY <1>3, <1>4

LEMMA EraseDoes ==
    ASSUME CoreInv, NEW r \in Requests, EraseUser(r)
    PROVE  /\ WritesOn(r) /\ Step(request[r]) = "erase" /\ request[r].call.op = "leave" /\ NoDoubt
           /\ request[r].team \in TeamIds /\ Person(r).user \in UserIds
           /\ \A s \in Requests \ {r} : request'[s] = request[s]
           /\ teams' = [teams EXCEPT ![request[r].team] = IF @ = "open" THEN "left" ELSE @]
           /\ users' = [users EXCEPT ![Person(r).user] = Gone]
           /\ UNCHANGED <<settings, lastTeam, lastSetting, flags, keys, charges>>
<1>1. /\ Works(r) /\ r \in InFlight /\ Step(request[r]) = "erase" /\ request[r].team \in TeamIds
      /\ request' = [request EXCEPT ![r] = After(Wrote(r))] /\ NoDoubt
  BY EraseUserWorks, AtStep, AtNames DEF EraseUser, Advance
<1>2. request[r].call.op = "leave" /\ Spoken(request[r].call.op, Person(r))
  <2>1. PICK n : <<"erase", n>> \in Follows[request[r].call.op] /\ request[r].call.op \in AllOps
    BY AtStep DEF EraseUser
  <2> QED  BY <1>1, <2>1, Table, Flying
<1>3. Person(r).user \in UserIds
  BY <1>2 DEF Spoken
<1>4. WritesOn(r) /\ \A s \in Requests \ {r} : request'[s] = request[s]
  BY <1>1, WritesOnDoes
<1>5. /\ teams' = [teams EXCEPT ![request[r].team] = IF @ = "open" THEN "left" ELSE @]
      /\ users' = [users EXCEPT ![Person(r).user] = Gone]
      /\ UNCHANGED <<settings, lastTeam, lastSetting, flags, keys, charges>>
  BY DEF EraseUser
<1> QED  BY <1>1, <1>2, <1>3, <1>4, <1>5

LEMMA DropKeysDoes ==
    ASSUME CoreInv, NEW r \in Requests, DropKeys(r)
    PROVE  /\ Works(r) /\ r \in InFlight /\ Same(r) /\ Step(request[r]) = "dropKeys"
           /\ request[r].team \in TeamIds /\ request[r].call.op = "leave" /\ UNCHANGED users
           /\ \A s \in Requests \ {r} : request'[s] = request[s]
           /\ \E dropped \in SUBSET {"availability", "event"} :
                 /\ keys' = [keys EXCEPT ![request[r].team] = @ \ dropped]
                 /\ \/ dropped = {"availability", "event"} /\ NoDoubt
                    \/ Doubts(request[r]) /\ request'[r].todo = <<>>
           /\ UNCHANGED <<teams, settings, lastTeam, lastSetting, flags, charges>>
<1>1. /\ Works(r) /\ r \in InFlight /\ Step(request[r]) = "dropKeys" /\ request[r].team \in TeamIds
      /\ UNCHANGED <<teams, settings, lastTeam, lastSetting, flags, charges>> /\ UNCHANGED users
  BY DropKeysWorks, AtStep, AtNames DEF DropKeys, Keeps, people
<1>2. request[r].call.op = "leave"
  <2>1. PICK n : <<"dropKeys", n>> \in Follows[request[r].call.op] /\ request[r].call.op \in AllOps
    BY AtStep DEF DropKeys
  <2> QED  BY <2>1, Table
<1>3. PICK dropped \in {{"availability"}, {"availability", "event"}} :
          /\ keys' = [keys EXCEPT ![request[r].team] = @ \ dropped]
          /\ IF "event" \in dropped
             THEN Advance(r, request[r]) ELSE Stop(r) /\ Doubts(request[r])
  BY DEF DropKeys
<1>4. CASE "event" \in dropped
  <2>1. Advance(r, request[r]) /\ dropped = {"availability", "event"}
    BY <1>3, <1>4
  <2>2. Same(r) /\ NoDoubt /\ \A s \in Requests \ {r} : request'[s] = request[s]
    BY <1>1, <2>1, AdvanceSame, Requesting DEF Advance
  <2> QED  BY <1>1, <1>2, <1>3, <2>1, <2>2
<1>5. CASE "event" \notin dropped
  <2>1. Stop(r) /\ Doubts(request[r])
    BY <1>3, <1>5
  <2> QED  BY <1>1, <1>2, <1>3, <2>1, StopSame, StopOthers
<1> QED  BY <1>4, <1>5

LEMMA FailDoes ==
    ASSUME CoreInv, NEW r \in Requests, FailAccount(r)
    PROVE  /\ Works(r) /\ r \in InFlight /\ Nothing /\ UNCHANGED users
           /\ request'[r].todo = <<>>
           /\ \A s \in Requests \ {r} : request'[s] = request[s]
           /\ NoDoubt \/ Doubts(request[r])
           /\ request[r].wrote => Doubts(request[r])
<1>1. Works(r) /\ r \in InFlight /\ Nothing /\ Stop(r) /\ UNCHANGED users
  BY FailWorks DEF FailAccount, Fail, people
<1> QED  BY <1>1, StopSame, StopOthers DEF FailAccount, Fail

(* The steps that concern only people and their codes.                       *)
EarlySteps ==
    {"lookUp", "publish", "store", "match", "compare", "mark", "saveTemporary", "temporary",
     "recheck", "status", "search", "evaluate", "find", "findAccount", "saveAccount", "setPhone"}
EarlyStep(r) ==
    \/ LookUp(r) \/ Publish(r) \/ StoreCode(r) \/ MatchCode(r) \/ MarkVerified(r)
    \/ SaveTemporary(r) \/ LoadTemporary(r) \/ Recheck(r) \/ CheckStatus(r) \/ SearchPhone(r)
    \/ Evaluate(r) \/ FindAndSwitch(r) \/ FindAccount(r) \/ SaveAccount(r) \/ SetPhone(r)

LEMMA EarlyLocal ==
    ASSUME CoreInv, NEW r \in Requests, EarlyStep(r)
    PROVE  /\ r \in InFlight /\ Step(request[r]) \in EarlySteps
           /\ NoDoubt /\ Same(r) /\ \A s \in Requests \ {r} : request'[s] = request[s]
<1>1. PICK step \in EarlySteps : Doing(r, step)
  BY DEF EarlyStep, EarlySteps, LookUp, Publish, StoreCode, MatchCode, MarkVerified,
         SaveTemporary, LoadTemporary, Recheck, CheckStatus, SearchPhone, Evaluate,
         FindAndSwitch, FindAccount, SaveAccount, SetPhone
<1>2. r \in InFlight /\ Step(request[r]) \in EarlySteps
  BY <1>1, AtStep
<1>3. CASE Advance(r, request[r]) \/ Advance(r, Wrote(r))
  BY <1>2, <1>3, AdvanceSame, Requesting DEF Advance
<1>4. CASE Refuse(r)
  BY <1>2, <1>4, StopSame, StopOthers DEF Refuse
<1>5. ASSUME NEW todo, Switch(r, request[r], todo)
      PROVE  NoDoubt /\ Same(r) /\ \A s \in Requests \ {r} : request'[s] = request[s]
  <2>1. request[r] \in RequestType
    BY <1>2, Flying
  <2>2. NoDoubt /\ \A s \in Requests \ {r} : request'[s] = request[s]
    BY <1>5, Requesting DEF Switch
  <2>3. CASE todo = <<>>
    <3>1. request' = [request EXCEPT ![r] = Idle(request[r].call)]
      BY <1>5, <2>3 DEF Switch
    <3>2. request'[r] = Idle(request[r].call)
      BY <1>2, <3>1, Becomes
    <3>3. request'[r].todo = <<>>
      BY <3>2 DEF Idle
    <3> QED  BY <2>2, <3>3 DEF Same
  <2>4. CASE todo # <<>>
    <3>1. request' = [request EXCEPT ![r] = [request[r] EXCEPT !.todo = todo]]
      BY <1>5, <2>4 DEF Switch
    <3>2. request'[r] = [request[r] EXCEPT !.todo = todo]
      BY <1>2, <3>1, Becomes
    <3> QED  BY <2>1, <2>2, <3>2 DEF Same, RequestType
  <2> QED  BY <2>3, <2>4
<1>6. \/ Advance(r, request[r]) \/ Advance(r, Wrote(r)) \/ Refuse(r)
      \/ \E todo : Switch(r, request[r], todo)
  BY DEF EarlyStep, LookUp, Publish, StoreCode, MatchCode, MarkVerified,
         SaveTemporary, LoadTemporary, Recheck, CheckStatus, SearchPhone, Evaluate,
         FindAndSwitch, FindAccount, SaveAccount, SetPhone
<1> QED  BY <1>2, <1>3, <1>4, <1>5, <1>6

LEMMA EarlyDoes ==
    ASSUME CoreInv, NEW r \in Requests, EarlyStep(r)
    PROVE  Works(r) /\ Nothing /\ PeopleStand
<1>1. AccountStep(r)
  BY DEF EarlyStep, AccountStep
<1>2. Works(r)
  BY <1>1, AccountWorks
<1>3. Nothing
  BY DEF EarlyStep, LookUp, Publish, StoreCode, MatchCode, MarkVerified,
         SaveTemporary, LoadTemporary, Recheck, CheckStatus, SearchPhone, Evaluate,
         FindAndSwitch, FindAccount, SaveAccount, SetPhone
<1>4. ASSUME UNCHANGED users PROVE PeopleStand
  BY <1>4 DEF PeopleStand, Exists
<1>5. ASSUME SetPhone(r), ~UNCHANGED users PROVE PeopleStand
  <2>1. /\ Exists(Person(r).user)
        /\ users' = [users EXCEPT ![Person(r).user].phone = Address(r)]
    BY <1>5 DEF SetPhone
  <2>2. users \in [UserIds -> UserType \cup {Unused, Gone}]
    BY PeopleAre DEF PeopleOK
  <2>3. ASSUME NEW u \in UserIds, Exists(u)' PROVE Exists(u) /\ users'[u].team = users[u].team
    <3>1. CASE u = Person(r).user
      <4>1. users[u] \in UserType
        BY <2>1, <2>2, <3>1 DEF Exists
      <4>2. users'[u] = [users[u] EXCEPT !.phone = Address(r)]
        BY <2>1, <2>2, <3>1
      <4> QED  BY <2>1, <3>1, <4>1, <4>2 DEF UserType
    <3>2. CASE u # Person(r).user
      <4>1. users'[u] = users[u]
        BY <2>1, <2>2, <3>2
      <4> QED  BY <2>3, <4>1 DEF Exists
    <3> QED  BY <3>1, <3>2
  <2> QED  BY <2>3 DEF PeopleStand
<1>6. UNCHANGED users \/ SetPhone(r)
  BY DEF EarlyStep, LookUp, Publish, StoreCode, MatchCode, MarkVerified,
         SaveTemporary, LoadTemporary, Recheck, CheckStatus, SearchPhone, Evaluate,
         FindAndSwitch, FindAccount, SaveAccount, SetPhone, Learns, Keeps, people
<1> QED  BY <1>2, <1>3, <1>4, <1>5, <1>6

(* The steps of all handlers.                                                *)
LEMMA StepsAll ==
    ASSUME NEW r \in Requests,
           (WorkspacesStep(r) /\ Keeps) \/ AccountStep(r) \/ FailAccount(r)
    PROVE  \/ EarlyStep(r) \/ FailAccount(r) \/ CommitSignUp(r) \/ LoadUser(r) \/ EraseUser(r)
           \/ DropKeys(r)
           \/ Keeps /\ (\/ Look(r) \/ InsertTeam(r) \/ InsertSetting(r) \/ CheckFlag(r)
                        \/ DropFlag(r) \/ SetFlag(r) \/ Charge(r) \/ SetKeys(r) \/ CommitTeam(r)
                        \/ SaveInvitations(r) \/ ReadName(r) \/ WriteName(r) \/ ReleaseRow(r)
                        \/ Unflag(r) \/ CommitClose(r))
BY DEF WorkspacesStep, AccountStep, EarlyStep

(* What comes in.                                                            *)
LEMMA BeginIs ==
    ASSUME CoreInv, NEW r \in Requests, NEW call, NEW todo, NEW t, NEW n, Begin(r, call, todo, t, n)
    PROVE  /\ request'[r].team = t /\ request'[r].name = n /\ request'[r].row = NoTeam
           /\ request'[r].old = NoName /\ request'[r].wrote = FALSE /\ request'[r].call = call
           /\ \A s \in Requests \ {r} : request'[s] = request[s]
<1>1. request' = [request EXCEPT ![r] = [Idle(call) EXCEPT !.todo = todo, !.team = t, !.name = n]]
  BY DEF Begin
<1>2. PICK p : p = [Idle(call) EXCEPT !.todo = todo, !.team = t, !.name = n]
  OBVIOUS
<1>3. /\ p.team = t /\ p.name = n /\ p.row = NoTeam /\ p.old = NoName /\ p.wrote = FALSE
      /\ p.call = call
  BY <1>2 DEF Idle
<1>4. request'[r] = p /\ \A s \in Requests \ {r} : request'[s] = request[s]
  BY <1>1, <1>2, Requesting
<1> QED  BY <1>3, <1>4

LEMMA ComesOthers ==
    ASSUME CoreInv, NEW r \in Requests, NEW call, Comes(r, call)
    PROVE  OthersKept(r)
BY DEF Comes, OthersKept, Kept

(* A request that comes in knows its team, if it has one.                    *)
KnowsTeam(r, call) ==
    IF call.op \in {"rename", "close", "leave"}
    THEN request'[r].team \in TeamIds /\ teams[request'[r].team] # "unused"
    ELSE request'[r].team = NoTeam

LEMMA ReceiveGiven ==
    ASSUME CoreInv, NEW r \in Requests, NEW call \in Calls, Receive(r, call)
    PROVE  KnowsTeam(r, call) /\ Nothing /\ call.op \in Ops
<1>1. Nothing
  BY DEF Receive
<1>2. CASE call.op = "newTeam" /\ Begin(r, call, NewTeamSteps, NoTeam, call.name)
  <2>1. PICK todo, n : todo = NewTeamSteps /\ n = call.name
    OBVIOUS
  <2>2. request'[r].team = NoTeam
    <3>1. Begin(r, call, todo, NoTeam, n)
      BY <1>2, <2>1
    <3>2. request' = [request EXCEPT ![r] = [Idle(call) EXCEPT !.todo = todo, !.team = NoTeam, !.name = n]]
      BY <3>1 DEF Begin
    <3> QED  BY <3>2, Requesting DEF Idle
  <2> QED  BY <1>1, <1>2, <2>2 DEF KnowsTeam, Ops
<1>3. CASE /\ call.op \in {"rename", "close"} /\ teams[call.team] # "unused"
           /\ \E todo, n : Begin(r, call, todo, call.team, n)
  <2>1. PICK todo, n : Begin(r, call, todo, call.team, n)
    BY <1>3
  <2>2. request'[r].team = call.team
    <3>1. PICK t : t = call.team
      OBVIOUS
    <3>2. Begin(r, call, todo, t, n)
      BY <2>1, <3>1
    <3>3. request' = [request EXCEPT ![r] = [Idle(call) EXCEPT !.todo = todo, !.team = t, !.name = n]]
      BY <3>2 DEF Begin
    <3> QED  BY <3>1, <3>3, Requesting DEF Idle
  <2>3. call.team \in TeamIds
    BY <1>3, CallFacts
  <2> QED  BY <1>1, <1>3, <2>2, <2>3 DEF KnowsTeam, Ops
<1> QED  BY <1>2, <1>3 DEF Receive

LEMMA AccountGiven ==
    ASSUME CoreInv, CountersInv, NEW r \in Requests, NEW call \in Calls, ReceiveAccount(r, call)
    PROVE  /\ KnowsTeam(r, call) /\ Nothing /\ UNCHANGED users /\ call.op \in AccountOps
           /\ call.op = "leave" =>
                 /\ Exists(call.person.user) /\ call.person.user \in UserIds
                 /\ request'[r].team = users[call.person.user].team
<1>1. PICK p : p = call.person
  OBVIOUS
<1>2. PICK home : home = IF call.op = "leave" THEN users[p.user].team ELSE NoTeam
  OBVIOUS
<1>3. PICK n : n = IF call.op \in {"emailSignUp", "phoneSignUp", "oauth", "integrate"}
                   THEN BaseName[p.address] ELSE NoName
  OBVIOUS
<1>4. /\ Begin(r, call, Todo(call), home, n) /\ call.op \in AccountOps
      /\ (p.user # NoOne => Exists(p.user))
      /\ Nothing /\ UNCHANGED users
  BY <1>1, <1>2, <1>3 DEF ReceiveAccount, people
<1>5. request'[r].team = home
  BY <1>4, BeginIs
<1>6. CASE call.op = "leave"
  <2>1. p.user \in UserIds /\ NoOne \notin UserIds
    BY <1>1, <1>6, CallFacts, AccountsAssumption DEF Spoken
  <2>2. Exists(p.user)
    BY <1>4, <2>1
  <2>3. users[p.user].team \in TeamIds
    BY <2>1, <2>2, PeopleAre DEF PeopleOK, Exists, UserType
  <2>4. teams[home] # "unused" /\ home \in TeamIds
    BY <1>2, <1>6, <2>1, <2>2, <2>3 DEF CountersInv
  <2> QED  BY <1>1, <1>2, <1>4, <1>5, <1>6, <2>1, <2>2, <2>4 DEF KnowsTeam
<1>7. CASE call.op # "leave"
  BY <1>2, <1>4, <1>5, <1>7 DEF KnowsTeam, AccountOps
<1> QED  BY <1>6, <1>7

LEMMA ComesNumbers ==
    ASSUME CoreInv, NumbersInv, NEW r \in Requests, NEW call \in Calls, Comes(r, call),
           KnowsTeam(r, call), Nothing, UNCHANGED users
    PROVE  NumbersInv'
<1>1. OthersKept(r) /\ r \notin InFlight
  BY ComesOthers DEF Comes
<1>2. CountersInv'
  <2>1. TablesStand
    BY NothingStands
  <2>2. PeopleStand
    BY DEF PeopleStand, Exists
  <2> QED  BY <2>1, <2>2, CountersStand DEF NumbersInv
<1>3. /\ request'[r].call = call /\ Step(request'[r]) = Start[call.op] /\ call.op \in AllOps
  BY CallFacts DEF Comes
<1>4. /\ Start[call.op] \notin {"setting", "check", "flag", "charge", "keys", "commit",
                                "invite", "commitUser"}
      /\ call.op = "close" => Start[call.op] = "release"
  BY <1>3 DEF AllOps, Ops, AccountOps, Start
<1>5. /\ ~NewTeam(request'[r]) /\ ~NewRow(request'[r]) /\ ~Closing(request'[r])
      /\ OldTeam(request'[r]) <=> call.op \in {"rename", "close", "leave"}
  BY <1>3, <1>4 DEF NewTeam, NewRow, Closing, OldTeam
<1>6. UNCHANGED <<teams, settings, lastTeam, lastSetting>>
  BY DEF Nothing
<1>7. ASSUME NEW s \in InFlight'
      PROVE  TeamInv(s)'
  <2>1. CASE s = r
    BY <1>5, <1>6, <2>1 DEF TeamInv, KnowsTeam
  <2>2. CASE s # r
    <3>1. s \in InFlight /\ TeamInv(s)
      BY <1>1, <2>2, OthersStand DEF NumbersInv
    <3>2. lastTeam \in Int /\ lastSetting \in Int
      BY TeamInts
    <3> QED  BY <1>1, <1>6, <2>2, <3>1, <3>2, TeamKept DEF TeamInv
  <2> QED  BY <2>1, <2>2
<1>8. ApartInv'
  BY <1>1, <1>5, ApartKept DEF Apart
<1> QED  BY <1>2, <1>7, <1>8 DEF NumbersInv

LEMMA CommitSignUpNumbers ==
    ASSUME CoreInv, NumbersInv, NEW r \in Requests, CommitSignUp(r)
    PROVE  NumbersInv'
<1>1. Doing(r, "commitUser") /\ ShowTeam(r)
  BY DEF CommitSignUp
<1>2. PICK v \in UserIds : users' = [users EXCEPT ![v] = NewUser(r)]
  BY DEF CommitSignUp
<1>3. users \in [UserIds -> UserType \cup {Unused, Gone}]
  BY PeopleAre DEF PeopleOK
<1>4. ASSUME NEW u \in UserIds, Exists(u)'
      PROVE  \/ Exists(u) /\ users'[u].team = users[u].team
             \/ users'[u].team = request[r].team
  <2>1. CASE u = v
    <3>1. users'[u] = NewUser(r)
      BY <1>2, <1>3, <2>1
    <3> QED  BY <3>1 DEF NewUser
  <2>2. CASE u # v
    <3>1. users'[u] = users[u]
      BY <1>2, <1>3, <2>2
    <3> QED  BY <1>4, <3>1 DEF Exists
  <2> QED  BY <2>1, <2>2
<1> QED  BY <1>1, <1>4, ShowTeamNumbers

LEMMA EraseNumbers ==
    ASSUME CoreInv, NumbersInv, NEW r \in Requests, EraseUser(r)
    PROVE  NumbersInv'
<1>1. /\ WritesOn(r) /\ Step(request[r]) = "erase" /\ request[r].team \in TeamIds
      /\ teams' = [teams EXCEPT ![request[r].team] = IF @ = "open" THEN "left" ELSE @]
      /\ users' = [users EXCEPT ![Person(r).user] = Gone]
      /\ UNCHANGED <<settings, lastTeam, lastSetting, flags, keys, charges>>
  BY EraseDoes
<1>2. /\ teams \in [TeamIds -> {"unused", "open", "closed", "left"}]
      /\ users \in [UserIds -> UserType \cup {Unused, Gone}]
  BY TablesAre, PeopleAre DEF Tables, PeopleOK
<1>3. TablesStand
  BY <1>1, <1>2 DEF TablesStand, IsRow
<1>4. ASSUME NEW u \in UserIds, Exists(u)' PROVE Exists(u) /\ users'[u].team = users[u].team
  <2>1. users'[u] = users[u]
    BY <1>1, <1>2, <1>4 DEF Exists
  <2> QED  BY <1>4, <2>1 DEF Exists
<1>5. PeopleStand
  BY <1>4 DEF PeopleStand
<1> QED  BY <1>1, <1>3, <1>5, NumbersStand DEF WritesOn, Same, SameTeam

LEMMA CloseNumbers ==
    ASSUME CoreInv, NumbersInv, NEW r \in Requests, CommitClose(r), Keeps
    PROVE  NumbersInv'
<1>1. /\ Works(r) /\ r \in InFlight /\ Same(r) /\ Step(request[r]) = "commitClose"
      /\ request[r].call.op = "close" /\ request[r].team \in TeamIds
      /\ teams' = [teams EXCEPT ![request[r].team] = "closed"]
      /\ settings' = [settings EXCEPT ![request[r].team] = Released]
      /\ UNCHANGED <<lastTeam, lastSetting, flags, keys, charges>>
  BY CommitCloseDoes
<1>2. PICK t : t = request[r].team
  OBVIOUS
<1>3. teams[t] # "unused" /\ settings[t] # Unused
  BY <1>1, <1>2 DEF NumbersInv, TeamInv, OldTeam, Closing
<1>4. Unused # Released
  BY WorkspacesAssumption
<1>5. /\ teams \in [TeamIds -> {"unused", "open", "closed", "left"}]
      /\ settings \in [TeamIds -> Rows \cup {Unused, Released}]
  BY TablesAre DEF Tables
<1>6. /\ teams'[t] = "closed" /\ \A k \in TeamIds : k # t => teams'[k] = teams[k]
      /\ settings'[t] = Released /\ \A k \in TeamIds : k # t => settings'[k] = settings[k]
  BY <1>1, <1>2, <1>5
<1>7. /\ \A k \in TeamIds : teams'[k] = "unused" <=> teams[k] = "unused"
      /\ \A k \in TeamIds : settings'[k] = Unused <=> settings[k] = Unused
  BY <1>3, <1>4, <1>6
<1>8. \A k \in TeamIds : IsRow(k)' => IsRow(k) /\ settings'[k].team = settings[k].team
  BY <1>6 DEF IsRow
<1>9. TablesStand
  BY <1>1, <1>7, <1>8 DEF TablesStand
<1> QED  BY <1>1, <1>9, KeepsStands, NumbersStand DEF Same, SameTeam

LEMMA WriteNumbers ==
    ASSUME CoreInv, NumbersInv, NEW r \in Requests, WriteName(r), Keeps
    PROVE  NumbersInv'
<1>1. /\ WritesOn(r) /\ Step(request[r]) = "row"
      /\ \A s \in RowsOf(request[r].team) :
            settings'[s] = Row(request[r].team, request[r].name)
      /\ \A s \in TeamIds \ RowsOf(request[r].team) : settings'[s] = settings[s]
      /\ UNCHANGED <<teams, lastTeam, lastSetting, flags, keys, charges>>
      /\ request[r].team \in TeamIds /\ request[r].name \in Names
  BY WriteDoes
<1>2. ASSUME NEW s \in TeamIds
      PROVE  /\ settings'[s] = Unused <=> settings[s] = Unused
             /\ IsRow(s)' => IsRow(s) /\ settings'[s].team = settings[s].team
  <2>1. CASE s \in RowsOf(request[r].team)
    <3>1. IsRow(s) /\ settings[s].team = request[r].team
      BY <2>1 DEF RowsOf
    <3>2. settings'[s] = Row(request[r].team, request[r].name)
      BY <1>1, <2>1
    <3>3. settings'[s].team = request[r].team
      BY <3>2 DEF Row
    <3>4. settings'[s] # Unused
      <4>1. settings'[s] \in [team : TeamIds, name : Names]
        BY <1>1, <3>2 DEF Row
      <4> QED  BY <4>1, WorkspacesAssumption
    <3> QED  BY <3>1, <3>3, <3>4 DEF IsRow
  <2>2. CASE s \notin RowsOf(request[r].team)
    BY <1>1, <2>2 DEF IsRow
  <2> QED  BY <2>1, <2>2
<1>3. TablesStand
  BY <1>1, <1>2 DEF TablesStand
<1> QED  BY <1>1, <1>3, KeepsStands, NumbersStand DEF WritesOn, Same, SameTeam

LEMMA InitNumbers == Init => NumbersInv
<1> SUFFICES ASSUME Init PROVE NumbersInv
  OBVIOUS
<1>1. CoreInv /\ InFlight = {}
  BY InitCore, InitTeams DEF Init
<1>2. Unused \notin Names /\ Given \in [TeamIds -> Names \cup {Unused}]
      /\ {Unused, Released} \cap [team : TeamIds, name : Names] = {}
  BY WorkspacesAssumption
<1>3. ASSUME NEW t \in TeamIds, IsGiven(t) PROVE t <= lastTeam /\ t <= lastSetting
  <2>1. IsFiniteSet(TeamIds) /\ TeamIds = 1..Cardinality(TeamIds)
        /\ \A i, j \in TeamIds : i < j /\ Given[j] # Unused => Given[i] # Unused
    BY WorkspacesAssumption
  <2>2. Cardinality(TeamIds) \in Nat
    BY <2>1, FS_CardinalityType
  <2>3. t \in Nat /\ 1..t \subseteq Made
    BY <1>3, <2>1, <2>2 DEF Made, IsGiven
  <2>4. IsFiniteSet(Made) /\ Made \subseteq TeamIds
    BY <2>1, FS_Subset DEF Made
  <2>5. Cardinality(1..t) <= Cardinality(Made)
    BY <2>3, <2>4, FS_Subset
  <2>6. Cardinality(1..t) = t
    BY <2>3, FS_Interval
  <2> QED  BY <2>5, <2>6 DEF Init, WorkspacesInit
<1>4. ASSUME NEW t \in TeamIds
      PROVE  /\ teams[t] # "unused" <=> IsGiven(t)
             /\ settings[t] # Unused <=> IsGiven(t)
             /\ IsRow(t) <=> IsGiven(t)
             /\ IsRow(t) => settings[t].team = t
  <2>1. teams[t] = (IF IsGiven(t) THEN "open" ELSE "unused")
    BY DEF Init, WorkspacesInit
  <2>2. settings[t] = (IF IsGiven(t) THEN Row(t, Given[t]) ELSE Unused)
    BY DEF Init, WorkspacesInit
  <2>3. CASE IsGiven(t)
    <3>1. Given[t] \in Names
      BY <1>2, <2>3 DEF IsGiven
    <3>2. Row(t, Given[t]) \in [team : TeamIds, name : Names] /\ Row(t, Given[t]).team = t
      BY <3>1 DEF Row
    <3> QED  BY <1>2, <2>1, <2>2, <2>3, <3>2 DEF IsRow
  <2>4. CASE ~IsGiven(t)
    BY <2>1, <2>2, <2>4 DEF IsRow
  <2> QED  BY <2>3, <2>4
<1>5. ASSUME NEW u \in UserIds, Exists(u) PROVE teams[users[u].team] # "unused"
  <2>1. PICK s \in Starts : users = s.users
    BY DEF Init
  <2>2. IsGiven(users[u].team)
    BY <1>5, <2>1, AccountsAssumption DEF Exists
  <2>3. users[u].team \in TeamIds
    BY <1>1, <1>5, PeopleAre DEF PeopleOK, Exists, UserType
  <2> QED  BY <1>4, <2>2, <2>3
<1>6. CountersInv
  BY <1>3, <1>4, <1>5 DEF CountersInv
<1> QED  BY <1>1, <1>6 DEF NumbersInv, ApartInv

LEMMA SimpleNumbers ==
    ASSUME CoreInv, NumbersInv, NEW r \in Requests, Keeps,
           \/ Look(r) \/ CheckFlag(r) \/ DropFlag(r) \/ SetFlag(r) \/ Charge(r) \/ SetKeys(r)
           \/ SaveInvitations(r) \/ ReadName(r) \/ Unflag(r)
    PROVE  NumbersInv'
<1>1. PeopleStand
  BY KeepsStands
<1> SUFFICES /\ Works(r) /\ TablesStand /\ SameTeam(r)
             /\ Step(request[r]) \notin {"team", "setting", "commit", "release"}
  BY <1>1, NumbersStand
<1>2. CASE Look(r)
  BY <1>2, LookDoes, NothingStands
<1>3. CASE CheckFlag(r)
  BY <1>3, CheckDoes, NothingStands DEF SameTeam
<1>4. ASSUME UNCHANGED <<teams, settings, lastTeam, lastSetting>> PROVE TablesStand
  BY <1>4 DEF TablesStand, IsRow
<1>5. CASE DropFlag(r)
  BY <1>4, <1>5, DropDoes DEF WritesOn, Same, SameTeam
<1>6. CASE SetFlag(r)
  BY <1>4, <1>6, SetFlagDoes DEF WritesOn, Same, SameTeam
<1>7. CASE Charge(r)
  BY <1>4, <1>7, ChargeDoes DEF WritesOn, Same, SameTeam
<1>8. CASE SetKeys(r)
  BY <1>4, <1>8, SetKeysDoes DEF Same, SameTeam
<1>9. CASE SaveInvitations(r)
  BY <1>4, <1>9, InviteDoes DEF Same, SameTeam
<1>10. CASE ReadName(r)
  BY <1>10, ReadDoes, NothingStands DEF SameTeam
<1>11. CASE Unflag(r)
  BY <1>4, <1>11, UnflagDoes DEF SameTeam
<1> QED  BY <1>2, <1>3, <1>5, <1>6, <1>7, <1>8, <1>9, <1>10, <1>11

LEMMA StoppedNumbers ==
    ASSUME CoreInv, NumbersInv, NEW r, Works(r), TablesStand, PeopleStand,
           request'[r].todo = <<>>
    PROVE  NumbersInv'
<1>1. CountersInv'
  BY CountersStand DEF NumbersInv
<1>2. r \in InFlight /\ OthersKept(r) /\ r \notin InFlight'
  BY DEF Works, InFlight
<1>3. ASSUME NEW s \in InFlight' PROVE TeamInv(s)'
  <2>1. s # r /\ s \in InFlight
    BY <1>2, <1>3, OthersStand
  <2>2. /\ NewTeam(request[s]) \/ OldTeam(request[s]) => request[s].team \in TeamIds
        /\ NewRow(request[s]) => request[s].row \in TeamIds
    BY <2>1, TeamsOf
  <2>3. TeamInv(s) /\ lastTeam \in Int /\ lastSetting \in Int
    BY <2>1, TeamInts DEF NumbersInv
  <2>4. /\ NewTeam(request[s]) => teams'[request[s].team] = "unused"
        /\ NewRow(request[s]) => settings'[request[s].row] = Unused
    BY <2>2, <2>3 DEF TeamInv, TablesStand
  <2> QED  BY <1>2, <1>3, <2>1, <2>3, <2>4, TeamKept DEF TablesStand
<1>4. ApartInv'
  BY <1>2, ApartKept
<1> QED  BY <1>1, <1>3, <1>4 DEF NumbersInv

LEMMA OtherNumbers ==
    ASSUME CoreInv, NumbersInv, NEW r \in Requests,
           EarlyStep(r) \/ FailAccount(r) \/ LoadUser(r) \/ DropKeys(r)
    PROVE  NumbersInv'
<1>1. ASSUME UNCHANGED users PROVE PeopleStand
  BY <1>1 DEF PeopleStand, Exists
<1>2. ASSUME UNCHANGED <<teams, settings, lastTeam, lastSetting>> PROVE TablesStand
  BY <1>2 DEF TablesStand, IsRow
<1> SUFFICES /\ Works(r) /\ TablesStand /\ PeopleStand /\ SameTeam(r)
             /\ \/ request'[r].todo = <<>>
                \/ Step(request[r]) \notin {"team", "setting", "commit", "release"}
  <2>1. CASE Step(request[r]) \in {"team", "setting", "commit"} /\ request'[r].todo = <<>>
    BY <2>1, StoppedNumbers
  <2>2. CASE Step(request[r]) \notin {"team", "setting", "commit"}
    BY <2>2, NumbersStand
  <2> QED  BY <2>1, <2>2
<1>3. CASE EarlyStep(r)
  BY <1>3, EarlyLocal, EarlyDoes, NothingStands DEF Same, SameTeam, EarlySteps
<1>4. CASE FailAccount(r)
  BY <1>1, <1>4, FailDoes, NothingStands DEF SameTeam
<1>5. CASE LoadUser(r)
  BY <1>1, <1>5, LoadDoes, NothingStands DEF SameTeam
<1>6. CASE DropKeys(r)
  BY <1>1, <1>2, <1>6, DropKeysDoes DEF Same, SameTeam
<1> QED  BY <1>3, <1>4, <1>5, <1>6

LEMMA NextNumbers == CoreInv /\ NumbersInv /\ [Next]_vars => NumbersInv'
<1> SUFFICES ASSUME CoreInv, NumbersInv, [Next]_vars PROVE NumbersInv'
  OBVIOUS
<1>1. ASSUME NEW r \in Requests, NEW call \in Calls, Receive(r, call) /\ Keeps
      PROVE  NumbersInv'
  BY <1>1, ReceiveCore, ReceiveGiven, ComesNumbers DEF Keeps, people
<1>2. ASSUME NEW r \in Requests, NEW call \in Calls, ReceiveAccount(r, call)
      PROVE  NumbersInv'
  BY <1>2, AccountCore, AccountGiven, ComesNumbers DEF NumbersInv
<1>3. ASSUME NEW r \in Requests,
             (WorkspacesStep(r) /\ Keeps) \/ AccountStep(r) \/ FailAccount(r)
      PROVE  NumbersInv'
  <2>1. CASE EarlyStep(r) \/ FailAccount(r) \/ LoadUser(r) \/ DropKeys(r)
    BY <2>1, OtherNumbers
  <2>2. CASE CommitSignUp(r)
    BY <2>2, CommitSignUpNumbers
  <2>3. CASE EraseUser(r)
    BY <2>3, EraseNumbers
  <2>4. CASE Keeps /\ (\/ Look(r) \/ CheckFlag(r) \/ DropFlag(r) \/ SetFlag(r) \/ Charge(r)
                      \/ SetKeys(r) \/ SaveInvitations(r) \/ ReadName(r) \/ Unflag(r))
    BY <2>4, SimpleNumbers
  <2>5. CASE Keeps /\ InsertTeam(r)
    BY <2>5, InsertTeamNumbers DEF Keeps, people
  <2>6. CASE Keeps /\ InsertSetting(r)
    BY <2>6, InsertSettingNumbers DEF Keeps, people
  <2>7. CASE Keeps /\ CommitTeam(r)
    BY <2>7, ShowTeamNumbers DEF CommitTeam, Keeps, people, Exists
  <2>8. CASE Keeps /\ WriteName(r)
    BY <2>8, WriteNumbers
  <2>9. CASE Keeps /\ ReleaseRow(r)
    BY <2>9, ReleaseNumbers
  <2>10. CASE Keeps /\ CommitClose(r)
    BY <2>10, CloseNumbers
  <2> QED  BY <1>3, <2>1, <2>2, <2>3, <2>4, <2>5, <2>6, <2>7, <2>8, <2>9, <2>10, StepsAll
<1>4. ASSUME UNCHANGED wsVars, UNCHANGED users PROVE NumbersInv'
  BY <1>4 DEF wsVars, NumbersInv, CountersInv, ApartInv, Apart, TeamInv, InFlight, IsRow, Exists,
              NewTeam, NewRow, OldTeam, Closing, Step
<1>5. ASSUME NEW a \in Addresses, Expire(a) PROVE NumbersInv'
  BY <1>4, <1>5 DEF Expire
<1>6. CASE UNCHANGED vars
  BY <1>4, <1>6 DEF vars, people
<1> QED  BY <1>1, <1>2, <1>3, <1>5, <1>6 DEF Next

LEMMA NumbersCorrect == Spec => [](CoreInv /\ NumbersInv)
<1>1. Init => CoreInv /\ NumbersInv
  BY InitCore, InitNumbers
<1>2. (CoreInv /\ NumbersInv) /\ [Next]_vars => (CoreInv /\ NumbersInv)'
  BY NextCore, NextNumbers
<1> QED  BY <1>1, <1>2, PTL DEF Spec

(* The steps that make a team and its settings.                              *)
LEMMA InsertTeamDoes ==
    ASSUME CoreInv, NEW r \in Requests, InsertTeam(r)
    PROVE  /\ Works(r) /\ r \in InFlight /\ Step(request[r]) = "team" /\ NoDoubt
           /\ request[r].call.op \in Making
           /\ \A s \in Requests \ {r} : request'[s] = request[s]
           /\ lastTeam + 1 \in TeamIds /\ lastTeam' = lastTeam + 1
           /\ request'[r].todo # <<>> =>
                 /\ request'[r].team = lastTeam + 1 /\ request'[r].call = request[r].call
                 /\ Step(request'[r]) = "setting"
           /\ UNCHANGED <<teams, settings, lastSetting, flags, keys, charges>>
<1>1. Works(r) /\ r \in InFlight /\ Step(request[r]) = "team" /\ request[r] \in RequestType
  BY InsertWorks, AtStep DEF InsertTeam
<1>2. PICK n : <<"team", n>> \in Follows[request[r].call.op] /\ request[r].call.op \in AllOps
  BY AtStep DEF InsertTeam
<1>3. request[r].call.op \in Making
  BY <1>2, Table
<1>4. PICK q : q = [request[r] EXCEPT !.team = lastTeam + 1]
  OBVIOUS
<1>5. /\ lastTeam + 1 \in TeamIds /\ lastTeam' = lastTeam + 1 /\ NoDoubt
      /\ UNCHANGED <<teams, settings, lastSetting, flags, keys, charges>>
      /\ request' = [request EXCEPT ![r] = After(q)]
  BY <1>4 DEF InsertTeam, Advance
<1>6. q \in RequestType /\ q.todo = request[r].todo /\ q.team = lastTeam + 1
  BY <1>1, <1>4, <1>5 DEF RequestType
<1>7. request'[r] = After(q) /\ \A s \in Requests \ {r} : request'[s] = request[s]
  BY <1>1, <1>5, Becomes, Requesting
<1>8. ASSUME request'[r].todo # <<>>
      PROVE  request'[r].team = lastTeam + 1 /\ Step(request'[r]) = "setting"
             /\ request'[r].call = request[r].call
  <2>1. <<"team", Step(request'[r])>> \in Follows[request[r].call.op]
        /\ request'[r].call = request[r].call
    BY <1>1, <1>8, IdleType, Flying DEF Works
  <2>2. Step(request'[r]) = "setting"
    BY <1>2, <2>1, Table
  <2> QED  BY <1>6, <1>7, <1>8, <2>1, <2>2, GoesOn
<1> QED  BY <1>1, <1>3, <1>5, <1>7, <1>8

LEMMA InsertSettingDoes ==
    ASSUME CoreInv, NEW r \in Requests, InsertSetting(r)
    PROVE  /\ Works(r) /\ r \in InFlight /\ Step(request[r]) = "setting"
           /\ request[r].call.op \in Making
           /\ \A s \in Requests \ {r} : request'[s] = request[s]
           /\ skewed' = (skewed \/ lastSetting + 1 # request[r].team)
           /\ request'[r].todo # <<>> =>
                 /\ request'[r].row = lastSetting + 1 /\ request'[r].team = request[r].team
                 /\ Step(request'[r]) = "check" /\ request'[r].call = request[r].call
           /\ UNCHANGED <<teams, settings, lastTeam, flags, keys, charges, suspect, torn>>
<1>1. Works(r) /\ r \in InFlight /\ Step(request[r]) = "setting" /\ request[r] \in RequestType
  BY InsertWorks, AtStep DEF InsertSetting
<1>2. PICK n : <<"setting", n>> \in Follows[request[r].call.op] /\ request[r].call.op \in AllOps
  BY AtStep DEF InsertSetting
<1>3. request[r].call.op \in Making
  BY <1>2, Table
<1>4. PICK q : q = [request[r] EXCEPT !.row = lastSetting + 1]
  OBVIOUS
<1>5. /\ lastSetting + 1 \in TeamIds
      /\ skewed' = (skewed \/ lastSetting + 1 # request[r].team)
      /\ UNCHANGED <<teams, settings, lastTeam, flags, keys, charges, suspect, torn>>
      /\ request' = [request EXCEPT ![r] = After(q)]
  BY <1>4 DEF InsertSetting
<1>6. /\ q \in RequestType /\ q.todo = request[r].todo /\ q.row = lastSetting + 1
      /\ q.team = request[r].team
  BY <1>1, <1>4, <1>5 DEF RequestType
<1>7. request'[r] = After(q) /\ \A s \in Requests \ {r} : request'[s] = request[s]
  BY <1>1, <1>5, Becomes, Requesting
<1>8. ASSUME request'[r].todo # <<>>
      PROVE  /\ request'[r].row = lastSetting + 1 /\ request'[r].team = request[r].team
             /\ Step(request'[r]) = "check" /\ request'[r].call = request[r].call
  <2>1. <<"setting", Step(request'[r])>> \in Follows[request[r].call.op]
        /\ request'[r].call = request[r].call
    BY <1>1, <1>8, IdleType, Flying DEF Works
  <2>2. Step(request'[r]) = "check"
    BY <1>2, <2>1, Table
  <2> QED  BY <1>6, <1>7, <1>8, <2>1, <2>2, GoesOn
<1> QED  BY <1>1, <1>3, <1>5, <1>7, <1>8

LEMMA ShowDoes ==
    ASSUME CoreInv, NumbersInv, NEW r \in Requests,
           Doing(r, "commit") \/ Doing(r, "commitUser"), ShowTeam(r)
    PROVE  /\ WritesOn(r) /\ NoDoubt /\ request[r].call.op \in Making
           /\ Step(request[r]) \in {"commit", "commitUser"}
           /\ Step(request[r]) = "commit" =>
                 request'[r].todo # <<>> /\ Step(request'[r]) = "invite"
           /\ Step(request[r]) = "commitUser" => request'[r].todo = <<>>
           /\ \A s \in Requests \ {r} : request'[s] = request[s]
           /\ NewTeam(request[r]) /\ NewRow(request[r])
           /\ request[r].team \in TeamIds /\ request[r].row \in TeamIds
           /\ teams[request[r].team] = "unused" /\ settings[request[r].row] = Unused
           /\ request[r].name \in Names
           /\ teams' = [teams EXCEPT ![request[r].team] = "open"]
           /\ settings' = [settings EXCEPT ![request[r].row] =
                              Row(request[r].team, request[r].name)]
           /\ UNCHANGED <<lastTeam, lastSetting, flags, keys, charges>>
<1>1. /\ Works(r) /\ r \in InFlight /\ request[r] \in RequestType
      /\ Step(request[r]) \in {"commit", "commitUser"} /\ request[r].call.op \in Making
      /\ request[r].team \in TeamIds /\ request[r].row \in TeamIds
  BY ShowTeamWorks, AtStep, AtNames
<1>2. NewTeam(request[r]) /\ NewRow(request[r])
  BY <1>1 DEF NewTeam, NewRow
<1>3. teams[request[r].team] = "unused" /\ settings[request[r].row] = Unused
  BY <1>1, <1>2 DEF NumbersInv, TeamInv
<1>4. PICK w : w = Wrote(r)
  OBVIOUS
<1>5. w.team = request[r].team /\ w.row = request[r].row /\ w.name = request[r].name
  BY <1>1, <1>4, WroteIs
<1>6. /\ teams' = [teams EXCEPT ![w.team] = "open"]
      /\ settings' = [settings EXCEPT ![w.row] = Row(w.team, w.name)]
      /\ UNCHANGED <<lastTeam, lastSetting, flags, keys, charges>>
      /\ request' = [request EXCEPT ![r] = After(Wrote(r))] /\ NoDoubt
  BY <1>4 DEF ShowTeam, Advance
<1>7. WritesOn(r) /\ \A s \in Requests \ {r} : request'[s] = request[s]
  BY <1>1, <1>6, WritesOnDoes
<1>8. request[r].name \in Names
  BY <1>1, Flying DEF WellFormed
<1>9. request'[r] = After(Wrote(r)) /\ Wrote(r).todo = request[r].todo
  BY <1>1, <1>6, Becomes, WroteIs
<1>10. /\ Going(Rests[request[r].call.op], Follows[request[r].call.op], request[r].todo)
       /\ Head(request[r].todo) = Step(request[r]) /\ request[r].call.op \in AllOps
  BY <1>1, Flying
<1>11. <<Step(request[r]), NextStep(Tail(request[r].todo))>> \in Follows[request[r].call.op]
  BY <1>10 DEF Going
<1>12. PICK n : n = NextStep(Tail(request[r].todo))
  OBVIOUS
<1>13. CASE Step(request[r]) = "commit"
  <2>1. n = "invite"
    BY <1>10, <1>11, <1>12, <1>13, Table
  <2>2. Tail(request[r].todo) # <<>> /\ Head(Tail(request[r].todo)) = "invite"
    BY <1>12, <2>1 DEF NextStep
  <2>3. request'[r].todo = Tail(request[r].todo)
    <3>1. PICK q : q = Wrote(r)
      OBVIOUS
    <3>2. q.todo = request[r].todo /\ request'[r] = After(q) /\ q \in RequestType
      BY <1>1, <1>9, <3>1, WroteIs
    <3> QED  BY <2>2, <3>2 DEF After, RequestType
  <2> QED  BY <1>1, <1>2, <1>3, <1>5, <1>6, <1>7, <1>8, <1>13, <2>2, <2>3 DEF Step
<1>14. CASE Step(request[r]) = "commitUser"
  <2>1. n = "none"
    BY <1>10, <1>11, <1>12, <1>14, Table
  <2>2. Tail(request[r].todo) = <<>>
    <3>1. ASSUME Tail(request[r].todo) \in Rests[request[r].call.op] PROVE FALSE
      <4>1. Going(Rests[request[r].call.op], Follows[request[r].call.op], Tail(request[r].todo))
        BY <1>10, <3>1, AllGoing
      <4>2. PICK m : <<Head(Tail(request[r].todo)), m>> \in Follows[request[r].call.op]
                     /\ Tail(request[r].todo) # <<>>
        BY <4>1 DEF Going
      <4>3. Head(Tail(request[r].todo)) = "none"
        BY <1>12, <2>1, <4>2 DEF NextStep
      <4> QED  BY <1>10, <4>2, <4>3, Table
    <3> QED  BY <1>10, <3>1 DEF Going
  <2>3. request'[r].todo = <<>>
    BY <1>9, <2>2 DEF After, Idle
  <2> QED  BY <1>1, <1>2, <1>3, <1>5, <1>6, <1>7, <1>8, <1>14, <2>3
<1> QED  BY <1>1, <1>13, <1>14

-----------------------------------------------------------------------------
(* While the numbers of teams and of settings have not drifted apart.        *)
DriftRows ==
    \A t \in TeamIds :
        /\ IsRow(t) => settings[t].team = t
        /\ teams[t] = "open" => IsRow(t)
        /\ teams[t] = "closed" => ~IsRow(t)
DriftInv ==
    ~skewed =>
        /\ DriftRows
        /\ \A r \in InFlight : NewRow(request[r]) => request[r].row = request[r].team

LEMMA DriftStands ==
    ASSUME CoreInv, DriftInv, NEW r, Works(r), SameTeam(r), Step(request[r]) # "setting",
           skewed => skewed', ~skewed => DriftRows'
    PROVE  DriftInv'
<1>1. ASSUME ~skewed, NEW s \in InFlight', NewRow(request'[s])
      PROVE  request'[s].row = request'[s].team
  <2>1. CASE s = r
    <3>1. request'[r].todo # <<>>
      BY <2>1 DEF InFlight
    <3>2. NewRow(request[r]) /\ r \in InFlight
      BY <1>1, <2>1, <3>1, Transitions DEF Works
    <3> QED  BY <1>1, <2>1, <3>1, <3>2 DEF SameTeam, DriftInv
  <2>2. CASE s # r
    <3>1. s \in InFlight /\ Kept(s) /\ NewRow(request[s])
      BY <1>1, <2>2, OthersStand DEF Works
    <3> QED  BY <1>1, <3>1 DEF DriftInv, Kept
  <2> QED  BY <2>1, <2>2
<1> QED  BY <1>1 DEF DriftInv

LEMMA SameRows ==
    ASSUME DriftInv, UNCHANGED settings,
           \A t \in TeamIds : teams'[t] \in {"open", "closed"} => teams'[t] = teams[t]
    PROVE  ~skewed => DriftRows'
BY DEF DriftInv, DriftRows, IsRow

LEMMA SimpleDrift ==
    ASSUME CoreInv, DriftInv, NEW r \in Requests,
           \/ Look(r) \/ CheckFlag(r) \/ DropFlag(r) \/ SetFlag(r) \/ Charge(r) \/ SetKeys(r)
           \/ SaveInvitations(r) \/ ReadName(r) \/ Unflag(r) \/ EarlyStep(r) \/ LoadUser(r)
           \/ DropKeys(r)
    PROVE  DriftInv'
<1>1. ASSUME UNCHANGED <<teams, settings>> PROVE ~skewed => DriftRows'
  BY <1>1, SameRows
<1> SUFFICES /\ Works(r) /\ UNCHANGED <<teams, settings, skewed>> /\ SameTeam(r)
             /\ Step(request[r]) # "setting"
  BY <1>1, DriftStands
<1> USE DEF NoDoubt, observed, Doubts, Nothing
<1>2. CASE Look(r)
  BY <1>2, LookDoes
<1>3. CASE CheckFlag(r)
  BY <1>3, CheckDoes DEF SameTeam
<1>5. CASE DropFlag(r)
  BY <1>5, DropDoes DEF WritesOn, Same, SameTeam
<1>6. CASE SetFlag(r)
  BY <1>6, SetFlagDoes DEF WritesOn, Same, SameTeam
<1>7. CASE Charge(r)
  BY <1>7, ChargeDoes DEF WritesOn, Same, SameTeam
<1>8. CASE SetKeys(r)
  BY <1>8, SetKeysDoes DEF Same, SameTeam
<1>9. CASE SaveInvitations(r)
  BY <1>9, InviteDoes DEF Same, SameTeam
<1>10. CASE ReadName(r)
  BY <1>10, ReadDoes DEF SameTeam
<1>11. CASE Unflag(r)
  BY <1>11, UnflagDoes DEF SameTeam
<1>12. CASE EarlyStep(r)
  BY <1>12, EarlyLocal, EarlyDoes DEF Same, SameTeam, EarlySteps
<1>13. CASE LoadUser(r)
  BY <1>13, LoadDoes DEF SameTeam
<1>14. CASE DropKeys(r)
  BY <1>14, DropKeysDoes DEF Same, SameTeam
<1> QED  BY <1>2, <1>3, <1>5, <1>6, <1>7, <1>8, <1>9, <1>10, <1>11, <1>12, <1>13, <1>14

LEMMA ReleaseDoes ==
    ASSUME CoreInv, NEW r \in Requests, ReleaseRow(r)
    PROVE  /\ Works(r) /\ r \in InFlight /\ Step(request[r]) = "release"
           /\ request[r].call.op = "close" /\ NoDoubt /\ Nothing
           /\ \A s \in Requests \ {r} : request'[s] = request[s]
           /\ request'[r].todo # <<>> =>
                 /\ request'[r].team = request[r].team /\ request'[r].row = request[r].row
                 /\ request'[r].name = request[r].name /\ request'[r].old = request[r].old
                 /\ request'[r].raced = request[r].raced
                 /\ request'[r].wrote = request[r].wrote
<1>1. Works(r) /\ r \in InFlight /\ Step(request[r]) = "release" /\ request[r] \in RequestType
  BY ReleaseRowWorks, AtStep, Flying DEF ReleaseRow
<1>2. request[r].call.op = "close"
  <2>1. PICK n : <<"release", n>> \in Follows[request[r].call.op] /\ request[r].call.op \in AllOps
    BY AtStep DEF ReleaseRow
  <2> QED  BY <2>1, Table
<1>3. CASE Refuse(r)
  BY <1>1, <1>2, <1>3, StopSame, StopOthers DEF Refuse, ReleaseRow
<1>4. CASE Advance(r, request[r])
  <2>1. request' = [request EXCEPT ![r] = After(request[r])] /\ NoDoubt
    BY <1>4 DEF Advance
  <2>2. request'[r] = After(request[r]) /\ \A s \in Requests \ {r} : request'[s] = request[s]
    BY <1>1, <2>1, Becomes, Requesting
  <2>3. PICK q \in RequestType : q = request[r]
    BY <1>1
  <2> QED  BY <1>1, <1>2, <2>1, <2>2, <2>3, GoesOn DEF ReleaseRow
<1> QED  BY <1>3, <1>4 DEF ReleaseRow

LEMMA StopDrift ==
    ASSUME CoreInv, DriftInv, NEW r \in Requests, FailAccount(r)
    PROVE  DriftInv'
<1>1. Works(r) /\ UNCHANGED <<teams, settings, skewed>> /\ request'[r].todo = <<>>
  BY FailDoes DEF Nothing, NoDoubt, observed, Doubts
<1>2. ASSUME NEW s \in InFlight', NewRow(request'[s])
      PROVE  s \in InFlight /\ Kept(s) /\ NewRow(request[s])
  <2>1. s # r
    BY <1>1 DEF InFlight
  <2> QED  BY <1>1, <1>2, <2>1, OthersStand DEF Works
<1>3. ~skewed => DriftRows'
  BY <1>1, SameRows
<1> QED  BY <1>1, <1>2, <1>3 DEF DriftInv, Kept

LEMMA InsertTeamDrift ==
    ASSUME CoreInv, DriftInv, NEW r \in Requests, InsertTeam(r)
    PROVE  DriftInv'
<1>1. Works(r) /\ UNCHANGED <<teams, settings, skewed>>
  BY InsertTeamDoes DEF NoDoubt, observed
<1>2. ASSUME NEW s \in InFlight', NewRow(request'[s])
      PROVE  s \in InFlight /\ Kept(s) /\ NewRow(request[s])
  <2>1. s # r
    <3>1. ASSUME s = r PROVE FALSE
      <4>1. request'[r].todo # <<>>
        BY <3>1 DEF InFlight
      <4>2. Step(request'[r]) = "setting"
        BY <4>1, InsertTeamDoes
      <4> QED  BY <1>2, <3>1, <4>2 DEF NewRow
    <3> QED  BY <3>1
  <2> QED  BY <1>1, <1>2, <2>1, OthersStand DEF Works
<1>3. ~skewed => DriftRows'
  BY <1>1, SameRows
<1> QED  BY <1>1, <1>2, <1>3 DEF DriftInv, Kept

LEMMA InsertSettingDrift ==
    ASSUME CoreInv, DriftInv, NEW r \in Requests, InsertSetting(r)
    PROVE  DriftInv'
<1>1. Works(r) /\ UNCHANGED <<teams, settings>>
      /\ skewed' = (skewed \/ lastSetting + 1 # request[r].team)
  BY InsertSettingDoes
<1>2. ASSUME NEW s \in InFlight', NewRow(request'[s]), ~skewed'
      PROVE  request'[s].row = request'[s].team
  <2>1. CASE s = r
    <3>1. request'[r].todo # <<>>
      BY <2>1 DEF InFlight
    <3> QED  BY <1>1, <1>2, <2>1, <3>1, InsertSettingDoes
  <2>2. CASE s # r
    <3>1. s \in InFlight /\ Kept(s) /\ NewRow(request[s])
      BY <1>1, <1>2, <2>2, OthersStand DEF Works
    <3> QED  BY <1>1, <1>2, <3>1 DEF DriftInv, Kept
  <2> QED  BY <2>1, <2>2
<1>3. ~skewed => DriftRows'
  BY <1>1, SameRows
<1> QED  BY <1>1, <1>2, <1>3 DEF DriftInv

LEMMA ShowDrift ==
    ASSUME CoreInv, NumbersInv, DriftInv, NEW r \in Requests,
           Doing(r, "commit") \/ Doing(r, "commitUser"), ShowTeam(r)
    PROVE  DriftInv'
<1>1. PICK t, i, row : t = request[r].team /\ i = request[r].row /\ row = Row(t, request[r].name)
  OBVIOUS
<1>2. /\ WritesOn(r) /\ UNCHANGED skewed /\ NewRow(request[r])
      /\ t \in TeamIds /\ i \in TeamIds /\ row \in [team : TeamIds, name : Names] /\ row.team = t
      /\ Step(request[r]) # "setting"
      /\ teams' = [teams EXCEPT ![t] = "open"] /\ settings' = [settings EXCEPT ![i] = row]
  BY <1>1, ShowDoes DEF NoDoubt, observed, Row
<1>3. /\ teams \in [TeamIds -> {"unused", "open", "closed", "left"}]
      /\ settings \in [TeamIds -> Rows \cup {Unused, Released}]
  BY TablesAre DEF Tables
<1>4. ~skewed => i = t
  BY <1>1, <1>2 DEF DriftInv, WritesOn
<1>5. row \notin {Unused, Released}
  BY <1>2, WorkspacesAssumption
<1>6. ASSUME ~skewed PROVE DriftRows'
  <2>1. ASSUME NEW k \in TeamIds
        PROVE  /\ IsRow(k)' => settings'[k].team = k
               /\ teams'[k] = "open" => IsRow(k)'
               /\ teams'[k] = "closed" => ~IsRow(k)'
    <3>1. CASE k = t
      BY <1>2, <1>3, <1>4, <1>5, <1>6, <3>1 DEF IsRow
    <3>2. CASE k # t
      BY <1>2, <1>3, <1>4, <1>6, <3>2 DEF IsRow, DriftInv, DriftRows
    <3> QED  BY <3>1, <3>2
  <2> QED  BY <2>1 DEF DriftRows
<1>7. Works(r) /\ SameTeam(r)
  BY <1>2 DEF WritesOn, Same, SameTeam
<1> QED  BY <1>2, <1>6, <1>7, DriftStands

LEMMA CloseDrift ==
    ASSUME CoreInv, DriftInv, NEW r \in Requests, CommitClose(r)
    PROVE  DriftInv'
<1>1. PICK t : t = request[r].team
  OBVIOUS
<1>2. /\ Works(r) /\ UNCHANGED skewed /\ Same(r) /\ Step(request[r]) # "setting"
      /\ t \in TeamIds
      /\ teams' = [teams EXCEPT ![t] = "closed"] /\ settings' = [settings EXCEPT ![t] = Released]
  BY <1>1, CommitCloseDoes DEF NoDoubt, observed
<1>3. /\ teams \in [TeamIds -> {"unused", "open", "closed", "left"}]
      /\ settings \in [TeamIds -> Rows \cup {Unused, Released}]
  BY TablesAre DEF Tables
<1>4. ASSUME ~skewed PROVE DriftRows'
  BY <1>2, <1>3, <1>4 DEF IsRow, DriftInv, DriftRows
<1>5. SameTeam(r)
  BY <1>2 DEF Same, SameTeam
<1> QED  BY <1>2, <1>4, <1>5, DriftStands

LEMMA WriteDrift ==
    ASSUME CoreInv, DriftInv, NEW r \in Requests, WriteName(r)
    PROVE  DriftInv'
<1>1. PICK t, row : t = request[r].team /\ row = Row(t, request[r].name)
  OBVIOUS
<1>2. /\ WritesOn(r) /\ UNCHANGED <<skewed, teams>> /\ Step(request[r]) # "setting"
      /\ row \in [team : TeamIds, name : Names] /\ row.team = t
      /\ \A s \in RowsOf(t) : settings'[s] = row
      /\ \A s \in TeamIds \ RowsOf(t) : settings'[s] = settings[s]
  BY <1>1, WriteDoes DEF NoDoubt, observed, Row
<1>3. row \notin {Unused, Released}
  BY <1>2, WorkspacesAssumption
<1>4. ASSUME ~skewed PROVE DriftRows'
  <2>1. ASSUME NEW k \in TeamIds
        PROVE  /\ IsRow(k)' => settings'[k].team = k
               /\ teams'[k] = "open" => IsRow(k)'
               /\ teams'[k] = "closed" => ~IsRow(k)'
    <3>1. CASE k \in RowsOf(t)
      <4>1. IsRow(k) /\ settings[k].team = t
        BY <3>1 DEF RowsOf
      <4> QED  BY <1>2, <1>3, <1>4, <3>1, <4>1 DEF IsRow, DriftInv, DriftRows
    <3>2. CASE k \notin RowsOf(t)
      BY <1>2, <1>4, <3>2 DEF IsRow, DriftInv, DriftRows
    <3> QED  BY <3>1, <3>2
  <2> QED  BY <2>1 DEF DriftRows
<1>5. Works(r) /\ SameTeam(r)
  BY <1>2 DEF WritesOn, Same, SameTeam
<1> QED  BY <1>2, <1>4, <1>5, DriftStands

LEMMA EraseDrift ==
    ASSUME CoreInv, DriftInv, NEW r \in Requests, EraseUser(r)
    PROVE  DriftInv'
<1>1. /\ WritesOn(r) /\ UNCHANGED <<skewed, settings>> /\ Step(request[r]) # "setting"
      /\ request[r].team \in TeamIds
      /\ teams' = [teams EXCEPT ![request[r].team] = IF @ = "open" THEN "left" ELSE @]
  BY EraseDoes DEF NoDoubt, observed
<1>2. teams \in [TeamIds -> {"unused", "open", "closed", "left"}]
  BY TablesAre DEF Tables
<1>3. ~skewed => DriftRows'
  BY <1>1, <1>2, SameRows
<1>4. Works(r) /\ SameTeam(r)
  BY <1>1 DEF WritesOn, Same, SameTeam
<1> QED  BY <1>1, <1>3, <1>4, DriftStands

LEMMA ComesDrift ==
    ASSUME CoreInv, DriftInv, NEW r \in Requests, NEW call \in Calls, Comes(r, call), Nothing,
           UNCHANGED skewed
    PROVE  DriftInv'
<1>1. ~NewRow(request'[r])
  <2>1. Step(request'[r]) = Start[call.op] /\ call.op \in AllOps
    BY CallFacts DEF Comes
  <2> QED  BY <2>1 DEF NewRow, Start, AllOps, Ops, AccountOps
<1>2. ASSUME NEW s \in InFlight', NewRow(request'[s])
      PROVE  s \in InFlight /\ request'[s] = request[s]
  BY <1>1, <1>2 DEF Comes, InFlight
<1> QED  BY <1>2 DEF DriftInv, DriftRows, IsRow, Nothing

LEMMA BeginMarks ==
    ASSUME NEW r, NEW call, NEW todo, NEW t, NEW n, Begin(r, call, todo, t, n)
    PROVE  UNCHANGED skewed
BY DEF Begin, NoDoubt, observed

LEMMA ComesMarks ==
    ASSUME NEW r \in Requests, NEW call \in Calls, Receive(r, call) \/ ReceiveAccount(r, call)
    PROVE  UNCHANGED skewed
<1>1. PICK todo, t, n : Begin(r, call, todo, t, n)
  BY DEF Receive, ReceiveAccount
<1> QED  BY <1>1, BeginMarks

LEMMA InitDrift == Init => DriftInv
<1> SUFFICES ASSUME Init PROVE DriftInv
  OBVIOUS
<1>1. InFlight = {}
  BY InitTeams DEF Init
<1>2. ASSUME NEW t \in TeamIds
      PROVE  /\ IsRow(t) => settings[t].team = t
             /\ teams[t] = "open" => IsRow(t)
             /\ teams[t] = "closed" => ~IsRow(t)
  <2>1. /\ teams[t] = (IF IsGiven(t) THEN "open" ELSE "unused")
        /\ settings[t] = (IF IsGiven(t) THEN Row(t, Given[t]) ELSE Unused)
    BY DEF Init, WorkspacesInit
  <2>2. CASE IsGiven(t)
    <3>1. Given[t] \in Names
      BY <2>2, WorkspacesAssumption DEF IsGiven
    <3>2. Row(t, Given[t]) \in [team : TeamIds, name : Names] /\ Row(t, Given[t]).team = t
      BY <3>1 DEF Row
    <3> QED  BY <2>1, <2>2, <3>2, WorkspacesAssumption DEF IsRow
  <2>3. CASE ~IsGiven(t)
    BY <2>1, <2>3 DEF IsRow
  <2> QED  BY <2>2, <2>3
<1> QED  BY <1>1, <1>2 DEF DriftInv, DriftRows

LEMMA NextDrift == CoreInv /\ NumbersInv /\ DriftInv /\ [Next]_vars => DriftInv'
<1> SUFFICES ASSUME CoreInv, NumbersInv, DriftInv, [Next]_vars PROVE DriftInv'
  OBVIOUS
<1>1. ASSUME NEW r \in Requests, NEW call \in Calls, Receive(r, call) /\ Keeps
      PROVE  DriftInv'
  BY <1>1, ReceiveCore, ReceiveGiven, ComesMarks, ComesDrift
<1>2. ASSUME NEW r \in Requests, NEW call \in Calls, ReceiveAccount(r, call)
      PROVE  DriftInv'
  BY <1>2, AccountCore, AccountGiven, ComesMarks, ComesDrift DEF NumbersInv
<1>3. ASSUME NEW r \in Requests,
             (WorkspacesStep(r) /\ Keeps) \/ AccountStep(r) \/ FailAccount(r)
      PROVE  DriftInv'
  <2>1. CASE \/ Look(r) \/ CheckFlag(r) \/ DropFlag(r) \/ SetFlag(r) \/ Charge(r) \/ SetKeys(r)
             \/ SaveInvitations(r) \/ ReadName(r) \/ Unflag(r) \/ EarlyStep(r) \/ LoadUser(r)
             \/ DropKeys(r)
    BY <2>1, SimpleDrift
  <2>2. CASE CommitSignUp(r) \/ CommitTeam(r)
    BY <2>2, ShowDrift DEF CommitTeam, CommitSignUp
  <2>3. CASE ReleaseRow(r)
    <3>1. ~skewed => DriftRows'
      BY <2>3, ReleaseDoes, SameRows DEF Nothing
    <3> QED  BY <2>3, <3>1, ReleaseDoes, DriftStands DEF SameTeam, NoDoubt, observed
  <2> QED  BY <1>3, <2>1, <2>2, <2>3, StepsAll, StopDrift, InsertTeamDrift, InsertSettingDrift,
              CloseDrift, WriteDrift, EraseDrift
<1>4. ASSUME UNCHANGED wsVars PROVE DriftInv'
  BY <1>4 DEF wsVars, DriftInv, DriftRows, InFlight, IsRow, NewRow, Step
<1>5. ASSUME NEW a \in Addresses, Expire(a) PROVE DriftInv'
  BY <1>4, <1>5 DEF Expire
<1>6. CASE UNCHANGED vars
  BY <1>4, <1>6 DEF vars
<1> QED  BY <1>1, <1>2, <1>3, <1>5, <1>6 DEF Next

(* Without drift an open team has the one row with its number.               *)
LEMMA NamesOfTeams == CoreInv /\ DriftInv => TeamsHaveNames
<1> SUFFICES ASSUME CoreInv, DriftInv, ~skewed, NEW t \in TeamIds
             PROVE  /\ teams[t] = "open" => Cardinality(RowsOf(t)) = 1
                    /\ teams[t] = "closed" => RowsOf(t) = {}
  BY DEF TeamsHaveNames
<1>1. DriftRows
  BY DEF DriftInv
<1>2. ASSUME IsRow(t) PROVE RowsOf(t) = {t}
  BY <1>1, <1>2 DEF RowsOf, DriftRows
<1>3. ASSUME ~IsRow(t) PROVE RowsOf(t) = {}
  BY <1>1, <1>3 DEF RowsOf, DriftRows
<1>4. Cardinality({t}) = 1
  BY FS_Singleton
<1> QED  BY <1>1, <1>2, <1>3, <1>4 DEF DriftRows

-----------------------------------------------------------------------------
(* What Redis and the gateway have of a team.  A handler that has written    *)
(* elsewhere than in its transaction knows it.                               *)
WroteInv(r) ==
    LET q == request[r] IN
    /\ q.call.op \in Making /\ Step(q) \in {"charge", "keys", "commit", "commitUser", "invite"} =>
          q.wrote
    /\ q.call.op = "leave" /\ Step(q) \in {"dropKeys", "drop"} => q.wrote
    /\ q.call.op = "rename" => (q.wrote <=> Step(q) \in {"check", "drop", "flag"})
    /\ q.call.op = "close" /\ Step(q) = "release" => ~q.wrote
    /\ q.call.op = "close" /\ Step(q) = "commitClose" => q.wrote
WritingSteps ==
    {"drop", "flag", "charge", "keys", "commit", "commitUser", "row", "unflag", "erase"}
Writing(r) ==
    request'[r].todo # <<>> =>
        request'[r].wrote = (request[r].wrote \/ Step(request[r]) \in WritingSteps)
AllWroteInv == \A r \in InFlight : WroteInv(r)

LEMMA Moves ==
    ASSUME CoreInv, NEW r, Works(r), request'[r].todo # <<>>
    PROVE  /\ request[r].call.op \in AllOps /\ request'[r].call = request[r].call
           /\ <<Step(request[r]), Step(request'[r])>> \in Follows[request[r].call.op]
           /\ Step(request'[r]) # "none"
<1>1. /\ request'[r].call = request[r].call /\ WellFormed(request'[r])
      /\ <<Step(request[r]), Step(request'[r])>> \in Follows[request[r].call.op]
      /\ request[r].call.op \in AllOps
  BY IdleType, Flying DEF Works
<1>2. PICK q : q = request'[r]
  OBVIOUS
<1>3. q.todo \in Rests[request[r].call.op]
  BY <1>1, <1>2 DEF WellFormed
<1>4. Step(q) # "none"
  BY <1>1, <1>3, Ahead
<1> QED  BY <1>1, <1>2, <1>4

(* What the steps of a team's handlers come from.                            *)
RenameMoves == {<<"read", "row">>, <<"row", "check">>, <<"check", "drop">>, <<"drop", "flag">>}
CloseMoves == {<<"release", "unflag">>, <<"unflag", "unflag">>, <<"unflag", "commitClose">>}
LEMMA MovesTo ==
    ASSUME NEW op \in AllOps, NEW s, NEW n, <<s, n>> \in Follows[op], n # "none"
    PROVE  /\ op \in Making /\ n \in {"charge", "keys", "commit", "commitUser", "invite"} =>
                 s \in {"flag", "charge", "keys", "commit"}
           /\ op = "leave" => n \in {"erase", "dropKeys", "drop"}
           /\ op = "leave" /\ n \in {"dropKeys", "drop"} => s \in {"erase", "dropKeys"}
           /\ op = "rename" => <<s, n>> \in RenameMoves
           /\ op = "close" => <<s, n>> \in CloseMoves
<1>1. CASE op = "newTeam"  BY <1>1 DEF Follows, Making
<1>2. CASE op \in {"rename", "close", "leave"}
  BY <1>2 DEF Follows, Making, RenameMoves, CloseMoves
<1>3. CASE op \in {"ask", "confirm", "temporary", "setPhone"}  BY <1>3 DEF Making
<1>4. CASE op = "emailSignUp"  BY <1>4 DEF Follows, SignUpFollows
<1>5. CASE op = "phoneSignUp"  BY <1>5 DEF Follows, SignUpFollows
<1>6. CASE op \in {"oauth", "integrate"}  BY <1>6 DEF Follows, OAuthFollows, SignUpFollows
<1> QED  BY <1>1, <1>2, <1>3, <1>4, <1>5, <1>6 DEF AllOps, Ops, AccountOps

LEMMA WroteStep ==
    ASSUME CoreInv, AllWroteInv, NEW r, Works(r), Writing(r)
    PROVE  AllWroteInv'
<1>1. ASSUME NEW s \in InFlight' PROVE WroteInv(s)'
  <2>1. CASE s = r
    <3>1. request'[r].todo # <<>> /\ r \in InFlight /\ request'[r].call = request[r].call
      BY <2>1, Moves DEF InFlight, Works
    <3>2. request'[r].wrote = (request[r].wrote \/ Step(request[r]) \in WritingSteps)
          /\ request[r].wrote \in BOOLEAN /\ request'[r].wrote \in BOOLEAN
      BY <3>1, Flying DEF Writing, RequestType, Works, InFlight
    <3>3. WroteInv(r)
      BY <3>1 DEF AllWroteInv
    <3>4. PICK p, n, q, op :
             /\ p = Step(request[r]) /\ n = Step(request'[r]) /\ op = request[r].call.op
             /\ q = request'[r]
      OBVIOUS
    <3>5. /\ op \in Making /\ n \in {"charge", "keys", "commit", "commitUser", "invite"} =>
                p \in {"flag", "charge", "keys", "commit"}
          /\ op = "leave" /\ n \in {"dropKeys", "drop"} => p \in {"erase", "dropKeys"}
          /\ op = "rename" => <<p, n>> \in RenameMoves
          /\ op = "close" => <<p, n>> \in CloseMoves
      <4>1. op \in AllOps /\ <<p, n>> \in Follows[op] /\ n # "none"
        BY <3>1, <3>4, Moves
      <4> QED  BY <4>1, MovesTo
    <3>6. /\ op \in Making /\ n \in {"charge", "keys", "commit", "commitUser", "invite"} => q.wrote
          /\ op = "leave" /\ n \in {"dropKeys", "drop"} => q.wrote
          /\ op = "rename" => (q.wrote <=> n \in {"check", "drop", "flag"})
          /\ op = "close" /\ n = "release" => ~q.wrote
          /\ op = "close" /\ n = "commitClose" => q.wrote
      BY <3>2, <3>3, <3>4, <3>5 DEF WroteInv, WritingSteps, RenameMoves, CloseMoves
    <3> QED  BY <2>1, <3>1, <3>4, <3>6 DEF WroteInv
  <2>2. CASE s # r
    <3>1. s \in InFlight /\ Kept(s) /\ Step(request'[s]) = Step(request[s])
      BY <1>1, <2>2, OthersStand DEF Works
    <3> QED  BY <3>1 DEF AllWroteInv, WroteInv, Kept
  <2> QED  BY <2>1, <2>2
<1> QED  BY <1>1 DEF AllWroteInv

(* A handler whose steps none of this is about.                              *)
LEMMA WroteElse ==
    ASSUME CoreInv, AllWroteInv, NEW r, Works(r),
           Step(request[r]) \in EarlySteps \/ request'[r].todo = <<>>
    PROVE  AllWroteInv'
<1>1. ASSUME NEW s \in InFlight' PROVE WroteInv(s)'
  <2>1. CASE s = r
    <3>1. request'[r].todo # <<>> /\ request'[r].call = request[r].call
          /\ Step(request[r]) \in EarlySteps
      BY <2>1, Moves DEF InFlight, Works
    <3>2. PICK p, n, op :
             /\ p = Step(request[r]) /\ n = Step(request'[r]) /\ op = request[r].call.op
      OBVIOUS
    <3>3. op \in AllOps /\ <<p, n>> \in Follows[op] /\ p \in EarlySteps /\ n # "none"
      BY <3>1, <3>2, Moves
    <3>4. op \notin {"rename", "close", "leave"}
      BY <3>3 DEF Follows, EarlySteps
    <3>5. op \in Making => n \notin {"charge", "keys", "commit", "commitUser", "invite"}
      <4>1. op \in Making /\ n \in {"charge", "keys", "commit", "commitUser", "invite"} =>
                p \in {"flag", "charge", "keys", "commit"}
        BY <3>3, MovesTo
      <4> QED  BY <3>3, <4>1 DEF EarlySteps
    <3> QED  BY <2>1, <3>1, <3>2, <3>4, <3>5 DEF WroteInv
  <2>2. CASE s # r
    <3>1. s \in InFlight /\ Kept(s) /\ Step(request'[s]) = Step(request[s])
      BY <1>1, <2>2, OthersStand DEF Works
    <3> QED  BY <3>1 DEF AllWroteInv, WroteInv, Kept
  <2> QED  BY <2>1, <2>2
<1> QED  BY <1>1 DEF AllWroteInv

LEMMA AdvanceWrote ==
    ASSUME CoreInv, NEW r \in InFlight, NEW q \in RequestType, q.todo = request[r].todo,
           q.wrote = request[r].wrote, Advance(r, q), Step(request[r]) \notin WritingSteps
    PROVE  Writing(r)
<1>1. request'[r] = After(q)
  BY Becomes DEF Advance
<1>2. request[r].wrote \in BOOLEAN
  BY Flying DEF RequestType
<1> QED  BY <1>1, <1>2, GoesOn DEF Writing

LEMMA SimpleWrote ==
    ASSUME CoreInv, NEW r \in Requests,
           \/ Look(r) \/ InsertTeam(r) \/ InsertSetting(r) \/ SaveInvitations(r)
           \/ CommitClose(r) \/ DropKeys(r)
    PROVE  Writing(r)
<1>1. CASE Look(r)
  <2>1. r \in InFlight /\ request[r] \in RequestType /\ Step(request[r]) = "look"
    BY <1>1, LookDoes, Flying
  <2>2. ASSUME NEW k \in Numbers, Advance(r, [request[r] EXCEPT !.name = DefaultName(@, k)])
        PROVE  Writing(r)
    <3>1. PICK q : q = [request[r] EXCEPT !.name = DefaultName(@, k)]
      OBVIOUS
    <3>2. DefaultName(request[r].name, k) \in Names
      <4>1. request[r].name \in Names
        BY <1>1, LookDoes, Flying DEF WellFormed
      <4> QED  BY <4>1, WorkspacesAssumption DEF DefaultName
    <3>3. q \in RequestType /\ q.todo = request[r].todo /\ q.wrote = request[r].wrote
      BY <2>1, <3>1, <3>2 DEF RequestType
    <3> QED  BY <2>1, <2>2, <3>1, <3>3, AdvanceWrote DEF WritingSteps
  <2>3. CASE Refuse(r)
    BY <2>1, <2>3, StopSame DEF Refuse, Writing
  <2> QED  BY <1>1, <2>1, <2>2, <2>3, AdvanceWrote DEF Look, WritingSteps
<1>2. CASE InsertTeam(r)
  <2>1. r \in InFlight /\ request[r] \in RequestType /\ Step(request[r]) = "team"
        /\ lastTeam + 1 \in TeamIds
    BY <1>2, InsertTeamDoes, Flying
  <2>2. PICK q : q = [request[r] EXCEPT !.team = lastTeam + 1]
    OBVIOUS
  <2>3. q \in RequestType /\ q.todo = request[r].todo /\ q.wrote = request[r].wrote
    BY <2>1, <2>2 DEF RequestType
  <2> QED  BY <1>2, <2>1, <2>2, <2>3, AdvanceWrote DEF InsertTeam, WritingSteps
<1>3. CASE InsertSetting(r)
  <2>1. r \in InFlight /\ request[r] \in RequestType /\ Step(request[r]) = "setting"
        /\ lastSetting + 1 \in TeamIds
    BY <1>3, InsertSettingDoes, Flying DEF InsertSetting
  <2>2. PICK q : q = [request[r] EXCEPT !.row = lastSetting + 1]
    OBVIOUS
  <2>3. q \in RequestType /\ q.todo = request[r].todo /\ q.wrote = request[r].wrote
    BY <2>1, <2>2 DEF RequestType
  <2>4. request' = [request EXCEPT ![r] = After(q)]
    BY <1>3, <2>2 DEF InsertSetting
  <2>5. request'[r] = After(q) /\ request[r].wrote \in BOOLEAN
    BY <2>1, <2>4, Becomes DEF RequestType
  <2> QED  BY <2>1, <2>3, <2>5, GoesOn DEF Writing, WritingSteps
<1>4. CASE SaveInvitations(r)
  BY <1>4, InviteDoes DEF Writing
<1>5. CASE CommitClose(r)
  <2>1. r \in InFlight /\ Step(request[r]) = "commitClose" /\ Advance(r, request[r])
    BY <1>5, CommitCloseDoes DEF CommitClose
  <2> QED  BY <2>1, AdvanceWrote, Flying DEF WritingSteps
<1>6. CASE DropKeys(r)
  <2>1. r \in InFlight /\ Step(request[r]) = "dropKeys"
        /\ (Advance(r, request[r]) \/ Stop(r))
    BY <1>6, DropKeysDoes DEF DropKeys
  <2>2. CASE Stop(r)
    BY <2>1, <2>2, StopSame DEF Writing
  <2> QED  BY <2>1, <2>2, AdvanceWrote, Flying DEF WritingSteps
<1> QED  BY <1>1, <1>2, <1>3, <1>4, <1>5, <1>6

LEMMA StepWrote ==
    ASSUME CoreInv, NumbersInv, AllWroteInv, NEW r \in Requests,
           (WorkspacesStep(r) /\ Keeps) \/ AccountStep(r) \/ FailAccount(r)
    PROVE  AllWroteInv'
<1>1. CASE EarlyStep(r)
  BY <1>1, EarlyLocal, EarlyDoes, WroteElse
<1>2. CASE FailAccount(r)
  BY <1>2, FailDoes, WroteElse
<1>3. ASSUME r \in InFlight PROVE request[r].wrote \in BOOLEAN
  BY <1>3, Flying DEF RequestType
<1>4. CASE \/ Look(r) \/ InsertTeam(r) \/ InsertSetting(r) \/ SaveInvitations(r)
           \/ CommitClose(r) \/ DropKeys(r)
  <2>1. Works(r)
    BY <1>4, LookDoes, InsertTeamDoes, InsertSettingDoes, InviteDoes, CommitCloseDoes, DropKeysDoes
  <2> QED  BY <1>4, <2>1, SimpleWrote, WroteStep
<1>5. ASSUME WritesOn(r), Step(request[r]) \in WritingSteps PROVE AllWroteInv'
  <2>1. request'[r].todo # <<>> => request'[r].wrote = TRUE
    <3>1. request'[r] \in RequestType
      BY <1>5 DEF WritesOn, Works, InFlight
    <3> QED  BY <1>5, <3>1 DEF WritesOn, RequestType
  <2> QED  BY <1>3, <1>5, <2>1, WroteStep DEF WritesOn, Writing
<1>6. CASE CommitSignUp(r) \/ CommitTeam(r)
  BY <1>5, <1>6, ShowDoes DEF CommitTeam, CommitSignUp, WritingSteps
<1>7. CASE DropFlag(r) \/ SetFlag(r) \/ Charge(r) \/ WriteName(r) \/ EraseUser(r)
  BY <1>5, <1>7, DropDoes, SetFlagDoes, ChargeDoes, WriteDoes, EraseDoes DEF WritingSteps
<1>8. CASE SetKeys(r)
  <2>1. WritesOn(r) /\ Step(request[r]) = "keys"
    BY <1>8, SetKeysDoes DEF WritesOn
  <2> QED  BY <1>5, <2>1 DEF WritingSteps
<1>9. CASE Unflag(r)
  <2>1. request'[r].todo # <<>> => request'[r].wrote = TRUE
    <3>1. Works(r) /\ (request'[r].todo # <<>> => request'[r].wrote) /\ request'[r] \in RequestType
      BY <1>9, UnflagDoes DEF Works
    <3> QED  BY <3>1 DEF RequestType
  <2> QED  BY <1>3, <1>9, <2>1, UnflagDoes, WroteStep DEF Writing, WritingSteps
<1>10. CASE CheckFlag(r) \/ ReadName(r) \/ LoadUser(r) \/ ReleaseRow(r)
  <2>1. /\ Works(r) /\ r \in InFlight /\ Step(request[r]) \in {"check", "read", "load", "release"}
        /\ request'[r].todo # <<>> => request'[r].wrote = request[r].wrote
    BY <1>10, CheckDoes, ReadDoes, LoadDoes, ReleaseDoes
  <2> QED  BY <1>3, <2>1, WroteStep DEF Writing, WritingSteps
<1> QED  BY <1>1, <1>2, <1>4, <1>6, <1>7, <1>8, <1>9, <1>10, StepsAll

LEMMA ComesWrote ==
    ASSUME CoreInv, AllWroteInv, NEW r \in Requests, NEW call \in Calls, Comes(r, call)
    PROVE  AllWroteInv'
<1>1. /\ call.op \in AllOps /\ Step(request'[r]) = Start[call.op] /\ request'[r].call = call
      /\ request'[r].wrote = FALSE
  BY CallFacts DEF Comes
<1>2. WroteInv(r)'
  BY <1>1 DEF WroteInv, Start, AllOps, Ops, AccountOps
<1>3. ASSUME NEW s \in InFlight', s # r PROVE WroteInv(s)'
  BY <1>3 DEF AllWroteInv, WroteInv, Comes, InFlight
<1> QED  BY <1>2, <1>3 DEF AllWroteInv

(* The user of a handler that deletes him had the team that it was given.    *)
LeaveInv ==
    \A r \in InFlight : request[r].call.op = "leave" =>
        /\ users[Person(r).user] # Unused
        /\ Exists(Person(r).user) => users[Person(r).user].team = request[r].team
PeopleLast ==
    \A u \in UserIds : users[u] # Unused =>
        users'[u] # Unused /\ (Exists(u)' => Exists(u) /\ users'[u].team = users[u].team)

LEMMA LeaveStep ==
    ASSUME CoreInv, LeaveInv, NEW r, Works(r), PeopleLast,
           request[r].call.op = "leave" => SameTeam(r)
    PROVE  LeaveInv'
<1>1. ASSUME NEW s \in InFlight', request'[s].call.op = "leave",
             NEW u, u = request'[s].call.person.user
      PROVE  /\ users'[u] # Unused
             /\ users'[u] \notin {Unused, Gone} => users'[u].team = request'[s].team
  <2>1. s \in InFlight /\ request'[s].call = request[s].call /\ request'[s].team = request[s].team
    <3>1. CASE s = r
      <4>1. request'[r].todo # <<>> /\ request'[r].call = request[r].call /\ r \in InFlight
        BY <3>1, Moves DEF InFlight, Works
      <4> QED  BY <1>1, <3>1, <4>1 DEF SameTeam
    <3>2. CASE s # r
      BY <3>2, OthersStand DEF Works, Kept
    <3> QED  BY <3>1, <3>2
  <2>2. u = request[s].call.person.user
    BY <1>1, <2>1
  <2>3. u \in UserIds
    BY <1>1, <2>1, <2>2, Flying DEF Person, Spoken
  <2>4. users[u] # Unused /\ (Exists(u) => users[u].team = request[s].team)
    BY <1>1, <2>1, <2>2 DEF LeaveInv, Person
  <2>5. users'[u] # Unused /\ (Exists(u)' => users'[u].team = request[s].team)
    BY <2>3, <2>4 DEF PeopleLast
  <2> QED  BY <2>1, <2>5 DEF Exists
<1> QED  BY <1>1 DEF LeaveInv, Person, Exists

LEMMA PhonePeople ==
    ASSUME CoreInv, NEW r \in Requests, SetPhone(r)
    PROVE  PeopleLast
<1>1. r \in InFlight /\ Step(request[r]) = "setPhone" /\ request[r].call.op \in AllOps
  BY AtStep DEF SetPhone
<1>2. PICK n : <<"setPhone", n>> \in Follows[request[r].call.op]
  BY AtStep DEF SetPhone
<1>3. request[r].call.op = "setPhone"
  BY <1>1, <1>2, Table
<1>4. PICK w, a : w = Person(r).user /\ a = Address(r)
  OBVIOUS
<1>5. w \in UserIds /\ a \in Phones
  BY <1>1, <1>3, <1>4, Flying DEF Spoken, Address
<1>6. users \in [UserIds -> UserType \cup {Unused, Gone}]
  BY PeopleAre DEF PeopleOK
<1>7. CASE ~Exists(w)
  BY <1>4, <1>7 DEF SetPhone, PeopleLast, Exists
<1>8. CASE Exists(w)
  <2>1. users' = [users EXCEPT ![w].phone = a]
    BY <1>4, <1>8 DEF SetPhone
  <2>2. users[w] \in UserType
    BY <1>5, <1>6, <1>8 DEF Exists
  <2>3. users'[w] = [users[w] EXCEPT !.phone = a]
    BY <1>5, <1>6, <2>1
  <2>4. users'[w] \in UserType /\ users'[w].team = users[w].team
    BY <1>5, <2>2, <2>3 DEF UserType
  <2>5. \A u \in UserIds \ {w} : users'[u] = users[u]
    BY <1>6, <2>1
  <2>6. Exists(w)' /\ users'[w] # Unused
    BY <2>4, AccountsAssumption DEF Exists
  <2> QED  BY <1>8, <2>4, <2>5, <2>6 DEF PeopleLast, Exists
<1> QED  BY <1>7, <1>8

LEMMA SignUpPeople ==
    ASSUME CoreInv, NEW r \in Requests, CommitSignUp(r)
    PROVE  PeopleLast
<1>1. PICK v \in UserIds : users[v] = Unused /\ users' = [users EXCEPT ![v] = NewUser(r)]
  BY DEF CommitSignUp
<1>2. users \in [UserIds -> UserType \cup {Unused, Gone}]
  BY PeopleAre DEF PeopleOK
<1>3. \A u \in UserIds : users[u] # Unused => users'[u] = users[u]
  BY <1>1, <1>2
<1> QED  BY <1>3 DEF PeopleLast, Exists

LEMMA ErasePeople ==
    ASSUME CoreInv, NEW r \in Requests, EraseUser(r)
    PROVE  PeopleLast
<1>1. PICK w : w = Person(r).user
  OBVIOUS
<1>2. w \in UserIds /\ users' = [users EXCEPT ![w] = Gone]
  BY <1>1, EraseDoes
<1>3. users \in [UserIds -> UserType \cup {Unused, Gone}]
  BY PeopleAre DEF PeopleOK
<1>4. users'[w] = Gone /\ \A u \in UserIds \ {w} : users'[u] = users[u]
  BY <1>2, <1>3
<1>5. Gone # Unused
  BY AccountsAssumption
<1> QED  BY <1>4, <1>5 DEF PeopleLast, Exists

LEMMA StandPeople == UNCHANGED users => PeopleLast
BY DEF PeopleLast, Exists

LEMMA StepPeople ==
    ASSUME CoreInv, NEW r \in Requests,
           (WorkspacesStep(r) /\ Keeps) \/ AccountStep(r) \/ FailAccount(r)
    PROVE  PeopleLast
<1>1. CASE Keeps
  BY <1>1, StandPeople DEF Keeps, people
<1>2. CASE EarlyStep(r) /\ ~SetPhone(r)
  <2>1. UNCHANGED users
    BY <1>2 DEF EarlyStep, LookUp, Publish, StoreCode, MatchCode, MarkVerified,
           SaveTemporary, LoadTemporary, Recheck, CheckStatus, SearchPhone, Evaluate,
           FindAndSwitch, FindAccount, SaveAccount, Learns, Keeps, people
  <2> QED  BY <2>1, StandPeople
<1>3. CASE FailAccount(r) \/ LoadUser(r) \/ DropKeys(r)
  BY <1>3, FailDoes, LoadDoes, DropKeysDoes, StandPeople
<1> QED  BY <1>1, <1>2, <1>3, StepsAll, PhonePeople, SignUpPeople, ErasePeople

LEMMA StepLeave ==
    ASSUME CoreInv, NumbersInv, LeaveInv, NEW r \in Requests,
           (WorkspacesStep(r) /\ Keeps) \/ AccountStep(r) \/ FailAccount(r)
    PROVE  LeaveInv'
<1>1. PeopleLast
  BY StepPeople
<1> SUFFICES Works(r) /\ (request[r].call.op = "leave" => SameTeam(r))
  BY <1>1, LeaveStep
<1>2. CASE \/ EarlyStep(r) \/ FailAccount(r) \/ Look(r) \/ CheckFlag(r) \/ LoadUser(r)
           \/ DropKeys(r) \/ SetKeys(r) \/ SaveInvitations(r) \/ CommitClose(r)
  BY <1>2, EarlyDoes, EarlyLocal, FailDoes, LookDoes, CheckDoes, LoadDoes, DropKeysDoes,
     SetKeysDoes, InviteDoes, CommitCloseDoes DEF Same, SameTeam
<1>3. CASE DropFlag(r) \/ SetFlag(r) \/ Charge(r) \/ WriteName(r) \/ EraseUser(r)
  BY <1>3, DropDoes, SetFlagDoes, ChargeDoes, WriteDoes, EraseDoes DEF WritesOn, Same, SameTeam
<1>4. CASE CommitSignUp(r) \/ CommitTeam(r)
  BY <1>4, ShowDoes DEF CommitTeam, CommitSignUp, WritesOn, Same, SameTeam
<1>5. CASE ReadName(r) \/ ReleaseRow(r) \/ Unflag(r)
  BY <1>5, ReadDoes, ReleaseDoes, UnflagDoes DEF SameTeam
<1>6. CASE InsertTeam(r) \/ InsertSetting(r)
  BY <1>6, InsertTeamDoes, InsertSettingDoes DEF Making
<1> QED  BY <1>2, <1>3, <1>4, <1>5, <1>6, StepsAll

LEMMA ComesLeave ==
    ASSUME CoreInv, LeaveInv, NEW r \in Requests, NEW call \in Calls, Comes(r, call),
           UNCHANGED users,
           call.op = "leave" => /\ Exists(call.person.user)
                                /\ request'[r].team = users[call.person.user].team
    PROVE  LeaveInv'
<1>1. request'[r].call = call /\ \A s \in Requests \ {r} : request'[s] = request[s]
  BY DEF Comes
<1>2. ASSUME NEW s \in InFlight', request'[s].call.op = "leave",
             NEW u, u = request'[s].call.person.user
      PROVE  /\ users'[u] # Unused
             /\ users'[u] \notin {Unused, Gone} => users'[u].team = request'[s].team
  <2>1. CASE s = r
    BY <1>1, <1>2, <2>1 DEF Exists
  <2>2. CASE s # r
    <3>1. s \in InFlight /\ request'[s] = request[s]
      BY <1>1, <1>2, <2>2 DEF InFlight
    <3> QED  BY <1>2, <3>1 DEF LeaveInv, Exists, Person
  <2> QED  BY <2>1, <2>2
<1> QED  BY <1>2 DEF LeaveInv, Person, Exists

(* Both hold of every step.                                                  *)
LEMMA NextWrote ==
    CoreInv /\ NumbersInv /\ AllWroteInv /\ LeaveInv /\ [Next]_vars => AllWroteInv' /\ LeaveInv'
<1> SUFFICES ASSUME CoreInv, NumbersInv, AllWroteInv, LeaveInv, [Next]_vars
             PROVE  AllWroteInv' /\ LeaveInv'
  OBVIOUS
<1>1. ASSUME NEW r \in Requests, NEW call \in Calls, Receive(r, call) /\ Keeps
      PROVE  AllWroteInv' /\ LeaveInv'
  <2>1. UNCHANGED users /\ Comes(r, call) /\ call.op \in Ops
    BY <1>1, ReceiveCore, ReceiveGiven DEF Keeps, people
  <2> QED  BY <2>1, ComesWrote, ComesLeave DEF Ops
<1>2. ASSUME NEW r \in Requests, NEW call \in Calls, ReceiveAccount(r, call)
      PROVE  AllWroteInv' /\ LeaveInv'
  BY <1>2, AccountCore, AccountGiven, ComesWrote, ComesLeave DEF NumbersInv
<1>3. ASSUME NEW r \in Requests,
             (WorkspacesStep(r) /\ Keeps) \/ AccountStep(r) \/ FailAccount(r)
      PROVE  AllWroteInv' /\ LeaveInv'
  BY <1>3, StepWrote, StepLeave
<1>4. ASSUME UNCHANGED <<wsVars, users>> PROVE AllWroteInv' /\ LeaveInv'
  BY <1>4 DEF wsVars, AllWroteInv, WroteInv, LeaveInv, InFlight, Step, Exists, Person
<1>5. ASSUME NEW a \in Addresses, Expire(a) PROVE AllWroteInv' /\ LeaveInv'
  BY <1>4, <1>5 DEF Expire
<1>6. CASE UNCHANGED vars
  BY <1>4, <1>6 DEF vars, people
<1> QED  BY <1>1, <1>2, <1>3, <1>5, <1>6 DEF Next

LEMMA InitWrote == Init => AllWroteInv /\ LeaveInv
<1>1. Init => InFlight = {}
  BY DEF Init, WorkspacesInit, InFlight, Idle
<1> QED  BY <1>1 DEF AllWroteInv, LeaveInv

-----------------------------------------------------------------------------
(* What there is of a team, while no handler is on it, and at each step of   *)
(* the one that is.                                                          *)
Rest(t) ==
    /\ teams[t] = "unused" => keys[t] = {}
    /\ teams[t] = "open" \/ (teams[t] = "closed" /\ ~skewed) => TeamKeys \subseteq keys[t]
    /\ teams[t] = "left" => keys[t] \cap {"availability", "event"} = {}
    /\ t \in charges <=> "invitations" \in keys[t]
Stage(r) ==
    LET q == request[r]
        t == q.team IN
    /\ q.call.op \in Making /\ Step(q) \in {"setting", "check", "flag", "charge", "keys"} =>
          keys[t] = {} /\ (t \in charges <=> q.call.op = "newTeam" /\ Step(q) = "keys")
    /\ Step(q) \in {"commit", "commitUser", "invite"} =>
          /\ TeamKeys \subseteq keys[t] /\ "invitations" \notin keys[t]
          /\ t \in charges <=> Step(q) # "commitUser"
    /\ Step(q) = "invite" => teams[t] = "open"
    /\ q.call.op \in {"rename", "close"} \/ Step(q) \in {"load", "erase"} => Rest(t)
    /\ q.call.op = "close" => teams[t] = "open"
    /\ Step(q) \in {"erase", "dropKeys"} \/ (q.call.op = "leave" /\ Step(q) = "drop") =>
          (teams[t] = "closed" => skewed)
    /\ q.call.op = "leave" /\ Step(q) \in {"dropKeys", "drop"} =>
          /\ teams[t] \in {"closed", "left"}
          /\ t \in charges <=> "invitations" \in keys[t]
    /\ q.call.op = "leave" /\ Step(q) = "drop" => keys[t] \cap {"availability", "event"} = {}
KeysAt(t) ==
    /\ \A q, r \in InFlight : request[q].team = t /\ request[r].team = t => q = r
    /\ (\A r \in InFlight : request[r].team # t) => Rest(t)
    /\ \A r \in InFlight : request[r].team = t => Stage(r)
KeysInv ==
    /\ \A t \in TeamIds : t > lastTeam => keys[t] = {} /\ t \notin charges
    /\ \A t \in TeamIds \ torn : KeysAt(t)

SameAt(t) ==
    /\ teams'[t] = teams[t] /\ keys'[t] = keys[t] /\ (t \in charges' <=> t \in charges)
    /\ skewed => skewed'

LEMMA SameRest == ASSUME NEW t, SameAt(t), Rest(t) PROVE Rest(t)'
BY DEF SameAt, Rest

LEMMA SameStage ==
    ASSUME CoreInv, NEW s \in InFlight, Kept(s), SameAt(request[s].team), Stage(s)
    PROVE  Stage(s)'
<1>1. PICK t, p, o : t = request[s].team /\ p = request[s] /\ o = request'[s]
  OBVIOUS
<1>2. o.team = t /\ p.team = t /\ o.call = p.call /\ Step(o) = Step(p)
  BY <1>1 DEF Kept, Step
<1>3. SameAt(t) /\ (Rest(t) => Rest(t)')
  BY <1>1, SameRest
<1>4. Rest(t)' = Rest(o.team)'
  BY <1>2
<1> QED  BY <1>1, <1>2, <1>3, <1>4 DEF Stage, SameAt

LEMMA OtherTeam ==
    ASSUME CoreInv, NEW r, OthersKept(r), NEW t \in TeamIds, KeysAt(t), SameAt(t),
           r \in InFlight => request[r].team # t, r \in InFlight' => request'[r].team # t
    PROVE  KeysAt(t)'
<1>1. \A s \in InFlight' : request'[s].team = t => s # r
  OBVIOUS
<1>2. \A s \in InFlight' : s # r => s \in InFlight /\ Kept(s)
  BY OthersStand
<1>3. \A s \in InFlight : s # r => s \in InFlight' /\ Kept(s)
  BY DEF InFlight, OthersKept, Kept
<1>4. \A q, s \in InFlight' : request'[q].team = t /\ request'[s].team = t => q = s
  BY <1>1, <1>2 DEF KeysAt, Kept
<1>5. (\A s \in InFlight' : request'[s].team # t) => Rest(t)'
  <2>1. ASSUME \A s \in InFlight' : request'[s].team # t, NEW s \in InFlight
        PROVE  request[s].team # t
    BY <1>3, <2>1 DEF Kept
  <2> QED  BY <2>1, SameRest DEF KeysAt
<1>6. ASSUME NEW s \in InFlight', request'[s].team = t
      PROVE  Stage(s)'
  <2>1. s \in InFlight /\ Kept(s) /\ request[s].team = t
    BY <1>1, <1>2, <1>6 DEF Kept
  <2> QED  BY <2>1, SameStage DEF KeysAt
<1> QED  BY <1>4, <1>5, <1>6 DEF KeysAt

LEMMA OwnTeam ==
    ASSUME CoreInv, NEW r \in InFlight, OthersKept(r), NEW t \in TeamIds, KeysAt(t),
           request[r].team = t, r \in InFlight' => request'[r].team = t /\ Stage(r)',
           r \notin InFlight' => Rest(t)'
    PROVE  KeysAt(t)'
<1>1. \A s \in InFlight' : s # r => s \in InFlight /\ request'[s].team = request[s].team
  BY OthersStand DEF Kept
<1>2. \A s \in InFlight' : request'[s].team = t => s = r
  BY <1>1 DEF KeysAt
<1> QED  BY <1>2 DEF KeysAt

(* What a step does to the team its handler is on.                           *)
TeamStays(r) == request'[r].todo # <<>> => request'[r].team = request[r].team
Proper(r) ==
    \A t \in TeamIds \ torn' : t = request[r].team /\ Stage(r) =>
        /\ request'[r].todo # <<>> => Stage(r)'
        /\ request'[r].todo = <<>> => Rest(t)'
Elsewhere(r) ==
    /\ \A t \in TeamIds \ {request[r].team} :
          teams'[t] = teams[t] /\ keys'[t] = keys[t] /\ (t \in charges' <=> t \in charges)
    /\ skewed => skewed'
    /\ torn \subseteq torn' /\ UNCHANGED lastTeam

LEMMA OnTeam ==
    ASSUME CoreInv, NumbersInv, NEW r \in InFlight, request[r].team \in TeamIds
    PROVE  request[r].team <= lastTeam /\ (NewTeam(request[r]) \/ OldTeam(request[r]))
<1>1. TeamInv(r) /\ CountersInv
  BY DEF NumbersInv
<1>2. NewTeam(request[r]) \/ OldTeam(request[r])
  BY <1>1, WorkspacesAssumption DEF TeamInv
<1> QED  BY <1>1, <1>2 DEF TeamInv, CountersInv

LEMMA KeysStep ==
    ASSUME CoreInv, NumbersInv, KeysInv, NEW r, Works(r), TeamStays(r), Elsewhere(r), Proper(r)
    PROVE  KeysInv'
<1>1. r \in InFlight /\ OthersKept(r)
  BY DEF Works
<1>2. ASSUME NEW t \in TeamIds, t > lastTeam'
      PROVE  keys'[t] = {} /\ t \notin charges'
  <2>1. TeamIds \subseteq Int /\ lastTeam \in Int
    BY TeamInts
  <2>2. t > lastTeam /\ t # request[r].team
    BY <1>1, <1>2, <2>1, OnTeam DEF Elsewhere
  <2> QED  BY <2>2 DEF KeysInv, Elsewhere
<1>3. ASSUME NEW t \in TeamIds \ torn'
      PROVE  KeysAt(t)'
  <2>1. KeysAt(t)
    BY <1>3 DEF KeysInv, Elsewhere
  <2>2. r \in InFlight' => request'[r].todo # <<>>
    BY DEF InFlight
  <2>3. r \notin InFlight' => request'[r].todo = <<>>
    BY <1>1 DEF InFlight
  <2>4. r \in InFlight' => request'[r].team = request[r].team
    BY <2>2 DEF TeamStays
  <2>5. CASE request[r].team = t
    <3>1. Stage(r)
      BY <1>1, <2>1, <2>5 DEF KeysAt
    <3>2. (request'[r].todo # <<>> => Stage(r)') /\ (request'[r].todo = <<>> => Rest(t)')
      BY <1>3, <2>5, <3>1 DEF Proper
    <3> QED  BY <1>1, <2>1, <2>2, <2>3, <2>4, <2>5, <3>2, OwnTeam
  <2>6. CASE request[r].team # t
    <3>1. SameAt(t)
      BY <2>6 DEF Elsewhere, SameAt
    <3> QED  BY <1>1, <2>1, <2>4, <2>6, <3>1, OtherTeam
  <2> QED  BY <2>5, <2>6
<1> QED  BY <1>2, <1>3 DEF KeysInv

LEMMA Proceeds ==
    ASSUME CoreInv, NEW r \in InFlight, NEW q \in RequestType, q.todo = request[r].todo,
           request'[r] = After(q)
    PROVE  /\ <<Step(request[r]), Step(request'[r])>> \in Follows[request[r].call.op]
           /\ request'[r].todo # <<>> => Step(request'[r]) # "none"
<1>1. /\ request[r].todo # <<>> /\ request[r].todo \in Seq(Steps)
      /\ Going(Rests[request[r].call.op], Follows[request[r].call.op], request[r].todo)
      /\ Step(request[r]) = Head(request[r].todo) /\ request[r].call.op \in AllOps
  BY Flying
<1>2. PICK tl : tl = Tail(request[r].todo)
  OBVIOUS
<1>3. <<Step(request[r]), NextStep(tl)>> \in Follows[request[r].call.op]
      /\ (tl = <<>> \/ tl \in Rests[request[r].call.op])
  BY <1>1, <1>2 DEF Going
<1>4. request'[r].todo = tl
  <2>1. tl = Tail(q.todo)
    BY <1>2
  <2>2. CASE tl = <<>>
    <3>1. request'[r] = Idle(q.call)
      BY <2>1, <2>2 DEF After
    <3>2. q.call \in Calls \cup {NoCall}
      BY DEF RequestType
    <3> QED  BY <2>2, <3>1, <3>2, IdleType
  <2>3. CASE tl # <<>>
    <3>1. request'[r] = [q EXCEPT !.todo = tl]
      BY <2>1, <2>3 DEF After
    <3> QED  BY <3>1 DEF RequestType
  <2> QED  BY <2>2, <2>3
<1>5. Step(request'[r]) = NextStep(tl)
  BY <1>4 DEF Step, NextStep
<1>6. ASSUME tl # <<>> PROVE NextStep(tl) # "none"
  <2>1. Going(Rests[request[r].call.op], Follows[request[r].call.op], tl)
    BY <1>1, <1>3, <1>6, AllGoing
  <2>2. PICK m : <<Head(tl), m>> \in Follows[request[r].call.op]
    BY <2>1 DEF Going
  <2> QED  BY <1>1, <1>6, <2>2, Table DEF NextStep
<1> QED  BY <1>3, <1>4, <1>5, <1>6

LEMMA WrotesProceeds ==
    ASSUME CoreInv, NEW r \in InFlight, request' = [request EXCEPT ![r] = After(Wrote(r))]
    PROVE  /\ <<Step(request[r]), Step(request'[r])>> \in Follows[request[r].call.op]
           /\ request'[r].todo = <<>> => Step(request'[r]) = "none"
<1>1. PICK q : q = Wrote(r)
  OBVIOUS
<1>2. q \in RequestType /\ q.todo = request[r].todo /\ request'[r] = After(q)
  BY <1>1, WroteIs, Becomes
<1> QED  BY <1>2, Proceeds DEF Step

(* Where a handler has done nothing to its team yet, or is done with it.     *)
LEMMA RestsAt ==
    ASSUME CoreInv, NumbersInv, NEW r \in InFlight, NEW t \in TeamIds, t = request[r].team, Stage(r),
           Step(request[r]) \notin {"charge", "keys", "commit", "commitUser", "invite", "dropKeys"}
    PROVE  Rest(t)
<1>1. NewTeam(request[r]) \/ OldTeam(request[r])
  BY OnTeam
<1>2. CASE NewTeam(request[r])
  <2>1. teams[t] = "unused" /\ Step(request[r]) \in {"setting", "check", "flag"}
        /\ request[r].call.op \in Making
    BY <1>2 DEF NumbersInv, TeamInv, NewTeam
  <2>2. keys[t] = {} /\ t \notin charges
    BY <2>1 DEF Stage
  <2> QED  BY <2>1, <2>2 DEF Rest
<1>3. CASE request[r].call.op \in {"rename", "close"}
  BY <1>3 DEF Stage
<1>4. CASE request[r].call.op = "leave"
  <2>1. Step(request[r]) \in {"load", "erase", "dropKeys", "drop"}
    <3>1. PICK n : <<Step(request[r]), n>> \in Follows["leave"]
      BY <1>4, Flying DEF Going
    <3> QED  BY <3>1 DEF Follows
  <2>2. CASE Step(request[r]) = "drop"
    BY <1>4, <2>2 DEF Stage, Rest
  <2> QED  BY <2>1, <2>2 DEF Stage
<1> QED  BY <1>1, <1>2, <1>3, <1>4 DEF OldTeam

(* A handler that is at none of these steps with a team has none.            *)
LEMMA NoTeamYet ==
    ASSUME CoreInv, NumbersInv, NEW r \in InFlight,
           Step(request[r]) \in EarlySteps \cup {"look", "team"}
    PROVE  request[r].team \notin TeamIds
<1>1. ASSUME request[r].call.op \in {"rename", "close", "leave"} PROVE FALSE
  <2>1. PICK op, s, n : op = request[r].call.op /\ s = Step(request[r]) /\ <<s, n>> \in Follows[op]
    BY Flying DEF Going
  <2> QED  BY <1>1, <2>1 DEF Follows, EarlySteps
<1> QED  BY <1>1, OnTeam DEF NewTeam, OldTeam, EarlySteps

LEMMA StageStays ==
    ASSUME CoreInv, NumbersInv, NEW r, Works(r), TeamStays(r), UNCHANGED <<teams, keys, charges>>,
           skewed => skewed',
           \/ Step(request[r]) \in {"setting", "check", "flag", "read", "row", "release", "unflag"}
           \/ Step(request[r]) = "drop"
    PROVE  Proper(r)
<1> SUFFICES ASSUME NEW t \in TeamIds \ torn', t = request[r].team, Stage(r)
             PROVE  /\ request'[r].todo # <<>> => Stage(r)'
                    /\ request'[r].todo = <<>> => Rest(t)'
  BY DEF Proper
<1>1. r \in InFlight
  BY DEF Works
<1>2. Rest(t) /\ Rest(t)'
  <2>1. Rest(t)
    BY <1>1, RestsAt
  <2> QED  BY <2>1, SameRest DEF SameAt
<1>3. ASSUME request'[r].todo # <<>>
      PROVE  Stage(r)'
  <2>1. PICK op, s, n : op = request[r].call.op /\ s = Step(request[r]) /\ n = Step(request'[r])
    OBVIOUS
  <2>2. /\ op \in AllOps /\ <<s, n>> \in Follows[op] /\ n # "none" /\ request'[r].call.op = op
        /\ request'[r].team = t
    BY <1>1, <1>3, <2>1, Moves DEF TeamStays
  <2>3. \/ s \in {"setting", "check", "flag"} /\ op \in Making /\ n \in {"check", "flag", "charge", "keys"}
           /\ (op = "newTeam" => n # "keys")
        \/ op = "rename" /\ n \in {"row", "check", "drop", "flag"}
        \/ op = "close" /\ n \in {"unflag", "commitClose"}
    <3>1. s \in {"setting", "check", "flag", "read", "row", "release", "unflag", "drop"}
      BY <2>1
    <3> QED  BY <2>2, <3>1, Table DEF SigningUp, Making
  <2>4. CASE s \in {"setting", "check", "flag"} /\ op \in Making
    <3>1. /\ n \in {"check", "flag", "charge", "keys"} /\ (op = "newTeam" => n # "keys")
          /\ op \notin {"rename", "close", "leave"}
      BY <2>3, <2>4 DEF Making
    <3>2. keys[t] = {} /\ t \notin charges
      BY <2>1, <2>4 DEF Stage
    <3> QED  BY <2>1, <2>2, <3>1, <3>2 DEF Stage
  <2>5. CASE op = "rename" /\ n \in {"row", "check", "drop", "flag"}
    BY <1>2, <2>1, <2>2, <2>5 DEF Stage, Making
  <2>6. CASE op = "close" /\ n \in {"unflag", "commitClose"}
    <3>1. teams[t] = "open"
      BY <2>1, <2>6 DEF Stage
    <3> QED  BY <1>2, <2>1, <2>2, <2>6, <3>1 DEF Stage, Making
  <2> QED  BY <2>3, <2>4, <2>5, <2>6
<1> QED  BY <1>2, <1>3

(* The steps that leave everything of a team as it is.                       *)
LEMMA QuietKeys ==
    ASSUME CoreInv, NumbersInv, KeysInv, NEW r, Works(r), TeamStays(r),
           UNCHANGED <<teams, keys, charges, lastTeam, torn>>, skewed => skewed', Proper(r)
    PROVE  KeysInv'
BY KeysStep DEF Elsewhere

LEMMA EarlyKeys ==
    ASSUME CoreInv, NumbersInv, KeysInv, NEW r \in Requests, EarlyStep(r) \/ Look(r)
    PROVE  KeysInv'
<1>1. /\ Works(r) /\ r \in InFlight /\ Step(request[r]) \in EarlySteps \cup {"look"}
      /\ TeamStays(r) /\ Nothing /\ NoDoubt
  BY EarlyDoes, EarlyLocal, LookDoes DEF Same, SameTeam, TeamStays
<1>2. request[r].team \notin TeamIds
  BY <1>1, NoTeamYet
<1>3. Proper(r)
  BY <1>2 DEF Proper
<1> QED  BY <1>1, <1>3, QuietKeys DEF Nothing, NoDoubt, observed

LEMMA PlainKeys ==
    ASSUME CoreInv, NumbersInv, KeysInv, NEW r \in Requests,
           \/ DropFlag(r) \/ SetFlag(r) \/ ReadName(r) \/ WriteName(r) \/ ReleaseRow(r)
           \/ Unflag(r) \/ InsertSetting(r)
    PROVE  KeysInv'
<1> SUFFICES /\ Works(r) /\ TeamStays(r) /\ UNCHANGED <<teams, keys, charges, lastTeam, torn>>
             /\ skewed => skewed'
             /\ \/ Step(request[r]) \in {"setting", "flag", "read", "row", "release", "unflag"}
                \/ Step(request[r]) = "drop"
  BY QuietKeys, StageStays
<1>1. CASE DropFlag(r) \/ SetFlag(r) \/ WriteName(r)
  BY <1>1, DropDoes, SetFlagDoes, WriteDoes DEF WritesOn, Same, SameTeam, TeamStays, NoDoubt, observed
<1>2. CASE ReadName(r) \/ ReleaseRow(r)
  BY <1>2, ReadDoes, ReleaseDoes DEF SameTeam, TeamStays, Nothing, NoDoubt, observed
<1>3. CASE Unflag(r)
  BY <1>3, UnflagDoes DEF SameTeam, TeamStays
<1>4. CASE InsertSetting(r)
  BY <1>4, InsertSettingDoes DEF TeamStays
<1> QED  BY <1>1, <1>2, <1>3, <1>4

LEMMA StageAlone ==
    ASSUME NEW r, NEW t, t = request[r].team, t = request'[r].team, NEW p, p = request'[r],
           p.call.op \notin {"rename", "close", "leave"}, Step(p) \notin {"load", "erase", "dropKeys"},
           Step(p) \in {"commit", "commitUser", "invite"} =>
              /\ TeamKeys \subseteq keys'[t] /\ "invitations" \notin keys'[t]
              /\ t \in charges' <=> Step(p) # "commitUser",
           Step(p) = "invite" => teams'[t] = "open",
           Step(p) \in {"setting", "check", "flag", "charge", "keys"} =>
              keys'[t] = {} /\ (t \in charges' <=> p.call.op = "newTeam" /\ Step(p) = "keys")
    PROVE  Stage(r)'
BY DEF Stage

LEMMA ChargeKeys ==
    ASSUME CoreInv, NumbersInv, KeysInv, NEW r \in Requests, Charge(r)
    PROVE  KeysInv'
<1>1. /\ Works(r) /\ r \in InFlight /\ Step(request[r]) = "charge" /\ TeamStays(r)
      /\ request[r].team \in TeamIds /\ charges' = charges \cup {request[r].team} /\ NoDoubt
      /\ UNCHANGED <<teams, settings, lastTeam, lastSetting, flags, keys>>
  BY ChargeDoes DEF WritesOn, Same, TeamStays
<1>2. PICK op, n : op = request[r].call.op /\ n = Step(request'[r])
  OBVIOUS
<1>3. <<"charge", n>> \in Follows[op] /\ op \in AllOps /\ request'[r].todo # <<>>
  <2>1. request' = [request EXCEPT ![r] = After(Wrote(r))]
    BY DEF Charge, Advance
  <2>2. <<"charge", n>> \in Follows[op] /\ op \in AllOps /\ (request'[r].todo = <<>> => n = "none")
    BY <1>1, <1>2, <2>1, WrotesProceeds, Flying
  <2> QED  BY <2>2, Table
<1>4. op = "newTeam" /\ n = "keys" /\ request'[r].call.op = op
  BY <1>1, <1>2, <1>3, Table, Moves
<1>5. ASSUME NEW t \in TeamIds, t = request[r].team, Stage(r)
      PROVE  Stage(r)'
  <2>1. keys[t] = {} /\ request'[r].team = t
    BY <1>1, <1>2, <1>3, <1>4, <1>5 DEF Stage, Making, TeamStays
  <2>2. keys'[t] = {} /\ t \in charges'
    BY <1>1, <1>5, <2>1
  <2>3. PICK p : p = request'[r]
    OBVIOUS
  <2> QED  BY <1>2, <1>4, <1>5, <2>1, <2>2, <2>3, StageAlone
<1>6. Proper(r)
  BY <1>3, <1>5 DEF Proper
<1>7. Elsewhere(r)
  BY <1>1 DEF Elsewhere, NoDoubt, observed
<1> QED  BY <1>1, <1>6, <1>7, KeysStep

LEMMA SetKeysKeys ==
    ASSUME CoreInv, NumbersInv, KeysInv, NEW r \in Requests, SetKeys(r)
    PROVE  KeysInv'
<1>1. /\ Works(r) /\ r \in InFlight /\ Step(request[r]) = "keys" /\ TeamStays(r)
      /\ request[r].team \in TeamIds
      /\ UNCHANGED <<teams, settings, lastTeam, lastSetting, flags, charges>>
  BY SetKeysDoes DEF Same, TeamStays
<1>2. PICK K \in SUBSET TeamKeys :
          /\ keys' = [keys EXCEPT ![request[r].team] = @ \cup K]
          /\ \/ K = TeamKeys /\ NoDoubt /\ request'[r].todo # <<>>
             \/ Doubts(request[r]) /\ request'[r].todo = <<>>
  BY SetKeysDoes
<1>3. keys \in [TeamIds -> SUBSET (TeamKeys \cup {"invitations"})] /\ NoTeam \notin TeamIds
  BY TablesAre, WorkspacesAssumption DEF Tables
<1>4. PICK op, n : op = request[r].call.op /\ n = Step(request'[r])
  OBVIOUS
<1>5. ASSUME request'[r].todo # <<>>
      PROVE  \/ op = "newTeam" /\ n = "commit"
             \/ op \in SigningUp /\ n = "commitUser"
  <2>1. op \in AllOps /\ <<"keys", n>> \in Follows[op]
    BY <1>1, <1>4, <1>5, Moves
  <2> QED  BY <2>1, Table
<1>6. ASSUME NEW t \in TeamIds \ torn', t = request[r].team, Stage(r)
      PROVE  request'[r].todo # <<>> /\ Stage(r)'
  <2>1. K = TeamKeys /\ request'[r].todo # <<>>
    BY <1>2, <1>3, <1>6 DEF Doubts
  <2>2. op \in Making /\ request'[r].call.op = op /\ request'[r].team = t
    BY <1>1, <1>4, <1>5, <1>6, <2>1, Moves DEF TeamStays, Making, SigningUp
  <2>3. keys[t] = {} /\ (t \in charges <=> op = "newTeam")
    BY <1>1, <1>4, <1>6, <2>2 DEF Stage
  <2>4. keys'[t] = TeamKeys /\ (t \in charges' <=> op = "newTeam")
    BY <1>1, <1>2, <1>3, <1>6, <2>1, <2>3
  <2>5. PICK p : p = request'[r]
    OBVIOUS
  <2>6. "invitations" \notin TeamKeys
    BY DEF TeamKeys
  <2>7. /\ p.call.op = op /\ Step(p) = n /\ n \in {"commit", "commitUser"}
        /\ (op = "newTeam" <=> n # "commitUser")
    BY <1>4, <1>5, <2>1, <2>2, <2>5 DEF SigningUp
  <2>8. op \notin {"rename", "close", "leave"}
    BY <2>2 DEF Making
  <2>9. Stage(r)'
    BY <1>6, <2>2, <2>4, <2>5, <2>6, <2>7, <2>8, StageAlone
  <2> QED  BY <2>1, <2>9
<1>7. Proper(r)
  BY <1>6 DEF Proper
<1>8. Elsewhere(r)
  BY <1>1, <1>2, <1>3 DEF Elsewhere, NoDoubt, observed, Doubts
<1> QED  BY <1>1, <1>7, <1>8, KeysStep

LEMMA ShowKeys ==
    ASSUME CoreInv, NumbersInv, KeysInv, NEW r \in Requests,
           Doing(r, "commit") \/ Doing(r, "commitUser"), ShowTeam(r)
    PROVE  KeysInv'
<1>1. /\ Works(r) /\ r \in InFlight /\ TeamStays(r) /\ NoDoubt
      /\ request[r].call.op \in Making /\ Step(request[r]) \in {"commit", "commitUser"}
      /\ Step(request[r]) = "commit" =>
            request'[r].todo # <<>> /\ Step(request'[r]) = "invite"
      /\ Step(request[r]) = "commitUser" => request'[r].todo = <<>>
      /\ request[r].team \in TeamIds
      /\ teams' = [teams EXCEPT ![request[r].team] = "open"]
      /\ UNCHANGED <<lastTeam, lastSetting, flags, keys, charges>>
  BY ShowDoes DEF WritesOn, Same, TeamStays
<1>2. teams \in [TeamIds -> {"unused", "open", "closed", "left"}]
  BY TablesAre DEF Tables
<1>3. ASSUME NEW t \in TeamIds, t = request[r].team, Stage(r)
      PROVE  /\ request'[r].todo # <<>> => Stage(r)'
             /\ request'[r].todo = <<>> => Rest(t)'
  <2>1. /\ TeamKeys \subseteq keys'[t] /\ "invitations" \notin keys'[t] /\ teams'[t] = "open"
        /\ t \in charges' <=> Step(request[r]) # "commitUser"
    BY <1>1, <1>2, <1>3 DEF Stage
  <2>2. CASE Step(request[r]) = "commit"
    <3>1. PICK p : p = request'[r]
      OBVIOUS
    <3>2. p.call = request[r].call /\ p.team = t /\ Step(p) = "invite"
      BY <1>1, <1>3, <2>2, <3>1, Moves DEF TeamStays
    <3>3. p.call.op \notin {"rename", "close", "leave"}
      BY <1>1, <3>2 DEF Making
    <3>4. Stage(r)'
      BY <1>3, <2>1, <2>2, <3>1, <3>2, <3>3, StageAlone
    <3> QED  BY <1>1, <2>2, <3>4
  <2>3. CASE Step(request[r]) = "commitUser"
    BY <1>1, <2>1, <2>3 DEF Rest
  <2> QED  BY <1>1, <2>2, <2>3
<1>4. Proper(r)
  BY <1>3 DEF Proper
<1>5. Elsewhere(r)
  BY <1>1, <1>2 DEF Elsewhere, NoDoubt, observed
<1> QED  BY <1>1, <1>4, <1>5, KeysStep

LEMMA InviteKeys ==
    ASSUME CoreInv, NumbersInv, KeysInv, NEW r \in Requests, SaveInvitations(r)
    PROVE  KeysInv'
<1>1. /\ Works(r) /\ TeamStays(r) /\ Step(request[r]) = "invite"
      /\ request[r].team \in TeamIds
      /\ keys' = [keys EXCEPT ![request[r].team] = @ \cup {"invitations"}] /\ NoDoubt
      /\ request'[r].todo = <<>>
      /\ UNCHANGED <<teams, settings, lastTeam, lastSetting, flags, charges>>
  BY InviteDoes DEF TeamStays
<1>2. keys \in [TeamIds -> SUBSET (TeamKeys \cup {"invitations"})]
  BY TablesAre DEF Tables
<1>3. ASSUME NEW t \in TeamIds, t = request[r].team, Stage(r)
      PROVE  Rest(t)'
  <2>1. TeamKeys \subseteq keys[t] /\ t \in charges /\ teams[t] = "open"
    BY <1>1, <1>3 DEF Stage
  <2>2. keys'[t] = keys[t] \cup {"invitations"} /\ t \in charges' /\ teams'[t] = "open"
    BY <1>1, <1>2, <1>3, <2>1
  <2> QED  BY <2>1, <2>2 DEF Rest
<1>4. Proper(r)
  BY <1>1, <1>3 DEF Proper
<1>5. Elsewhere(r)
  BY <1>1, <1>2 DEF Elsewhere, NoDoubt, observed
<1> QED  BY <1>1, <1>4, <1>5, KeysStep

LEMMA CloseKeys ==
    ASSUME CoreInv, NumbersInv, KeysInv, NEW r \in Requests, CommitClose(r)
    PROVE  KeysInv'
<1>1. /\ Works(r) /\ r \in InFlight /\ TeamStays(r) /\ Step(request[r]) = "commitClose"
      /\ request[r].call.op = "close" /\ request[r].team \in TeamIds
      /\ teams' = [teams EXCEPT ![request[r].team] = "closed"]
      /\ NoDoubt
      /\ UNCHANGED <<lastTeam, lastSetting, flags, keys, charges>>
  BY CommitCloseDoes DEF Same, TeamStays
<1>2. teams \in [TeamIds -> {"unused", "open", "closed", "left"}]
  BY TablesAre DEF Tables
<1>3. request'[r].todo = <<>>
  <2>1. ASSUME request'[r].todo # <<>> PROVE FALSE
    <3>1. PICK n : n = Step(request'[r])
      OBVIOUS
    <3>2. <<"commitClose", n>> \in Follows["close"] /\ n # "none" /\ "close" \in AllOps
      BY <1>1, <2>1, <3>1, Moves
    <3> QED  BY <3>2, Table
  <2> QED  BY <2>1
<1>4. ASSUME NEW t \in TeamIds, t = request[r].team, Stage(r)
      PROVE  Rest(t)'
  <2>1. Rest(t) /\ teams[t] = "open"
    BY <1>1, <1>4 DEF Stage
  <2>2. teams'[t] = "closed"
    BY <1>1, <1>2, <1>4
  <2> QED  BY <1>1, <2>1, <2>2 DEF Rest
<1>5. Proper(r)
  BY <1>3, <1>4 DEF Proper
<1>6. Elsewhere(r)
  BY <1>1, <1>2 DEF Elsewhere, NoDoubt, observed
<1> QED  BY <1>1, <1>5, <1>6, KeysStep

LEMMA StageLeaves ==
    ASSUME NEW r, NEW t, t = request[r].team, t = request'[r].team, NEW p, p = request'[r],
           p.call.op = "leave", Step(p) \in {"erase", "dropKeys", "drop"},
           Step(p) = "erase" => Rest(t)',
           teams'[t] = "closed" => skewed',
           Step(p) \in {"dropKeys", "drop"} =>
              /\ teams'[t] \in {"closed", "left"}
              /\ t \in charges' <=> "invitations" \in keys'[t],
           Step(p) = "drop" => keys'[t] \cap {"availability", "event"} = {}
    PROVE  Stage(r)'
<1>1. Step(p) = "erase" => Rest(request[r].team)'
  OBVIOUS
<1> QED  BY <1>1 DEF Stage, Making

LEMMA LoadKeys ==
    ASSUME CoreInv, NumbersInv, KeysInv, DriftInv, LeaveInv, NEW r \in Requests, LoadUser(r)
    PROVE  KeysInv'
<1>1. /\ Works(r) /\ r \in InFlight /\ TeamStays(r) /\ Step(request[r]) = "load"
      /\ request[r].call.op = "leave" /\ Nothing /\ NoDoubt
  BY LoadDoes DEF TeamStays
<1>2. ASSUME NEW t \in TeamIds, t = request[r].team, Stage(r), request'[r].todo # <<>>
      PROVE  Stage(r)'
  <2>1. PICK n, p : p = request'[r] /\ n = Step(p)
    OBVIOUS
  <2>2. <<"load", n>> \in Follows["leave"] /\ "leave" \in AllOps /\ p.call.op = "leave" /\ p.team = t
    BY <1>1, <1>2, <2>1, Moves DEF TeamStays
  <2>3. n = "erase"
    BY <2>2, Table
  <2>4. PICK u : u = Person(r).user
    OBVIOUS
  <2>5. Exists(u) /\ RowsOf(users[u].team) # {}
    <3>1. ASSUME Refuse(r) PROVE FALSE
      BY <1>1, <1>2, <3>1, StopSame DEF Refuse
    <3> QED  BY <2>4, <3>1 DEF LoadUser
  <2>6. RowsOf(t) # {}
    BY <1>1, <1>2, <2>4, <2>5 DEF LeaveInv
  <2>7. teams[t] = "closed" => skewed
    BY <2>6 DEF DriftInv, DriftRows, RowsOf
  <2>8. Rest(t)'
    <3>1. Rest(t)
      BY <1>1, <1>2 DEF Stage
    <3> QED  BY <1>1, <3>1, SameRest DEF SameAt, Nothing, NoDoubt, observed
  <2>9. teams'[t] = "closed" => skewed'
    BY <1>1, <2>7 DEF Nothing, NoDoubt, observed
  <2> QED  BY <1>2, <2>1, <2>2, <2>3, <2>8, <2>9, StageLeaves
<1>3. ASSUME NEW t \in TeamIds, t = request[r].team, Stage(r)
      PROVE  Rest(t)'
  <2>1. Rest(t)
    BY <1>1, <1>3 DEF Stage
  <2> QED  BY <1>1, <2>1, SameRest DEF SameAt, Nothing, NoDoubt, observed
<1>4. Proper(r)
  BY <1>2, <1>3 DEF Proper
<1> QED  BY <1>1, <1>4, QuietKeys DEF Nothing, NoDoubt, observed

LEMMA EraseKeys ==
    ASSUME CoreInv, NumbersInv, KeysInv, NEW r \in Requests, EraseUser(r)
    PROVE  KeysInv'
<1>1. /\ Works(r) /\ r \in InFlight /\ TeamStays(r) /\ Step(request[r]) = "erase"
      /\ request[r].call.op = "leave" /\ request[r].team \in TeamIds /\ NoDoubt
      /\ teams' = [teams EXCEPT ![request[r].team] = IF @ = "open" THEN "left" ELSE @]
      /\ UNCHANGED <<settings, lastTeam, lastSetting, flags, keys, charges>>
  BY EraseDoes DEF WritesOn, Same, TeamStays
<1>2. teams \in [TeamIds -> {"unused", "open", "closed", "left"}]
  BY TablesAre DEF Tables
<1>3. PICK n, p : p = request'[r] /\ n = Step(p)
  OBVIOUS
<1>4. p.todo # <<>> /\ n = "dropKeys" /\ p.call.op = "leave" /\ p.team = request[r].team
  <2>1. request' = [request EXCEPT ![r] = After(Wrote(r))]
    BY DEF EraseUser, Advance
  <2>2. <<"erase", n>> \in Follows["leave"] /\ (p.todo = <<>> => n = "none") /\ "leave" \in AllOps
    BY <1>1, <1>3, <2>1, WrotesProceeds, Flying
  <2>3. n = "dropKeys"
    BY <2>2, Table
  <2> QED  BY <1>1, <1>3, <2>2, <2>3, Moves DEF TeamStays
<1>5. ASSUME NEW t \in TeamIds, t = request[r].team, Stage(r)
      PROVE  Stage(r)'
  <2>1. Rest(t) /\ (teams[t] = "closed" => skewed)
    BY <1>1, <1>5 DEF Stage
  <2>2. teams[t] # "unused"
    BY <1>1, <1>5 DEF NumbersInv, TeamInv, OldTeam
  <2>3. teams'[t] = IF teams[t] = "open" THEN "left" ELSE teams[t]
    BY <1>1, <1>2, <1>5
  <2>4. teams'[t] \in {"closed", "left"} /\ (teams'[t] = "closed" => skewed')
    BY <1>1, <1>2, <2>1, <2>2, <2>3 DEF NoDoubt, observed
  <2>5. t \in charges' <=> "invitations" \in keys'[t]
    BY <1>1, <2>1 DEF Rest
  <2> QED  BY <1>3, <1>4, <1>5, <2>4, <2>5, StageLeaves
<1>6. Proper(r)
  BY <1>3, <1>4, <1>5 DEF Proper
<1>7. Elsewhere(r)
  BY <1>1, <1>2 DEF Elsewhere, NoDoubt, observed
<1> QED  BY <1>1, <1>6, <1>7, KeysStep

LEMMA DropKeysKeys ==
    ASSUME CoreInv, NumbersInv, KeysInv, NEW r \in Requests, DropKeys(r)
    PROVE  KeysInv'
<1>1. /\ Works(r) /\ r \in InFlight /\ TeamStays(r) /\ Step(request[r]) = "dropKeys"
      /\ request[r].call.op = "leave" /\ request[r].team \in TeamIds
      /\ UNCHANGED <<teams, settings, lastTeam, lastSetting, flags, charges>>
  BY DropKeysDoes DEF Same, TeamStays
<1>2. PICK dropped \in SUBSET {"availability", "event"} :
          /\ keys' = [keys EXCEPT ![request[r].team] = @ \ dropped]
          /\ \/ dropped = {"availability", "event"} /\ NoDoubt
             \/ Doubts(request[r]) /\ request'[r].todo = <<>>
  BY DropKeysDoes
<1>3. keys \in [TeamIds -> SUBSET (TeamKeys \cup {"invitations"})] /\ NoTeam \notin TeamIds
  BY TablesAre, WorkspacesAssumption DEF Tables
<1>4. ASSUME NEW t \in TeamIds \ torn', t = request[r].team, Stage(r)
      PROVE  /\ request'[r].todo # <<>> => Stage(r)'
             /\ request'[r].todo = <<>> => Rest(t)'
  <2>1. dropped = {"availability", "event"} /\ NoDoubt
    BY <1>2, <1>3, <1>4 DEF Doubts
  <2>2. /\ teams[t] \in {"closed", "left"} /\ (t \in charges <=> "invitations" \in keys[t])
        /\ teams[t] = "closed" => skewed
    BY <1>1, <1>4 DEF Stage
  <2>3. keys'[t] = keys[t] \ {"availability", "event"}
    BY <1>2, <1>3, <1>4, <2>1
  <2>4. /\ teams'[t] \in {"closed", "left"} /\ (t \in charges' <=> "invitations" \in keys'[t])
        /\ teams'[t] = "closed" => skewed'
        /\ keys'[t] \cap {"availability", "event"} = {}
    BY <1>1, <2>1, <2>2, <2>3 DEF NoDoubt, observed
  <2>5. Rest(t)'
    BY <2>4 DEF Rest
  <2>6. ASSUME request'[r].todo # <<>> PROVE Stage(r)'
    <3>1. PICK n, p : p = request'[r] /\ n = Step(p)
      OBVIOUS
    <3>2. <<"dropKeys", n>> \in Follows["leave"] /\ "leave" \in AllOps /\ p.call.op = "leave" /\ p.team = t
      BY <1>1, <1>4, <2>6, <3>1, Moves DEF TeamStays
    <3>3. n = "drop"
      BY <3>2, Table
    <3> QED  BY <1>4, <2>4, <3>1, <3>2, <3>3, StageLeaves
  <2> QED  BY <2>5, <2>6
<1>5. Proper(r)
  BY <1>4 DEF Proper
<1>6. Elsewhere(r)
  BY <1>1, <1>2, <1>3 DEF Elsewhere, NoDoubt, observed, Doubts
<1> QED  BY <1>1, <1>5, <1>6, KeysStep

LEMMA CheckKeys ==
    ASSUME CoreInv, NumbersInv, KeysInv, NEW r \in Requests, CheckFlag(r)
    PROVE  KeysInv'
<1>1. /\ Works(r) /\ r \in InFlight /\ TeamStays(r) /\ Step(request[r]) = "check" /\ Nothing
      /\ NoDoubt \/ Doubts(request[r])
  BY CheckDoes DEF TeamStays
<1>2. /\ UNCHANGED <<teams, keys, charges, lastTeam, skewed>> /\ torn \subseteq torn'
  BY <1>1 DEF Nothing, NoDoubt, observed, Doubts
<1>3. ASSUME NEW t \in TeamIds, t = request[r].team, Stage(r)
      PROVE  Rest(t)'
  <2>1. Rest(t)
    BY <1>1, <1>3, RestsAt
  <2> QED  BY <1>2, <2>1, SameRest DEF SameAt
<1>4. ASSUME NEW t \in TeamIds, t = request[r].team, Stage(r), request'[r].todo # <<>>
      PROVE  Stage(r)'
  <2>1. PICK op, n, p : p = request'[r] /\ n = Step(p) /\ op = request[r].call.op
    OBVIOUS
  <2>2. <<"check", n>> \in Follows[op] /\ op \in AllOps /\ p.call.op = op /\ p.team = t
    BY <1>1, <1>4, <2>1, Moves DEF TeamStays
  <2>3. (op \in Making /\ n = "flag") \/ (op = "rename" /\ n = "drop")
    BY <2>2, Table
  <2>4. CASE op \in Making /\ n = "flag"
    <3>1. keys[t] = {} /\ t \notin charges
      BY <1>1, <1>4, <2>1, <2>4 DEF Stage
    <3>2. keys'[t] = {} /\ t \notin charges' /\ op \notin {"rename", "close", "leave"}
      BY <1>2, <2>4, <3>1 DEF Making
    <3> QED  BY <1>4, <2>1, <2>2, <2>4, <3>2, StageAlone
  <2>5. CASE op = "rename" /\ n = "drop"
    <3>1. Rest(request[r].team)'
      BY <1>3, <1>4, <2>1, <2>2
    <3> QED  BY <2>1, <2>2, <2>5, <3>1 DEF Stage, Making
  <2> QED  BY <2>3, <2>4, <2>5
<1>5. Proper(r)
  BY <1>3, <1>4 DEF Proper
<1>6. Elsewhere(r)
  BY <1>2 DEF Elsewhere
<1> QED  BY <1>1, <1>5, <1>6, KeysStep

LEMMA FailKeys ==
    ASSUME CoreInv, NumbersInv, AllWroteInv, KeysInv, NEW r \in Requests, FailAccount(r)
    PROVE  KeysInv'
<1>1. /\ Works(r) /\ r \in InFlight /\ TeamStays(r) /\ Nothing /\ request'[r].todo = <<>>
      /\ NoDoubt \/ Doubts(request[r])
      /\ request[r].wrote => Doubts(request[r])
  BY FailDoes DEF TeamStays
<1>2. /\ UNCHANGED <<teams, keys, charges, lastTeam, skewed>> /\ torn \subseteq torn'
  BY <1>1 DEF Nothing, NoDoubt, observed, Doubts
<1>3. ASSUME NEW t \in TeamIds \ torn', t = request[r].team, Stage(r)
      PROVE  Rest(t)'
  <2>1. ~request[r].wrote
    BY <1>1, <1>3, WorkspacesAssumption DEF Doubts
  <2>2. WroteInv(r)
    BY <1>1 DEF AllWroteInv
  <2>3. Step(request[r]) \notin {"charge", "keys", "commit", "commitUser", "invite", "dropKeys"}
    <3>1. PICK op, s, n : op = request[r].call.op /\ s = Step(request[r]) /\ <<s, n>> \in Follows[op]
                          /\ op \in AllOps
      BY <1>1, Flying DEF Going
    <3>2. /\ s \in {"charge", "keys", "commit", "commitUser", "invite"} => op \in Making
          /\ s = "dropKeys" => op = "leave"
      BY <3>1, Table DEF Making, SigningUp
    <3> QED  BY <2>1, <2>2, <3>1, <3>2 DEF WroteInv
  <2>4. Rest(t)
    BY <1>1, <1>3, <2>3, RestsAt
  <2> QED  BY <1>2, <2>4, SameRest DEF SameAt
<1>4. Proper(r)
  BY <1>1, <1>3 DEF Proper
<1>5. Elsewhere(r)
  BY <1>2 DEF Elsewhere
<1> QED  BY <1>1, <1>4, <1>5, KeysStep

LEMMA InsertTeamKeys ==
    ASSUME CoreInv, NumbersInv, KeysInv, NEW r \in Requests, InsertTeam(r)
    PROVE  KeysInv'
<1>1. /\ Works(r) /\ r \in InFlight /\ OthersKept(r) /\ Step(request[r]) = "team" /\ NoDoubt
      /\ request[r].call.op \in Making
      /\ lastTeam + 1 \in TeamIds /\ lastTeam' = lastTeam + 1
      /\ request'[r].todo # <<>> =>
            /\ request'[r].team = lastTeam + 1 /\ request'[r].call = request[r].call
            /\ Step(request'[r]) = "setting"
      /\ UNCHANGED <<teams, settings, lastSetting, flags, keys, charges>>
  BY InsertTeamDoes DEF Works
<1>2. PICK n : n = lastTeam + 1
  OBVIOUS
<1>3. TeamIds \subseteq Int /\ lastTeam \in Int
  BY TeamInts
<1>4. request[r].team \notin TeamIds
  BY <1>1, NoTeamYet
<1>5. \A t \in TeamIds : SameAt(t)
  BY <1>1 DEF SameAt, NoDoubt, observed
<1>6. ASSUME NEW t \in TeamIds \ torn', t # n
      PROVE  KeysAt(t)'
  <2>1. KeysAt(t)
    BY <1>1, <1>6 DEF KeysInv, NoDoubt, observed
  <2>2. r \in InFlight' => request'[r].team # t
    BY <1>1, <1>2, <1>6 DEF InFlight
  <2> QED  BY <1>1, <1>4, <1>5, <1>6, <2>1, <2>2, OtherTeam
<1>7. /\ teams'[n] = "unused" /\ keys'[n] = {} /\ n \notin charges' /\ n \in TeamIds /\ n > lastTeam
  <2>1. n \in TeamIds /\ n > lastTeam /\ n \in Int /\ ~(n <= lastTeam)
    BY <1>1, <1>2, <1>3
  <2> QED  BY <1>1, <2>1 DEF NumbersInv, CountersInv, KeysInv
<1>8. \A s \in InFlight : request[s].team # n
  <2>1. ASSUME NEW s \in InFlight, request[s].team = n PROVE FALSE
    <3>1. n <= lastTeam
      BY <1>7, <2>1, OnTeam
    <3> QED  BY <1>3, <1>7, <3>1
  <2> QED  BY <2>1
<1>9. KeysAt(n)'
  <2>1. \A s \in InFlight' : request'[s].team = n => s = r
    BY <1>1, <1>8, OthersStand DEF Kept
  <2>2. Rest(n)'
    BY <1>7 DEF Rest
  <2>3. ASSUME r \in InFlight' PROVE Stage(r)'
    <3>1. PICK p : p = request'[r]
      OBVIOUS
    <3>2. p.team = n /\ Step(p) = "setting" /\ p.call.op \in Making
      BY <1>1, <1>2, <2>3, <3>1 DEF InFlight
    <3>3. request'[r].team = n /\ p.call.op \notin {"rename", "close", "leave"}
      BY <3>1, <3>2 DEF Making
    <3> QED  BY <1>7, <3>1, <3>2, <3>3 DEF Stage
  <2> QED  BY <2>1, <2>2, <2>3 DEF KeysAt
<1>10. ASSUME NEW t \in TeamIds, t > lastTeam'
       PROVE  keys'[t] = {} /\ t \notin charges'
  BY <1>1, <1>3, <1>10 DEF KeysInv
<1> QED  BY <1>6, <1>9, <1>10 DEF KeysInv

LEMMA BeginTears ==
    ASSUME NEW r, NEW call, NEW todo, NEW t, NEW n, Begin(r, call, todo, t, n), t # NoTeam
    PROVE  /\ torn \subseteq torn'
           /\ t \notin torn' => \A s \in InFlight : request[s].team # t
<1>1. PICK others : others = Meets(call, t)
  OBVIOUS
<1>2. IF others = {} THEN UNCHANGED torn ELSE torn' = torn \cup {t}
  BY <1>1 DEF Begin, NoDoubt, observed
<1>3. \A s \in InFlight : request[s].team = t => s \in others
  BY <1>1 DEF Meets
<1> QED  BY <1>2, <1>3

LEMMA BeginAlone ==
    ASSUME NEW r, NEW call, NEW todo, NEW n, Begin(r, call, todo, NoTeam, n)
    PROVE  UNCHANGED torn
<1>1. Meets(call, NoTeam) = {}
  BY DEF Meets
<1> QED  BY <1>1 DEF Begin, NoDoubt, observed

LEMMA ComesKeys ==
    ASSUME CoreInv, NumbersInv, KeysInv, NEW r \in Requests, NEW call \in Calls, Comes(r, call),
           KnowsTeam(r, call), Nothing, UNCHANGED skewed, torn \subseteq torn',
           call.op = "close" => teams[request'[r].team] = "open",
           \A t \in TeamIds \ torn' : t = request'[r].team =>
               \A s \in InFlight : request[s].team # t
    PROVE  KeysInv'
<1>1. /\ r \notin InFlight /\ request'[r].call = call /\ Step(request'[r]) = Start[call.op]
      /\ call.op \in AllOps /\ OthersKept(r)
  BY CallFacts, ComesOthers DEF Comes
<1>2. \A t \in TeamIds : SameAt(t)
  BY DEF SameAt, Nothing
<1>3. ASSUME NEW t \in TeamIds \ torn', t # request'[r].team
      PROVE  KeysAt(t)'
  <2>1. KeysAt(t)
    BY <1>3 DEF KeysInv
  <2> QED  BY <1>1, <1>2, <1>3, <2>1, OtherTeam
<1>4. ASSUME NEW t \in TeamIds \ torn', t = request'[r].team
      PROVE  KeysAt(t)'
  <2>1. Rest(t)
    BY <1>4 DEF KeysInv, KeysAt
  <2>2. Rest(t)'
    BY <1>2, <2>1, SameRest
  <2>3. \A s \in InFlight' : request'[s].team = t => s = r
    BY <1>1, <1>4, OthersStand DEF Kept
  <2>4. call.op \in {"rename", "close", "leave"}
    BY <1>4, WorkspacesAssumption DEF KnowsTeam
  <2>5. Rest(request[r].team)'
    BY <1>4, <2>2
  <2>6. Start[call.op] \in {"read", "release", "load"} /\ (Start[call.op] = "load" => call.op = "leave")
    BY <2>4 DEF Start
  <2>7. call.op = "close" => teams'[t] = "open"
    BY <1>4 DEF Nothing
  <2>8. Stage(r)'
    BY <1>1, <1>4, <2>4, <2>5, <2>6, <2>7 DEF Stage, Making
  <2>9. r \in InFlight'
    BY DEF Comes, InFlight
  <2> QED  BY <1>4, <2>3, <2>8, <2>9 DEF KeysAt
<1>5. ASSUME NEW t \in TeamIds, t > lastTeam'
      PROVE  keys'[t] = {} /\ t \notin charges'
  BY <1>5 DEF KeysInv, Nothing
<1> QED  BY <1>3, <1>4, <1>5 DEF KeysInv

LEMMA ComesTears ==
    ASSUME CoreInv, NEW r \in Requests, NEW call \in Calls, Receive(r, call) \/ ReceiveAccount(r, call)
    PROVE  /\ torn \subseteq torn'
           /\ \A t \in TeamIds \ torn' : t = request'[r].team =>
                 \A s \in InFlight : request[s].team # t
           /\ Receive(r, call) /\ call.op = "close" => teams[request'[r].team] = "open"
<1>1. PICK todo, t, n : /\ Begin(r, call, todo, t, n)
                        /\ Receive(r, call) /\ call.op = "close" => t = call.team /\ teams[t] = "open"
  BY DEF Receive, ReceiveAccount
<1>2. request'[r].team = t
  <2>1. request' = [request EXCEPT ![r] = [Idle(call) EXCEPT !.todo = todo, !.team = t, !.name = n]]
    BY <1>1 DEF Begin
  <2> QED  BY <2>1, Requesting DEF Idle
<1>3. CASE t = NoTeam
  <2>1. UNCHANGED torn
    BY <1>1, <1>3, BeginAlone
  <2> QED  BY <1>1, <1>2, <1>3, <2>1, WorkspacesAssumption
<1>4. CASE t # NoTeam
  BY <1>1, <1>2, <1>4, BeginTears
<1> QED  BY <1>3, <1>4

LEMMA NextKeys ==
    CoreInv /\ NumbersInv /\ DriftInv /\ AllWroteInv /\ LeaveInv /\ KeysInv /\ [Next]_vars
        => KeysInv'
<1> SUFFICES ASSUME CoreInv, NumbersInv, DriftInv, AllWroteInv, LeaveInv, KeysInv, [Next]_vars
             PROVE  KeysInv'
  OBVIOUS
<1>1. ASSUME NEW r \in Requests, NEW call \in Calls, Receive(r, call) /\ Keeps
      PROVE  KeysInv'
  <2>1. /\ Comes(r, call) /\ KnowsTeam(r, call) /\ Nothing /\ UNCHANGED skewed
        /\ torn \subseteq torn' /\ (call.op = "close" => teams[request'[r].team] = "open")
        /\ \A t \in TeamIds \ torn' : t = request'[r].team =>
               \A s \in InFlight : request[s].team # t
    BY <1>1, ReceiveCore, ReceiveGiven, ComesMarks, ComesTears
  <2> QED  BY <2>1, ComesKeys
<1>2. ASSUME NEW r \in Requests, NEW call \in Calls, ReceiveAccount(r, call)
      PROVE  KeysInv'
  <2>1. /\ Comes(r, call) /\ KnowsTeam(r, call) /\ Nothing /\ UNCHANGED skewed
        /\ torn \subseteq torn' /\ call.op # "close"
        /\ \A t \in TeamIds \ torn' : t = request'[r].team =>
               \A s \in InFlight : request[s].team # t
    BY <1>2, AccountCore, AccountGiven, ComesMarks, ComesTears DEF NumbersInv, AccountOps
  <2> QED  BY <2>1, ComesKeys
<1>3. ASSUME NEW r \in Requests,
             (WorkspacesStep(r) /\ Keeps) \/ AccountStep(r) \/ FailAccount(r)
      PROVE  KeysInv'
  <2>1. CASE CommitSignUp(r) \/ CommitTeam(r)
    BY <2>1, ShowKeys DEF CommitTeam, CommitSignUp
  <2> QED  BY <1>3, <2>1, StepsAll, EarlyKeys, PlainKeys, ChargeKeys, SetKeysKeys, InviteKeys,
              CloseKeys, LoadKeys, EraseKeys, DropKeysKeys, CheckKeys, FailKeys, InsertTeamKeys
<1>4. ASSUME UNCHANGED wsVars PROVE KeysInv'
  <2>1. /\ UNCHANGED <<teams, keys, charges, lastTeam, torn, skewed, request>>
        /\ InFlight' = InFlight
    BY <1>4 DEF wsVars, InFlight
  <2>2. ASSUME NEW t PROVE Rest(t) <=> Rest(t)'
    BY <2>1 DEF Rest
  <2>3. ASSUME NEW s \in InFlight, Stage(s) PROVE Stage(s)'
    <3>1. SameAt(request[s].team) /\ Kept(s)
      BY <2>1 DEF SameAt, Kept
    <3> QED  BY <2>3, <3>1, SameStage
  <2> QED  BY <2>1, <2>2, <2>3 DEF KeysInv, KeysAt
<1>5. ASSUME NEW a \in Addresses, Expire(a) PROVE KeysInv'
  BY <1>4, <1>5 DEF Expire
<1>6. CASE UNCHANGED vars
  BY <1>4, <1>6 DEF vars
<1> QED  BY <1>1, <1>2, <1>3, <1>5, <1>6 DEF Next

LEMMA InitKeys == Init => KeysInv
<1> SUFFICES ASSUME Init PROVE KeysInv
  OBVIOUS
<1>1. InFlight = {}
  BY InitTeams DEF Init
<1>2. ASSUME NEW t \in TeamIds
      PROVE  Rest(t) /\ (t > lastTeam => keys[t] = {} /\ t \notin charges)
  <2>1. /\ teams[t] = (IF IsGiven(t) THEN "open" ELSE "unused")
        /\ keys[t] = (IF IsGiven(t) THEN TeamKeys ELSE {})
        /\ charges = {}
    BY DEF Init, WorkspacesInit
  <2>2. IsGiven(t) => ~(t > lastTeam)
    <3>1. CoreInv /\ NumbersInv
      BY InitCore, InitNumbers
    <3>2. TeamIds \subseteq Int /\ lastTeam \in Int
      BY <3>1, TeamInts
    <3> QED  BY <2>1, <3>1, <3>2 DEF NumbersInv, CountersInv
  <2> QED  BY <2>1, <2>2 DEF Rest, TeamKeys
<1> QED  BY <1>1, <1>2 DEF KeysInv, KeysAt

LEMMA KeysOfTeams == KeysInv => KeysFollowTeams
<1> SUFFICES ASSUME KeysInv, NEW t \in TeamIds, Whole(t) PROVE Rest(t)
  BY DEF KeysFollowTeams, Rest
<1> QED  BY DEF KeysInv, KeysAt, Whole

(* All a team consists of is there or gone with it: an open team is found by *)
(* one name and a closed one by none, unless the two counters have drifted   *)
(* apart, and what Redis and the payment gateway have of a team follows its  *)
(* row, unless the request that made it, or one that overlapped, broke off.  *)
THEOREM TeamsWholeCorrect == Spec => []TeamsWhole
<1> DEFINE Inv == CoreInv /\ NumbersInv /\ DriftInv /\ AllWroteInv /\ LeaveInv /\ KeysInv
<1>1. Init => Inv
  BY InitCore, InitNumbers, InitDrift, InitWrote, InitKeys
<1>2. Inv /\ [Next]_vars => Inv'
  BY NextCore, NextNumbers, NextDrift, NextWrote, NextKeys
<1>3. Inv => TeamsWhole
  BY NamesOfTeams, KeysOfTeams DEF TeamsWhole
<1> QED  BY <1>1, <1>2, <1>3, PTL DEF Spec

-----------------------------------------------------------------------------
(* Who claims the flag of a name: the settings that have it, unless a rename *)
(* or the closing of the team is at work on them, or the one who makes them. *)
Rewrites(r, t) ==
    request[r].wrote /\ request[r].call.op = "rename" /\ request[r].team = t
Clears(r, s) ==
    request[r].wrote /\ request[r].call.op = "close" /\ request[r].team = s
RowClaims(s, n) ==
    /\ IsRow(s)
    /\ \A c \in InFlight : ~Clears(c, s)
    /\ \/ settings[s].name = n /\ \A r \in InFlight : ~Rewrites(r, settings[s].team)
       \/ \E r \in InFlight : /\ Rewrites(r, settings[s].team)
                              /\ Step(request[r]) \in {"check", "drop"} /\ request[r].old = n
MakerClaims(r, n) ==
    /\ request[r].call.op \in Making
    /\ Step(request[r]) \in {"charge", "keys", "commit", "commitUser"}
    /\ request[r].name = n
FlagsAt(n) ==
    /\ n \in flags <=> (\/ \E s \in TeamIds : RowClaims(s, n)
                        \/ \E r \in Requests : MakerClaims(r, n))
    /\ \A s1, s2 \in TeamIds : RowClaims(s1, n) /\ RowClaims(s2, n) => s1 = s2
    /\ \A r1, r2 \in Requests : MakerClaims(r1, n) /\ MakerClaims(r2, n) => r1 = r2
    /\ \A s \in TeamIds, r \in Requests : ~(RowClaims(s, n) /\ MakerClaims(r, n))

(* What handlers know of the names, and which of them are in doubt.          *)
InDoubt(r) == NamesOf(request[r]) \subseteq suspect
RowInDoubt(s) == settings[s].name \in suspect
NameInv(r) ==
    LET q == request[r] IN
    /\ q.call.op = "rename" /\ Step(q) # "read" =>
          /\ RowsOf(q.team) = {} => InDoubt(r)
          /\ \A s \in RowsOf(q.team) :
                \/ settings[s].name = (IF q.wrote THEN q.name ELSE q.old)
                \/ InDoubt(r) /\ RowInDoubt(s)
    /\ q.call.op = "close" /\ q.wrote =>
          /\ IsRow(q.team) => settings[q.team].name = q.old
          /\ q.old \in flags => q.old \in q.raced
    /\ Step(q) = "flag" \/ (q.call.op = "rename" /\ Step(q) = "drop") =>
          (q.name \in flags => q.name \in q.raced)
Overlap(r, c) ==
    \A s \in TeamIds :
        (/\ r # c /\ request[r].call.op = "rename" /\ s \in RowsOf(request[r].team)
         /\ \/ request[c].call.op = "rename" /\ request[c].team = request[r].team
            \/ request[c].call.op = "close" /\ request[c].team = s)
        => InDoubt(r) /\ RowInDoubt(s)
NamesInv ==
    /\ \A n \in Names \ suspect : FlagsAt(n)
    /\ \A r \in InFlight : NameInv(r)
    /\ \A r, c \in InFlight : Overlap(r, c)

(* What a step does to who claims the names that are not suspect: each is    *)
(* claimed as before, or one of them is given up or taken by a row.          *)
Stands(n) ==
    \A s \in TeamIds : /\ RowClaims(s, n)' <=> RowClaims(s, n)
                       /\ RowClaims(s, n) => settings'[s].team = settings[s].team
NamesStand == \A n \in Names \ suspect' : Stands(n)
NameGoes(m) ==
    /\ \E s \in TeamIds : RowClaims(s, m)
    /\ \A s \in TeamIds : ~RowClaims(s, m)'
NameComes(m) ==
    \E t \in TeamIds :
        /\ \E s \in TeamIds : RowClaims(s, m)' /\ settings'[s].team = t
        /\ \A s \in TeamIds : ~RowClaims(s, m)
        /\ \A s \in TeamIds, n \in Names \ suspect : RowClaims(s, n) => settings[s].team # t
NamesMove ==
    /\ suspect \subseteq suspect'
    /\ \/ NamesStand
       \/ /\ UNCHANGED suspect
          /\ \E m \in Names \ suspect :
                /\ NameGoes(m) \/ NameComes(m)
                /\ \A n \in Names \ suspect : n # m => Stands(n)

LEMMA RenameNames ==
    ASSUME CoreInv, NEW r \in InFlight, request[r].call.op = "rename"
    PROVE  /\ request[r].name \in Names /\ request[r].team \in TeamIds
           /\ Step(request[r]) # "read" => request[r].old \in Names
           /\ InDoubt(r) => /\ request[r].name \in suspect
                            /\ Step(request[r]) # "read" => request[r].old \in suspect
<1>1. /\ request[r].name \in Names /\ request[r].team \in TeamIds
      /\ Step(request[r]) # "read" => request[r].old \in Names
  <2>1. Step(request[r]) # "load"
    <3>1. PICK op, s, n : op = request[r].call.op /\ s = Step(request[r]) /\ <<s, n>> \in Follows[op]
                          /\ op \in AllOps
      BY Flying DEF Going
    <3> QED  BY <3>1, Table
  <2> QED  BY <2>1, Flying DEF WellFormed, HasTeam, HasOld
<1> QED  BY <1>1, WorkspacesAssumption DEF InDoubt, NamesOf

(* Alone on the settings it renames, or in doubt.                            *)
LEMMA RenamesAlone ==
    ASSUME CoreInv, AllWroteInv, NamesInv, NEW r \in InFlight, request[r].call.op = "rename",
           Step(request[r]) # "read", NEW s \in RowsOf(request[r].team), NEW n \in Names \ suspect
    PROVE  /\ \A q \in InFlight \ {r} : ~(Rewrites(q, settings[s].team) /\ request[q].old = n)
           /\ n \in {request[r].name, request[r].old} =>
                 /\ \A q \in InFlight \ {r} : ~Rewrites(q, settings[s].team)
                 /\ \A c \in InFlight : ~Clears(c, s)
                 /\ settings[s].name =
                       IF request[r].wrote THEN request[r].name ELSE request[r].old
<1>1. settings[s].team = request[r].team /\ s \in TeamIds /\ IsRow(s)
  BY DEF RowsOf
<1>2. ASSUME NEW q \in InFlight \ {r}, Rewrites(q, settings[s].team)
      PROVE  request[q].old # n /\ InDoubt(r)
  <2>1. request[q].call.op = "rename" /\ request[q].team = request[r].team
        /\ Step(request[q]) \in {"check", "drop", "flag"}
    BY <1>1, <1>2 DEF Rewrites, AllWroteInv, WroteInv
  <2>2. Overlap(q, r) /\ Overlap(r, q)
    BY <1>2 DEF NamesInv
  <2>3. InDoubt(q) /\ InDoubt(r)
    BY <1>1, <1>2, <2>1, <2>2 DEF Overlap
  <2> QED  BY <1>2, <2>1, <2>3, RenameNames
<1>3. ASSUME NEW c \in InFlight, Clears(c, s)
      PROVE  InDoubt(r)
  <2>1. Overlap(r, c)
    BY <1>3 DEF NamesInv
  <2> QED  BY <1>1, <1>3, <2>1 DEF Overlap, Clears
<1>4. n \in {request[r].name, request[r].old} => ~InDoubt(r)
  BY RenameNames
<1>5. NameInv(r)
  BY DEF NamesInv
<1> QED  BY <1>1, <1>2, <1>3, <1>4, <1>5 DEF NameInv

LEMMA RewriteClaims ==
    ASSUME CoreInv, AllWroteInv, NamesInv, NEW r \in InFlight, request[r].call.op = "rename",
           request[r].wrote, NEW s \in RowsOf(request[r].team), NEW n \in Names \ suspect
    PROVE  RowClaims(s, n) <=> Step(request[r]) \in {"check", "drop"} /\ request[r].old = n
<1>1. settings[s].team = request[r].team /\ s \in TeamIds /\ IsRow(s)
  BY DEF RowsOf
<1>2. Step(request[r]) # "read" /\ Rewrites(r, settings[s].team)
  BY <1>1 DEF AllWroteInv, WroteInv, Rewrites
<1>3. ASSUME RowClaims(s, n)
      PROVE  Step(request[r]) \in {"check", "drop"} /\ request[r].old = n
  <2>1. PICK q \in InFlight : /\ Rewrites(q, settings[s].team)
                              /\ Step(request[q]) \in {"check", "drop"} /\ request[q].old = n
    BY <1>2, <1>3 DEF RowClaims
  <2> QED  BY <1>2, <2>1, RenamesAlone
<1>4. ASSUME Step(request[r]) \in {"check", "drop"}, request[r].old = n
      PROVE  RowClaims(s, n)
  <2>1. \A c \in InFlight : ~Clears(c, s)
    BY <1>2, <1>4, RenamesAlone
  <2> QED  BY <1>1, <1>2, <1>4, <2>1 DEF RowClaims
<1> QED  BY <1>3, <1>4

LEMMA OldClaims ==
    ASSUME CoreInv, AllWroteInv, NamesInv, NEW r \in InFlight, request[r].call.op = "rename",
           Step(request[r]) = "row", NEW s \in RowsOf(request[r].team), NEW n \in Names \ suspect
    PROVE  RowClaims(s, n) <=> request[r].old = n
<1>1. settings[s].team = request[r].team /\ s \in TeamIds /\ IsRow(s)
  BY DEF RowsOf
<1>2. ~request[r].wrote /\ ~Rewrites(r, settings[s].team)
  BY DEF AllWroteInv, WroteInv, Rewrites
<1>3. ASSUME RowClaims(s, n) PROVE request[r].old = n
  <2>1. settings[s].name = n
    BY <1>2, <1>3, RenamesAlone DEF RowClaims
  <2>2. NameInv(r)
    BY DEF NamesInv
  <2> QED  BY <1>2, <2>1, <2>2 DEF NameInv, RowInDoubt
<1>4. ASSUME request[r].old = n PROVE RowClaims(s, n)
  <2>1. /\ \A q \in InFlight : ~Rewrites(q, settings[s].team)
        /\ \A c \in InFlight : ~Clears(c, s)
        /\ settings[s].name = n
    BY <1>2, <1>4, RenamesAlone
  <2> QED  BY <1>1, <2>1 DEF RowClaims
<1> QED  BY <1>3, <1>4

(* Claims that a step of another handler leaves.                             *)
LEMMA RowFrame ==
    ASSUME CoreInv, NEW r, OthersKept(r), NEW s \in TeamIds, NEW n, settings'[s] = settings[s],
           NEW t, t = settings[s].team,
           r \in InFlight => ~Rewrites(r, t) /\ ~Clears(r, s),
           r \in InFlight' => ~Rewrites(r, t)' /\ ~Clears(r, s)'
    PROVE  RowClaims(s, n)' <=> RowClaims(s, n)
<1>1. \A q \in InFlight' : q # r => q \in InFlight
  BY OthersStand
<1>2. \A q \in InFlight : q # r => q \in InFlight'
  BY DEF InFlight, OthersKept, Kept
<1>3. \A q \in InFlight : q # r =>
          /\ Rewrites(q, t)' <=> Rewrites(q, t)
          /\ Clears(q, s)' <=> Clears(q, s)
          /\ Step(request'[q]) = Step(request[q]) /\ request'[q].old = request[q].old
  BY DEF InFlight, OthersKept, Kept, Rewrites, Clears, Step
<1>4. IsRow(s)' <=> IsRow(s)
  BY DEF IsRow
<1>5. (\A q \in InFlight' : ~Clears(q, s)') <=> (\A q \in InFlight : ~Clears(q, s))
  BY <1>1, <1>2, <1>3
<1>6. (\A q \in InFlight' : ~Rewrites(q, t)') <=> (\A q \in InFlight : ~Rewrites(q, t))
  BY <1>1, <1>2, <1>3
<1>7. (\E q \in InFlight' : /\ Rewrites(q, t)'
                            /\ Step(request'[q]) \in {"check", "drop"} /\ request'[q].old = n)
      <=> (\E q \in InFlight : /\ Rewrites(q, t)
                               /\ Step(request[q]) \in {"check", "drop"} /\ request[q].old = n)
  BY <1>1, <1>2, <1>3
<1>8. RowClaims(s, n) <=>
          /\ IsRow(s)
          /\ \A c \in InFlight : ~Clears(c, s)
          /\ \/ settings[s].name = n /\ \A q \in InFlight : ~Rewrites(q, t)
             \/ \E q \in InFlight : /\ Rewrites(q, t)
                                    /\ Step(request[q]) \in {"check", "drop"} /\ request[q].old = n
  BY DEF RowClaims
<1>9. \A q \in InFlight' : Rewrites(q, settings[s].team)' <=> Rewrites(q, t)'
  BY DEF Rewrites
<1>10. RowClaims(s, n)' <=>
          /\ IsRow(s)'
          /\ \A c \in InFlight' : ~Clears(c, s)'
          /\ \/ settings'[s].name = n /\ \A q \in InFlight' : ~Rewrites(q, t)'
             \/ \E q \in InFlight' : /\ Rewrites(q, t)'
                                     /\ Step(request'[q]) \in {"check", "drop"} /\ request'[q].old = n
  BY <1>9 DEF RowClaims
<1> QED  BY <1>4, <1>5, <1>6, <1>7, <1>8, <1>10

LEMMA MakerFrame ==
    ASSUME CoreInv, NEW r, OthersKept(r), NEW q \in Requests, q # r, NEW n
    PROVE  MakerClaims(q, n)' <=> MakerClaims(q, n)
BY DEF OthersKept, Kept, MakerClaims, Step

(* What is left when a rename that has written its row is done.              *)
LEMMA RewriteLeft ==
    ASSUME CoreInv, AllWroteInv, NamesInv, NEW r \in InFlight, OthersKept(r),
           request[r].call.op = "rename", request[r].wrote, r \notin InFlight',
           NEW s \in RowsOf(request[r].team), settings'[s] = settings[s],
           NEW n \in Names \ suspect
    PROVE  RowClaims(s, n)' <=> request[r].name = n
<1>1. settings[s].team = request[r].team /\ s \in TeamIds /\ IsRow(s)
  BY DEF RowsOf
<1>2. Step(request[r]) # "read"
  BY DEF AllWroteInv, WroteInv
<1>3. PICK t : t = settings[s].team
  OBVIOUS
<1>4. ASSUME NEW q \in InFlight'
      PROVE  /\ q \in InFlight \ {r} /\ Step(request'[q]) = Step(request[q])
             /\ Rewrites(q, t)' <=> Rewrites(q, t)
             /\ Rewrites(q, settings[s].team)' <=> Rewrites(q, t)
             /\ Clears(q, s)' <=> Clears(q, s)
             /\ request'[q].old = request[q].old
  <2>1. q # r /\ q \in InFlight /\ Kept(q) /\ Step(request'[q]) = Step(request[q])
    BY <1>4, OthersStand
  <2> QED  BY <1>3, <2>1 DEF Kept, Rewrites, Clears
<1>5. IsRow(s)'
  BY <1>1 DEF IsRow
<1>6. ASSUME RowClaims(s, n)'
      PROVE  request[r].name = n
  <2>1. CASE settings[s].name = n
    <3>1. NameInv(r)
      BY DEF NamesInv
    <3> QED  BY <1>2, <2>1, <3>1 DEF NameInv, RowInDoubt
  <2>2. CASE settings[s].name # n
    <3>1. PICK q \in InFlight' : Rewrites(q, settings[s].team)' /\ request'[q].old = n
      BY <1>6, <2>2 DEF RowClaims
    <3>2. q \in InFlight \ {r} /\ Rewrites(q, settings[s].team) /\ request[q].old = n
      BY <1>3, <1>4, <3>1
    <3> QED  BY <1>2, <3>2, RenamesAlone
  <2> QED  BY <2>1, <2>2
<1>7. ASSUME request[r].name = n
      PROVE  RowClaims(s, n)'
  <2>1. /\ \A q \in InFlight \ {r} : ~Rewrites(q, settings[s].team)
        /\ \A c \in InFlight : ~Clears(c, s)
        /\ settings[s].name = n
    BY <1>2, <1>7, RenamesAlone
  <2>2. \A q \in InFlight' : ~Rewrites(q, settings[s].team)' /\ ~Clears(q, s)'
    BY <1>3, <1>4, <2>1
  <2> QED  BY <1>5, <2>1, <2>2 DEF RowClaims
<1> QED  BY <1>6, <1>7

(* The settings of a team that is being closed.                              *)
LEMMA ClosesAlone ==
    ASSUME CoreInv, AllWroteInv, NamesInv, NEW r \in InFlight, request[r].call.op = "close",
           NEW s, s = request[r].team, IsRow(s), s \in TeamIds, NEW n \in Names \ suspect
    PROVE  /\ \A q \in InFlight : ~(Rewrites(q, settings[s].team) /\ request[q].old = n)
           /\ settings[s].name = n => \A q \in InFlight : ~Rewrites(q, settings[s].team)
<1>1. ASSUME NEW q \in InFlight, Rewrites(q, settings[s].team)
      PROVE  InDoubt(q) /\ RowInDoubt(s) /\ Step(request[q]) # "read"
             /\ request[q].call.op = "rename"
  <2>1. request[q].call.op = "rename" /\ s \in RowsOf(request[q].team) /\ q # r
    BY <1>1 DEF Rewrites, RowsOf
  <2>2. Overlap(q, r) /\ WroteInv(q)
    BY <1>1 DEF NamesInv, AllWroteInv
  <2> QED  BY <1>1, <2>1, <2>2 DEF Overlap, WroteInv, Rewrites
<1> QED  BY <1>1, RenameNames DEF RowInDoubt

LEMMA CloseFirst ==
    ASSUME CoreInv, NumbersInv, AllWroteInv, NamesInv, NEW r \in InFlight,
           request[r].call.op = "close", Step(request[r]) = "unflag", ~request[r].wrote,
           NEW s, s = request[r].team, IsRow(s), s \in TeamIds, NEW n \in Names \ suspect
    PROVE  RowClaims(s, n) <=> settings[s].name = n
<1>1. ASSUME NEW c \in InFlight, Clears(c, s) PROVE FALSE
  <2>1. Closing(request[r]) /\ Closing(request[c]) /\ c # r
    BY <1>1 DEF Closing, Clears, AllWroteInv, WroteInv
  <2> QED  BY <1>1, <2>1 DEF NumbersInv, ApartInv, Apart, Clears
<1> QED  BY <1>1, ClosesAlone DEF RowClaims

LEMMA CloseLeft ==
    ASSUME CoreInv, AllWroteInv, NamesInv, NEW r \in InFlight, OthersKept(r),
           request[r].call.op = "close", request[r].wrote, r \notin InFlight',
           NEW s, s = request[r].team, s \in TeamIds, settings'[s] = settings[s],
           NEW n \in Names \ suspect, n # request[r].old
    PROVE  ~RowClaims(s, n)'
<1> SUFFICES ASSUME RowClaims(s, n)' PROVE FALSE
  OBVIOUS
<1>1. IsRow(s)
  BY DEF RowClaims, IsRow
<1>2. settings[s].name # n
  <2>1. NameInv(r)
    BY DEF NamesInv
  <2> QED  BY <1>1, <2>1 DEF NameInv
<1>3. PICK q \in InFlight' : Rewrites(q, settings[s].team)' /\ request'[q].old = n
  BY <1>2 DEF RowClaims
<1>4. q # r /\ q \in InFlight /\ Kept(q)
  BY <1>3, OthersStand
<1>5. Rewrites(q, settings[s].team) /\ request[q].old = n
  BY <1>3, <1>4 DEF Kept, Rewrites
<1> QED  BY <1>1, <1>4, <1>5, ClosesAlone

(* How the flag of a name and the claims on it change.                       *)
LEMMA FlagsSame ==
    ASSUME NEW n, FlagsAt(n), n \in flags' <=> n \in flags,
           \A s \in TeamIds : RowClaims(s, n)' <=> RowClaims(s, n),
           \A q \in Requests : MakerClaims(q, n)' <=> MakerClaims(q, n)
    PROVE  FlagsAt(n)'
BY DEF FlagsAt

LEMMA FlagGone ==
    ASSUME NEW n, FlagsAt(n), n \notin flags', NEW s0 \in TeamIds, RowClaims(s0, n), ~RowClaims(s0, n)',
           \A s \in TeamIds \ {s0} : RowClaims(s, n)' <=> RowClaims(s, n),
           \A q \in Requests : MakerClaims(q, n)' <=> MakerClaims(q, n)
    PROVE  FlagsAt(n)'
BY DEF FlagsAt

LEMMA RowTakesFlag ==
    ASSUME NEW n, FlagsAt(n), n \notin flags, n \in flags', NEW s0 \in TeamIds, RowClaims(s0, n)',
           \A s \in TeamIds \ {s0} : RowClaims(s, n)' <=> RowClaims(s, n),
           \A q \in Requests : MakerClaims(q, n)' <=> MakerClaims(q, n)
    PROVE  FlagsAt(n)'
<1>1. /\ \A s \in TeamIds \ {s0} : ~RowClaims(s, n)'
      /\ \A q \in Requests : ~MakerClaims(q, n)'
  BY DEF FlagsAt
<1> QED  BY <1>1 DEF FlagsAt

LEMMA MakerTakesFlag ==
    ASSUME NEW n, FlagsAt(n), n \notin flags, n \in flags', NEW r \in Requests, MakerClaims(r, n)',
           \A s \in TeamIds : RowClaims(s, n)' <=> RowClaims(s, n),
           \A q \in Requests \ {r} : MakerClaims(q, n)' <=> MakerClaims(q, n)
    PROVE  FlagsAt(n)'
<1>1. /\ \A s \in TeamIds : ~RowClaims(s, n)'
      /\ \A q \in Requests \ {r} : ~MakerClaims(q, n)'
  BY DEF FlagsAt
<1> QED  BY <1>1 DEF FlagsAt

LEMMA FlagPasses ==
    ASSUME NEW n, FlagsAt(n), n \in flags' <=> n \in flags,
           NEW s0 \in TeamIds, NEW r \in Requests,
           MakerClaims(r, n), ~MakerClaims(r, n)', RowClaims(s0, n)',
           \A s \in TeamIds \ {s0} : RowClaims(s, n)' <=> RowClaims(s, n),
           \A q \in Requests \ {r} : MakerClaims(q, n)' <=> MakerClaims(q, n)
    PROVE  FlagsAt(n)'
<1>1. n \in flags'
  BY DEF FlagsAt
<1>2. /\ \A s \in TeamIds \ {s0} : ~RowClaims(s, n)'
      /\ \A q \in Requests : ~MakerClaims(q, n)'
  BY DEF FlagsAt
<1> QED  BY <1>1, <1>2 DEF FlagsAt

(* What handlers know, of a step that leaves the settings.                   *)
Tells(r) ==
    \A q \in InFlight \ {r} : \A n \in flags' \ flags : n \in request'[q].raced

LEMMA OtherName ==
    ASSUME CoreInv, NEW r, OthersKept(r), NEW q \in InFlight', q # r, NameInv(q),
           UNCHANGED settings, suspect \subseteq suspect', Tells(r)
    PROVE  NameInv(q)'
<1>1. q \in InFlight /\ Kept(q) /\ Step(request'[q]) = Step(request[q])
  BY OthersStand
<1>2. PICK o, p : o = request[q] /\ p = request'[q]
  OBVIOUS
<1>3. /\ p.call = o.call /\ p.team = o.team /\ p.name = o.name /\ p.old = o.old
      /\ p.wrote = o.wrote /\ o.raced \subseteq p.raced /\ Step(p) = Step(o)
  BY <1>1, <1>2 DEF Kept
<1>4. InDoubt(q) => InDoubt(q)'
  BY <1>2, <1>3 DEF InDoubt, NamesOf
<1>5. \A s : (RowInDoubt(s) => RowInDoubt(s)') /\ (IsRow(s)' <=> IsRow(s))
  BY DEF RowInDoubt, IsRow
<1>6. \A t : RowsOf(t)' = RowsOf(t)
  BY DEF RowsOf, IsRow
<1>7. \A n : n \in flags' => n \in flags \/ n \in p.raced
  BY <1>1, <1>2 DEF Tells
<1>8. /\ o.call.op = "rename" /\ Step(o) # "read" =>
            /\ RowsOf(o.team) = {} => InDoubt(q)
            /\ \A s \in RowsOf(o.team) :
                  \/ settings[s].name = (IF o.wrote THEN o.name ELSE o.old)
                  \/ InDoubt(q) /\ RowInDoubt(s)
      /\ o.call.op = "close" /\ o.wrote =>
            /\ IsRow(o.team) => settings[o.team].name = o.old
            /\ o.old \in flags => o.old \in o.raced
      /\ Step(o) = "flag" \/ (o.call.op = "rename" /\ Step(o) = "drop") =>
            (o.name \in flags => o.name \in o.raced)
  BY <1>2 DEF NameInv
<1>9. RowsOf(p.team)' = RowsOf(o.team)
  BY <1>2, <1>3, <1>6
<1>10. p.call.op = "rename" /\ Step(p) # "read" =>
            /\ RowsOf(p.team)' = {} => InDoubt(q)'
            /\ \A s \in RowsOf(p.team)' :
                  \/ settings'[s].name = (IF p.wrote THEN p.name ELSE p.old)
                  \/ InDoubt(q)' /\ RowInDoubt(s)'
  BY <1>3, <1>4, <1>5, <1>8, <1>9
<1>11. p.call.op = "close" /\ p.wrote =>
            /\ IsRow(p.team)' => settings'[p.team].name = p.old
            /\ p.old \in flags' => p.old \in p.raced
  BY <1>3, <1>5, <1>7, <1>8
<1>12. Step(p) = "flag" \/ (p.call.op = "rename" /\ Step(p) = "drop") =>
            (p.name \in flags' => p.name \in p.raced)
  BY <1>3, <1>7, <1>8
<1> QED  BY <1>2, <1>10, <1>11, <1>12 DEF NameInv

LEMMA RowsElse ==
    ASSUME CoreInv, NEW r, Works(r), TeamStays(r), NEW s \in TeamIds, settings'[s] = settings[s], NEW n,
           ~(request[r].call.op = "rename" /\ s \in RowsOf(request[r].team)),
           ~(request[r].call.op = "close" /\ s = request[r].team)
    PROVE  RowClaims(s, n)' <=> RowClaims(s, n)
<1>1. /\ r \in InFlight /\ OthersKept(r) /\ request'[r].call = request[r].call
      /\ r \in InFlight' => request'[r].team = request[r].team
  BY DEF Works, Idle, TeamStays, InFlight
<1>2. CASE ~IsRow(s)
  BY <1>2 DEF RowClaims, IsRow
<1>3. CASE IsRow(s)
  <2>1. PICK t : t = settings[s].team
    OBVIOUS
  <2>2. /\ ~Rewrites(r, t) /\ ~Clears(r, s)
        /\ r \in InFlight' => ~Rewrites(r, t)' /\ ~Clears(r, s)'
    BY <1>1, <1>3, <2>1 DEF RowsOf, Rewrites, Clears
  <2> QED  BY <1>1, <2>1, <2>2, RowFrame
<1> QED  BY <1>2, <1>3

(* A rename that has not written its row leaves the claims as they are, and  *)
(* so does a closing that has not deleted the flag.                          *)
LEMMA RowsUntouched ==
    ASSUME CoreInv, NEW r, Works(r), NEW s \in TeamIds, settings'[s] = settings[s], NEW n,
           request[r].call.op \in {"rename", "close"} =>
               ~request[r].wrote /\ (request'[r].todo # <<>> => ~request'[r].wrote)
    PROVE  RowClaims(s, n)' <=> RowClaims(s, n)
<1>1. /\ r \in InFlight /\ OthersKept(r) /\ request'[r].call = request[r].call
  BY DEF Works, Idle
<1>2. PICK t : t = settings[s].team
  OBVIOUS
<1>3. /\ ~Rewrites(r, t) /\ ~Clears(r, s)
      /\ r \in InFlight' => ~Rewrites(r, t)' /\ ~Clears(r, s)'
  BY <1>1 DEF Rewrites, Clears, InFlight
<1> QED  BY <1>1, <1>2, <1>3, RowFrame

LEMMA MakersElse ==
    ASSUME CoreInv, NEW r, Works(r), request[r].call.op \notin Making, NEW n
    PROVE  \A q \in Requests : MakerClaims(q, n)' <=> MakerClaims(q, n)
<1>1. request'[r].call = request[r].call /\ OthersKept(r)
  BY DEF Works, Idle
<1>2. ~MakerClaims(r, n) /\ ~MakerClaims(r, n)'
  BY <1>1 DEF MakerClaims
<1> QED  BY <1>1, <1>2, MakerFrame

(* What a handler goes on with.                                              *)
GoesNamed(r) ==
    request'[r].todo # <<>> =>
        /\ request[r].call.op \in {"rename", "close"} => request'[r].team = request[r].team
        /\ request[r].call.op = "rename" =>
              \A s \in RowsOf(request[r].team) : InDoubt(r) /\ RowInDoubt(s) => InDoubt(r)'

LEMMA OverlapStep ==
    ASSUME CoreInv, NamesInv, NEW r, Works(r), UNCHANGED settings, suspect \subseteq suspect',
           GoesNamed(r)
    PROVE  \A q, c \in InFlight' : Overlap(q, c)'
<1>1. /\ r \in InFlight /\ OthersKept(r) /\ request'[r].call = request[r].call
      /\ r \in InFlight' => request'[r].todo # <<>>
  BY DEF Works, Idle, InFlight
<1>2. ASSUME NEW q \in InFlight'
      PROVE  /\ q \in InFlight /\ request'[q].call = request[q].call
             /\ request[q].call.op \in {"rename", "close"} => request'[q].team = request[q].team
             /\ request[q].call.op = "rename" =>
                   \A s \in RowsOf(request[q].team) : InDoubt(q) /\ RowInDoubt(s) => InDoubt(q)'
  <2>1. CASE q = r
    BY <1>1, <1>2, <2>1 DEF GoesNamed
  <2>2. CASE q # r
    <3>1. q \in InFlight /\ Kept(q)
      BY <1>1, <1>2, <2>2, OthersStand
    <3>2. InDoubt(q) => InDoubt(q)'
      BY <3>1 DEF Kept, InDoubt, NamesOf
    <3> QED  BY <3>1, <3>2 DEF Kept
  <2> QED  BY <2>1, <2>2
<1>3. ASSUME NEW q \in InFlight', NEW c \in InFlight', NEW s \in TeamIds,
             q # c, request'[q].call.op = "rename", NEW t, t = request'[q].team,
             IsRow(s), settings[s].team = t,
             \/ request'[c].call.op = "rename" /\ request'[c].team = t
             \/ request'[c].call.op = "close" /\ request'[c].team = s
      PROVE  InDoubt(q)' /\ RowInDoubt(s)'
  <2>1. /\ q \in InFlight /\ c \in InFlight /\ request[q].call.op = "rename" /\ request[q].team = t
        /\ \/ request[c].call.op = "rename" /\ request[c].team = t
           \/ request[c].call.op = "close" /\ request[c].team = s
    BY <1>2, <1>3
  <2>2. s \in RowsOf(request[q].team)
    BY <1>3, <2>1 DEF RowsOf
  <2>3. Overlap(q, c)
    BY <2>1 DEF NamesInv
  <2>4. InDoubt(q) /\ RowInDoubt(s)
    BY <1>3, <2>1, <2>2, <2>3 DEF Overlap
  <2>5. InDoubt(q)'
    BY <1>2, <1>3, <2>1, <2>2, <2>4
  <2>6. RowInDoubt(s)'
    BY <2>4 DEF RowInDoubt
  <2> QED  BY <2>5, <2>6
<1>4. \A s : IsRow(s)' <=> IsRow(s)
  BY DEF IsRow
<1> QED  BY <1>3, <1>4 DEF Overlap, RowsOf

LEMMA NamesStep ==
    ASSUME CoreInv, NamesInv, NEW r, Works(r), UNCHANGED settings, suspect \subseteq suspect',
           GoesNamed(r), Tells(r), r \in InFlight' => NameInv(r)',
           \A n \in Names \ suspect' : FlagsAt(n)'
    PROVE  NamesInv'
<1>1. \A q, c \in InFlight' : Overlap(q, c)'
  BY OverlapStep
<1>2. ASSUME NEW q \in InFlight' PROVE NameInv(q)'
  <2>1. CASE q = r
    BY <1>2, <2>1
  <2>2. CASE q # r
    <3>1. q \in InFlight /\ OthersKept(r)
      BY <1>2, <2>2, OthersStand DEF Works
    <3>2. NameInv(q)
      BY <3>1 DEF NamesInv
    <3> QED  BY <1>2, <2>2, <3>1, <3>2, OtherName
  <2> QED  BY <2>1, <2>2
<1> QED  BY <1>1, <1>2 DEF NamesInv

(* A step of a handler that neither renames nor closes, and makes no claim.  *)
LEMMA AloofNames ==
    ASSUME CoreInv, NamesInv, NEW r, Works(r), UNCHANGED <<settings, flags>>,
           suspect \subseteq suspect', request[r].call.op \notin {"rename", "close"},
           request'[r].todo # <<>> => Step(request'[r]) # "flag",
           \A n \in Names \ suspect' : MakerClaims(r, n)' <=> MakerClaims(r, n)
    PROVE  NamesInv' /\ NamesMove
<1>1. /\ r \in InFlight /\ OthersKept(r) /\ request'[r].call = request[r].call
  BY DEF Works, Idle
<1>2. ASSUME NEW n \in Names \ suspect' PROVE FlagsAt(n)' /\ Stands(n)
  <2>1. FlagsAt(n)
    BY <1>2 DEF NamesInv
  <2>2. \A s \in TeamIds : RowClaims(s, n)' <=> RowClaims(s, n)
    BY RowsUntouched
  <2>3. \A q \in Requests : MakerClaims(q, n)' <=> MakerClaims(q, n)
    BY <1>1, <1>2, MakerFrame
  <2> QED  BY <2>1, <2>2, <2>3, FlagsSame DEF Stands
<1>3. r \in InFlight' => NameInv(r)'
  BY <1>1 DEF NameInv, InFlight
<1>4. GoesNamed(r) /\ Tells(r)
  BY DEF GoesNamed, Tells
<1> QED  BY <1>2, <1>3, <1>4, NamesStep DEF NamesMove, NamesStand

(* Steps that leave the names alone.                                         *)
FarSteps == EarlySteps \cup {"look", "team", "setting", "invite", "load", "erase", "dropKeys"}

LEMMA FlagNext ==
    ASSUME NEW op \in AllOps, NEW s, <<s, "flag">> \in Follows[op]
    PROVE  s \in {"check", "drop"}
<1>1. CASE op = "newTeam"  BY <1>1 DEF Follows
<1>2. CASE op \in {"rename", "close", "leave"}  BY <1>2 DEF Follows
<1>3. CASE op \in {"ask", "confirm", "temporary", "setPhone"}  BY <1>3 DEF Follows
<1>4. CASE op = "emailSignUp"  BY <1>4 DEF Follows, SignUpFollows
<1>5. CASE op = "phoneSignUp"  BY <1>5 DEF Follows, SignUpFollows
<1>6. CASE op \in {"oauth", "integrate"}  BY <1>6 DEF Follows, OAuthFollows, SignUpFollows
<1> QED  BY <1>1, <1>2, <1>3, <1>4, <1>5, <1>6 DEF AllOps, Ops, AccountOps

LEMMA FarNames ==
    ASSUME CoreInv, NamesInv, NEW r, Works(r), UNCHANGED <<settings, flags>>,
           suspect \subseteq suspect', Step(request[r]) \in FarSteps
    PROVE  NamesInv' /\ NamesMove
<1>1. r \in InFlight /\ request'[r].call = request[r].call
  BY DEF Works, Idle
<1>2. PICK op, s, n : /\ op = request[r].call.op /\ s = Step(request[r]) /\ <<s, n>> \in Follows[op]
                      /\ op \in AllOps
  BY <1>1, Flying DEF Going
<1>3. op \notin {"rename", "close"}
  BY <1>2 DEF Follows, FarSteps, EarlySteps
<1>4. ASSUME request'[r].todo # <<>>
      PROVE  /\ Step(request'[r]) # "flag"
             /\ op \in Making =>
                   Step(request'[r]) \notin {"charge", "keys", "commit", "commitUser"}
  <2>1. PICK p : p = Step(request'[r])
    OBVIOUS
  <2>2. <<s, p>> \in Follows[op] /\ p # "none"
    BY <1>2, <1>4, <2>1, Moves
  <2>3. s \notin {"check", "drop", "flag", "charge", "keys", "commit"}
    BY <1>2 DEF FarSteps, EarlySteps
  <2>4. p # "flag"
    BY <1>2, <2>2, <2>3, FlagNext
  <2>5. op \in Making => p \notin {"charge", "keys", "commit", "commitUser"}
    BY <1>2, <2>2, <2>3, MovesTo
  <2> QED  BY <2>1, <2>4, <2>5
<1>5. \A m \in Names \ suspect' : ~MakerClaims(r, m) /\ ~MakerClaims(r, m)'
  <2>1. Step(request[r]) \notin {"charge", "keys", "commit", "commitUser"}
    BY DEF FarSteps, EarlySteps
  <2>2. op \in Making => Step(request'[r]) \notin {"charge", "keys", "commit", "commitUser"}
    <3>1. CASE request'[r].todo # <<>>
      BY <1>4, <3>1
    <3>2. CASE request'[r].todo = <<>>
      BY <3>2 DEF Step
    <3> QED  BY <3>1, <3>2
  <2> QED  BY <1>1, <1>2, <2>1, <2>2 DEF MakerClaims
<1> QED  BY <1>2, <1>3, <1>4, <1>5, AloofNames

LEMMA QuietNames ==
    ASSUME CoreInv, NumbersInv, NamesInv, NEW r \in Requests,
           \/ EarlyStep(r) \/ Look(r) \/ InsertTeam(r) \/ InsertSetting(r) \/ SaveInvitations(r)
           \/ LoadUser(r) \/ EraseUser(r) \/ DropKeys(r)
    PROVE  NamesInv' /\ NamesMove
<1>1. CASE EarlyStep(r)
  BY <1>1, EarlyDoes, EarlyLocal, FarNames DEF Nothing, NoDoubt, observed, FarSteps
<1>2. CASE Look(r)
  BY <1>2, LookDoes, FarNames DEF Nothing, NoDoubt, observed, FarSteps
<1>3. CASE InsertTeam(r)
  BY <1>3, InsertTeamDoes, FarNames DEF NoDoubt, observed, FarSteps
<1>4. CASE InsertSetting(r)
  BY <1>4, InsertSettingDoes, FarNames DEF FarSteps
<1>5. CASE SaveInvitations(r)
  BY <1>5, InviteDoes, FarNames DEF NoDoubt, observed, FarSteps
<1>6. CASE LoadUser(r)
  BY <1>6, LoadDoes, FarNames DEF Nothing, NoDoubt, observed, FarSteps
<1>7. CASE EraseUser(r)
  BY <1>7, EraseDoes, FarNames DEF NoDoubt, observed, FarSteps, WritesOn
<1>8. CASE DropKeys(r)
  <2>1. /\ Works(r) /\ Step(request[r]) = "dropKeys" /\ UNCHANGED <<settings, flags>>
        /\ NoDoubt \/ Doubts(request[r])
    BY <1>8, DropKeysDoes
  <2>2. suspect \subseteq suspect'
    BY <2>1 DEF NoDoubt, observed, Doubts
  <2> QED  BY <2>1, <2>2, FarNames DEF FarSteps
<1> QED  BY <1>1, <1>2, <1>3, <1>4, <1>5, <1>6, <1>7, <1>8

(* A handler that breaks off, or is refused, with its names in doubt if it   *)
(* has written, or with a rename to the name there is.                       *)
LEMMA StopNames ==
    ASSUME CoreInv, AllWroteInv, NamesInv, NEW r, Works(r), UNCHANGED <<settings, flags>>,
           suspect \subseteq suspect', request'[r].todo = <<>>,
           request[r].wrote =>
              \/ NamesOf(request[r]) \subseteq suspect'
              \/ Step(request[r]) = "check" /\ request[r].name = request[r].old
    PROVE  NamesInv' /\ NamesMove
<1>1. /\ r \in InFlight /\ OthersKept(r) /\ request'[r].call = request[r].call /\ r \notin InFlight'
      /\ TeamStays(r)
  BY DEF Works, Idle, InFlight, TeamStays
<1>2. ASSUME NEW n \in Names \ suspect', NEW s \in TeamIds
      PROVE  RowClaims(s, n)' <=> RowClaims(s, n)
  <2>1. CASE ~request[r].wrote \/ request[r].call.op \notin {"rename", "close"}
    BY <2>1, RowsUntouched
  <2>2. CASE request[r].wrote /\ request[r].call.op = "rename"
    <3>1. CASE s \in RowsOf(request[r].team)
      <4>1. RowClaims(s, n) <=> Step(request[r]) \in {"check", "drop"} /\ request[r].old = n
        BY <1>1, <1>2, <2>2, <3>1, RewriteClaims
      <4>2. RowClaims(s, n)' <=> request[r].name = n
        BY <1>1, <1>2, <2>2, <3>1, RewriteLeft
      <4>3. NamesOf(request[r]) \subseteq suspect' => n \notin {request[r].name, request[r].old}
        BY <1>2, WorkspacesAssumption DEF NamesOf
      <4> QED  BY <2>2, <4>1, <4>2, <4>3
    <3>2. CASE s \notin RowsOf(request[r].team)
      BY <1>1, <2>2, <3>2, RowsElse
    <3> QED  BY <3>1, <3>2
  <2>3. CASE request[r].wrote /\ request[r].call.op = "close"
    <3>1. CASE s = request[r].team
      <4>1. ~RowClaims(s, n)
        BY <1>1, <2>3, <3>1 DEF RowClaims, Clears
      <4>2. n # request[r].old
        <5>1. Step(request[r]) # "check"
          <6>1. PICK op, p, m : /\ op = request[r].call.op /\ p = Step(request[r])
                                /\ <<p, m>> \in Follows[op] /\ op \in AllOps
            BY <1>1, Flying DEF Going
          <6> QED  BY <2>3, <6>1, Table DEF Making
        <5> QED  BY <1>2, <2>3, <5>1, WorkspacesAssumption DEF NamesOf
      <4> QED  BY <1>1, <1>2, <2>3, <3>1, <4>1, <4>2, CloseLeft
    <3>2. CASE s # request[r].team
      BY <1>1, <2>3, <3>2, RowsElse
    <3> QED  BY <3>1, <3>2
  <2> QED  BY <2>1, <2>2, <2>3
<1>3. ASSUME NEW n \in Names \ suspect', NEW q \in Requests
      PROVE  MakerClaims(q, n)' <=> MakerClaims(q, n)
  <2>1. CASE q = r
    <3>1. ~MakerClaims(r, n)'
      BY DEF MakerClaims, Step
    <3>2. ASSUME MakerClaims(r, n) PROVE FALSE
      <4>1. request[r].wrote /\ Step(request[r]) # "check" /\ request[r].name = n
        BY <1>1, <3>2 DEF MakerClaims, AllWroteInv, WroteInv, Making
      <4> QED  BY <1>3, <4>1, WorkspacesAssumption DEF NamesOf
    <3> QED  BY <2>1, <3>1, <3>2
  <2>2. CASE q # r
    BY <1>1, <2>2, MakerFrame
  <2> QED  BY <2>1, <2>2
<1>4. ASSUME NEW n \in Names \ suspect' PROVE FlagsAt(n)' /\ Stands(n)
  <2>1. FlagsAt(n)
    BY <1>4 DEF NamesInv
  <2> QED  BY <1>2, <1>3, <1>4, <2>1, FlagsSame DEF Stands
<1>5. GoesNamed(r) /\ Tells(r)
  BY DEF GoesNamed, Tells
<1> QED  BY <1>1, <1>4, <1>5, NamesStep DEF NamesMove, NamesStand

LEMMA FailNames ==
    ASSUME CoreInv, AllWroteInv, NamesInv, NEW r \in Requests, FailAccount(r)
    PROVE  NamesInv' /\ NamesMove
<1>1. /\ Works(r) /\ Nothing /\ request'[r].todo = <<>>
      /\ NoDoubt \/ Doubts(request[r])
      /\ request[r].wrote => Doubts(request[r])
  BY FailDoes
<1>2. UNCHANGED <<settings, flags>> /\ suspect \subseteq suspect'
  BY <1>1 DEF Nothing, NoDoubt, observed, Doubts
<1>3. request[r].wrote => NamesOf(request[r]) \subseteq suspect'
  BY <1>1 DEF Doubts
<1> QED  BY <1>1, <1>2, <1>3, StopNames

(* A handler that goes on is in flight still.                                *)
LEMMA GoesOnFlying ==
    ASSUME CoreInv, NEW r, Works(r), request'[r].todo # <<>>
    PROVE  /\ InFlight' = InFlight /\ request'[r].call = request[r].call
           /\ r \in InFlight /\ OthersKept(r)
BY DEF Works, Idle, InFlight, OthersKept, Kept

(* The name is free, and the flags are as they were: the old one goes next.  *)
LEMMA RowsOn ==
    ASSUME CoreInv, NEW r, Works(r), request'[r].todo # <<>>, NEW s \in TeamIds,
           settings'[s] = settings[s], NEW n,
           request'[r].team = request[r].team /\ request'[r].old = request[r].old
           /\ request'[r].wrote = request[r].wrote,
           Step(request[r]) \in {"check", "drop"} <=> Step(request'[r]) \in {"check", "drop"}
    PROVE  RowClaims(s, n)' <=> RowClaims(s, n)
<1>1. InFlight' = InFlight /\ request'[r].call = request[r].call /\ OthersKept(r)
  BY GoesOnFlying
<1>2. PICK t : t = settings[s].team
  OBVIOUS
<1>3. ASSUME NEW q \in InFlight
      PROVE  /\ Rewrites(q, t)' <=> Rewrites(q, t)
             /\ Rewrites(q, settings[s].team)' <=> Rewrites(q, t)
             /\ Clears(q, s)' <=> Clears(q, s)
             /\ Step(request'[q]) \in {"check", "drop"} <=> Step(request[q]) \in {"check", "drop"}
             /\ request'[q].old = request[q].old
  <2>1. CASE q = r
    BY <1>1, <1>2, <2>1 DEF Rewrites, Clears
  <2>2. CASE q # r
    <3>1. q \in Requests /\ Kept(q)
      BY <1>1, <1>3, <2>2 DEF InFlight, OthersKept
    <3> QED  BY <1>2, <3>1 DEF Kept, Rewrites, Clears, Step
  <2> QED  BY <2>1, <2>2
<1>4. IsRow(s)' <=> IsRow(s)
  BY DEF IsRow
<1> QED  BY <1>1, <1>2, <1>3, <1>4 DEF RowClaims

LEMMA CheckNames ==
    ASSUME CoreInv, AllWroteInv, NamesInv, NEW r \in Requests, CheckFlag(r)
    PROVE  NamesInv' /\ NamesMove
<1>1. /\ Works(r) /\ r \in InFlight /\ Step(request[r]) = "check" /\ Nothing
      /\ NoDoubt \/ Doubts(request[r])
      /\ request'[r].todo = <<>> /\ request[r].wrote /\ request[r].name # request[r].old =>
            Doubts(request[r])
  BY CheckDoes
<1>2. UNCHANGED <<settings, flags>> /\ suspect \subseteq suspect'
  BY <1>1 DEF Nothing, NoDoubt, observed, Doubts
<1>3. CASE request'[r].todo = <<>>
  <2>1. request[r].wrote =>
           \/ NamesOf(request[r]) \subseteq suspect'
           \/ Step(request[r]) = "check" /\ request[r].name = request[r].old
    BY <1>1, <1>3 DEF Doubts
  <2> QED  BY <1>1, <1>2, <1>3, <2>1, StopNames
<1>4. CASE request'[r].todo # <<>>
  <2>1. PICK op, n, p : op = request[r].call.op /\ p = request'[r] /\ n = Step(p)
    OBVIOUS
  <2>2. /\ op \in AllOps /\ <<"check", n>> \in Follows[op] /\ p.call = request[r].call
        /\ InFlight' = InFlight /\ OthersKept(r)
    BY <1>1, <1>4, <2>1, Moves, GoesOnFlying
  <2>3. (op \in Making /\ n = "flag") \/ (op = "rename" /\ n = "drop")
    BY <2>2, Table
  <2>4. /\ p.team = request[r].team /\ p.row = request[r].row /\ p.name = request[r].name
        /\ p.old = request[r].old /\ p.wrote = request[r].wrote /\ p.name \notin flags
    BY <1>4, <2>1, CheckDoes
  <2>5. ASSUME NEW m \in Names \ suspect' PROVE FlagsAt(m)' /\ Stands(m)
    <3>1. FlagsAt(m)
      BY <1>2, <2>5 DEF NamesInv
    <3>2. \A s \in TeamIds : RowClaims(s, m)' <=> RowClaims(s, m)
      <4>1. CASE op \in Making
        BY <1>1, <1>2, <2>1, <4>1, RowsUntouched DEF Making
      <4>2. CASE op = "rename" /\ n = "drop"
        BY <1>1, <1>2, <1>4, <2>1, <2>4, <4>2, RowsOn
      <4> QED  BY <2>3, <4>1, <4>2
    <3>3. \A q \in Requests : MakerClaims(q, m)' <=> MakerClaims(q, m)
      <4>1. ~MakerClaims(r, m) /\ ~MakerClaims(r, m)'
        BY <1>1, <2>1, <2>3 DEF MakerClaims
      <4> QED  BY <2>2, <4>1, MakerFrame
    <3> QED  BY <1>2, <3>1, <3>2, <3>3, FlagsSame DEF Stands
  <2>6. NameInv(r)'
    <3>1. p.name \notin flags'
      BY <1>2, <2>4
    <3>2. op = "rename" =>
            /\ RowsOf(p.team)' = {} => InDoubt(r)'
            /\ \A s \in RowsOf(p.team)' :
                  \/ settings'[s].name = (IF p.wrote THEN p.name ELSE p.old)
                  \/ InDoubt(r)' /\ RowInDoubt(s)'
      <4> SUFFICES ASSUME op = "rename"
                   PROVE  /\ RowsOf(p.team)' = {} => InDoubt(r)'
                          /\ \A s \in RowsOf(p.team)' :
                                \/ settings'[s].name = (IF p.wrote THEN p.name ELSE p.old)
                                \/ InDoubt(r)' /\ RowInDoubt(s)'
        OBVIOUS
      <4>1. NameInv(r)
        BY <1>1 DEF NamesInv
      <4>2. InDoubt(r) => InDoubt(r)'
        BY <1>2, <2>1, <2>4 DEF InDoubt, NamesOf
      <4>3. \A s : RowInDoubt(s) => RowInDoubt(s)'
        BY <1>2 DEF RowInDoubt
      <4>4. \A t : RowsOf(t)' = RowsOf(t)
        BY <1>2 DEF RowsOf, IsRow
      <4>5. RowsOf(p.team)' = RowsOf(request[r].team)
        BY <2>4, <4>4
      <4>6. /\ RowsOf(request[r].team) = {} => InDoubt(r)
            /\ \A s \in RowsOf(request[r].team) :
                  \/ settings[s].name = (IF request[r].wrote THEN request[r].name ELSE request[r].old)
                  \/ InDoubt(r) /\ RowInDoubt(s)
        BY <1>1, <2>1, <4>1 DEF NameInv
      <4> QED  BY <1>2, <2>4, <4>2, <4>3, <4>5, <4>6
    <3>3. op # "close"
      BY <2>3 DEF Making
    <3> QED  BY <2>1, <2>2, <3>1, <3>2, <3>3 DEF NameInv
  <2>7. GoesNamed(r)
    <3>1. InDoubt(r) => InDoubt(r)'
      BY <1>2, <2>1, <2>4 DEF InDoubt, NamesOf
    <3> QED  BY <2>1, <2>4, <3>1 DEF GoesNamed
  <2>8. Tells(r)
    BY <1>2 DEF Tells
  <2> QED  BY <1>1, <1>2, <2>5, <2>6, <2>7, <2>8, NamesStep DEF NamesMove, NamesStand
<1> QED  BY <1>3, <1>4

LEMMA SingleRow ==
    ASSUME NumbersInv, NEW t, NEW s1 \in RowsOf(t), NEW s2 \in RowsOf(t)
    PROVE  s1 = s2
BY DEF NumbersInv, CountersInv, RowsOf

LEMMA ChargeNames ==
    ASSUME CoreInv, NamesInv, NEW r \in Requests, Charge(r)
    PROVE  NamesInv' /\ NamesMove
<1>1. /\ Works(r) /\ r \in InFlight /\ Same(r) /\ Step(request[r]) = "charge"
      /\ UNCHANGED <<settings, flags>> /\ suspect \subseteq suspect'
  BY ChargeDoes DEF WritesOn, NoDoubt, observed
<1>2. request' = [request EXCEPT ![r] = After(Wrote(r))]
  BY DEF Charge, Advance
<1>3. PICK op, n : op = request[r].call.op /\ n = Step(request'[r])
  OBVIOUS
<1>4. <<"charge", n>> \in Follows[op] /\ op \in AllOps
  BY <1>1, <1>2, <1>3, WrotesProceeds, Flying
<1>5. op \notin {"rename", "close"} /\ op \in Making /\ n = "keys"
  BY <1>4, Table DEF Making
<1>6. request'[r].todo # <<>> /\ request'[r].call = request[r].call
  BY <1>1, <1>3, <1>5 DEF Step, Works, Idle
<1>7. \A m : MakerClaims(r, m)' <=> MakerClaims(r, m)
  BY <1>1, <1>3, <1>5, <1>6 DEF MakerClaims, Same
<1> QED  BY <1>1, <1>3, <1>5, <1>7, AloofNames

LEMMA SetKeysNames ==
    ASSUME CoreInv, AllWroteInv, NamesInv, NEW r \in Requests, SetKeys(r)
    PROVE  NamesInv' /\ NamesMove
<1>1. /\ Works(r) /\ r \in InFlight /\ Same(r) /\ Step(request[r]) = "keys"
      /\ UNCHANGED <<settings, flags>>
      /\ \/ NoDoubt /\ request'[r].todo # <<>>
         \/ Doubts(request[r]) /\ request'[r].todo = <<>>
  BY SetKeysDoes
<1>2. suspect \subseteq suspect'
  BY <1>1 DEF NoDoubt, observed, Doubts
<1>3. CASE request'[r].todo # <<>>
  <2>1. PICK op, n : op = request[r].call.op /\ n = Step(request'[r])
    OBVIOUS
  <2>2. <<"keys", n>> \in Follows[op] /\ op \in AllOps /\ request'[r].call = request[r].call
    BY <1>1, <1>3, <2>1, Moves
  <2>3. op \notin {"rename", "close"} /\ n \in {"commit", "commitUser"}
    BY <2>2, Table DEF SigningUp, Making
  <2>4. \A m : MakerClaims(r, m)' <=> MakerClaims(r, m)
    BY <1>1, <1>3, <2>1, <2>2, <2>3 DEF MakerClaims, Same
  <2> QED  BY <1>1, <1>2, <2>1, <2>3, <2>4, AloofNames
<1>4. CASE request'[r].todo = <<>>
  <2>1. NamesOf(request[r]) \subseteq suspect'
    BY <1>1, <1>4 DEF Doubts
  <2> QED  BY <1>1, <1>2, <1>4, <2>1, StopNames
<1> QED  BY <1>3, <1>4

(* A rename that has deleted the old flag: nobody claims one for the row.    *)
LEMMA NoneClaims ==
    ASSUME CoreInv, AllWroteInv, NamesInv, NEW r, Works(r), request'[r].todo # <<>>,
           request[r].call.op = "rename", request'[r].team = request[r].team, request'[r].wrote,
           Step(request[r]) # "read", Step(request'[r]) = "flag",
           NEW s \in RowsOf(request[r].team), settings'[s] = settings[s], NEW n \in Names \ suspect
    PROVE  ~RowClaims(s, n)'
<1>1. /\ InFlight' = InFlight /\ request'[r].call = request[r].call /\ r \in InFlight
      /\ OthersKept(r)
  BY GoesOnFlying
<1>2. settings[s].team = request[r].team
  BY DEF RowsOf
<1>3. Rewrites(r, settings[s].team)'
  BY <1>1, <1>2 DEF Rewrites
<1> SUFFICES ASSUME RowClaims(s, n)' PROVE FALSE
  OBVIOUS
<1>4. PICK q \in InFlight' : /\ Rewrites(q, settings[s].team)'
                             /\ Step(request'[q]) \in {"check", "drop"} /\ request'[q].old = n
  BY <1>1, <1>3 DEF RowClaims
<1>5. q # r /\ q \in InFlight /\ Kept(q)
  BY <1>1, <1>4, OthersStand
<1>6. Rewrites(q, settings[s].team) /\ request[q].old = n
  BY <1>4, <1>5 DEF Kept, Rewrites
<1> QED  BY <1>1, <1>5, <1>6, RenamesAlone

LEMMA RenameKnows ==
    ASSUME NEW r, NameInv(r), request[r].call.op = "rename", Step(request[r]) # "read",
           UNCHANGED settings, suspect \subseteq suspect',
           request'[r].team = request[r].team /\ request'[r].name = request[r].name
           /\ request'[r].old = request[r].old /\ request'[r].wrote = request[r].wrote
           /\ request'[r].call = request[r].call,
           request'[r].name \in flags' => request'[r].name \in request'[r].raced
    PROVE  NameInv(r)'
<1>1. PICK p : p = request'[r]
  OBVIOUS
<1>2. InDoubt(r) => InDoubt(r)'
  BY <1>1 DEF InDoubt, NamesOf
<1>3. \A s : RowInDoubt(s) => RowInDoubt(s)'
  BY DEF RowInDoubt
<1>4. \A t : RowsOf(t)' = RowsOf(t)
  BY DEF RowsOf, IsRow
<1>5. RowsOf(p.team)' = RowsOf(request[r].team)
  BY <1>1, <1>4
<1>6. /\ RowsOf(request[r].team) = {} => InDoubt(r)
      /\ \A s \in RowsOf(request[r].team) :
            \/ settings[s].name = (IF request[r].wrote THEN request[r].name ELSE request[r].old)
            \/ InDoubt(r) /\ RowInDoubt(s)
  BY DEF NameInv
<1>7. /\ RowsOf(p.team)' = {} => InDoubt(r)'
      /\ \A s \in RowsOf(p.team)' :
            \/ settings'[s].name = (IF p.wrote THEN p.name ELSE p.old)
            \/ InDoubt(r)' /\ RowInDoubt(s)'
  BY <1>1, <1>2, <1>3, <1>5, <1>6
<1> QED  BY <1>1, <1>7 DEF NameInv

LEMMA DropNames ==
    ASSUME CoreInv, NumbersInv, AllWroteInv, NamesInv, NEW r \in Requests, DropFlag(r)
    PROVE  NamesInv' /\ NamesMove
<1>1. /\ Works(r) /\ r \in InFlight /\ Same(r) /\ OthersKept(r) /\ Step(request[r]) = "drop"
      /\ request'[r].todo # <<>> => request'[r].wrote
      /\ flags' = flags \ {request[r].old} /\ UNCHANGED settings /\ suspect \subseteq suspect'
      /\ request[r].call.op = "leave" => request[r].old \in suspect'
      /\ request'[r].call = request[r].call
  <2>1. /\ WritesOn(r) /\ Step(request[r]) = "drop"
        /\ flags' = flags \ {request[r].old} /\ UNCHANGED settings /\ suspect \subseteq suspect'
        /\ request[r].call.op = "leave" => request[r].old \in suspect'
    BY DropDoes
  <2>2. /\ Works(r) /\ r \in InFlight /\ Same(r)
        /\ request'[r].todo # <<>> => request'[r].wrote
    BY <2>1 DEF WritesOn
  <2>3. OthersKept(r) /\ request'[r].call = request[r].call
    BY <2>2 DEF Works, Idle
  <2> QED  BY <2>1, <2>2, <2>3
<1>2. request' = [request EXCEPT ![r] = After(Wrote(r))]
  BY DEF DropFlag
<1>3. PICK op, n : op = request[r].call.op /\ n = Step(request'[r])
  OBVIOUS
<1>4. <<"drop", n>> \in Follows[op] /\ op \in AllOps
  BY <1>1, <1>2, <1>3, WrotesProceeds, Flying
<1>5. (op = "rename" /\ n = "flag") \/ (op = "leave" /\ n = "none")
  BY <1>4, Table
<1>6. op \notin Making
  BY <1>5 DEF Making
<1>7. Tells(r)
  BY <1>1 DEF Tells
<1>8. CASE op = "leave" /\ n = "none"
  <2>1. request'[r].todo = <<>>
    BY <1>1, <1>3, <1>8, WrotesProceeds, Moves
  <2>2. ASSUME NEW m \in Names \ suspect' PROVE FlagsAt(m)' /\ Stands(m)
    <3>1. FlagsAt(m) /\ (m \in flags' <=> m \in flags)
      BY <1>1, <1>3, <1>8, <2>2 DEF NamesInv
    <3>2. \A s \in TeamIds : RowClaims(s, m)' <=> RowClaims(s, m)
      BY <1>1, <1>3, <1>8, RowsUntouched
    <3> QED  BY <1>1, <1>3, <1>6, <3>1, <3>2, MakersElse, FlagsSame DEF Stands
  <2>3. GoesNamed(r) /\ r \notin InFlight'
    BY <2>1 DEF GoesNamed, InFlight
  <2> QED  BY <1>1, <1>7, <2>2, <2>3, NamesStep DEF NamesMove, NamesStand
<1>9. CASE op = "rename" /\ n = "flag"
  <2>1. request'[r].todo # <<>>
    BY <1>3, <1>9 DEF Step
  <2>2. /\ request'[r].team = request[r].team /\ request'[r].name = request[r].name
        /\ request'[r].old = request[r].old /\ request'[r].raced = request[r].raced
        /\ request'[r].wrote /\ request[r].wrote
    BY <1>1, <1>3, <1>9, <2>1 DEF Same, AllWroteInv, WroteInv
  <2>3. NameInv(r)
    BY <1>1 DEF NamesInv
  <2>4. ASSUME NEW m \in Names \ suspect, NEW s \in RowsOf(request[r].team)
        PROVE  (RowClaims(s, m) <=> request[r].old = m) /\ ~RowClaims(s, m)'
    <3>1. RowClaims(s, m) <=> request[r].old = m
      BY <1>1, <1>3, <1>9, <2>2, <2>4, RewriteClaims
    <3>2. ~RowClaims(s, m)'
      BY <1>1, <1>3, <1>9, <2>1, <2>2, <2>4, NoneClaims
    <3> QED  BY <3>1, <3>2
  <2>5. ASSUME NEW m, NEW s \in TeamIds, s \notin RowsOf(request[r].team)
        PROVE  RowClaims(s, m)' <=> RowClaims(s, m)
    BY <1>1, <1>3, <1>9, <2>2, <2>5, RowsElse DEF TeamStays
  <2>6. ASSUME NEW m \in Names \ suspect'
        PROVE  /\ FlagsAt(m)'
               /\ m # request[r].old => Stands(m)
               /\ m = request[r].old => NameGoes(m)
    <3>1. FlagsAt(m) /\ m \in Names \ suspect
      BY <1>1, <2>6 DEF NamesInv
    <3>2. \A q \in Requests : MakerClaims(q, m)' <=> MakerClaims(q, m)
      BY <1>1, <1>3, <1>6, MakersElse
    <3>3. CASE m = request[r].old
      <4>1. ~InDoubt(r)
        BY <1>1, <1>3, <1>9, <3>1, <3>3, RenameNames
      <4>2. PICK s0 : s0 \in RowsOf(request[r].team)
        BY <1>1, <1>3, <1>9, <2>3, <4>1 DEF NameInv
      <4>3. s0 \in TeamIds /\ RowClaims(s0, m) /\ ~RowClaims(s0, m)'
        BY <2>4, <3>1, <3>3, <4>2 DEF RowsOf
      <4>4. \A s \in TeamIds \ {s0} : RowClaims(s, m)' <=> RowClaims(s, m)
        BY <2>5, <4>2, SingleRow
      <4>5. m \notin flags'
        BY <1>1, <3>3
      <4>6. FlagsAt(m)'
        BY <3>1, <3>2, <4>3, <4>4, <4>5, FlagGone
      <4>7. \A s \in TeamIds : ~RowClaims(s, m)'
        BY <3>1, <4>3, <4>4 DEF FlagsAt
      <4> QED  BY <3>3, <4>3, <4>6, <4>7 DEF NameGoes
    <3>4. CASE m # request[r].old
      <4>1. m \in flags' <=> m \in flags
        BY <1>1, <3>4
      <4>2. \A s \in TeamIds : RowClaims(s, m)' <=> RowClaims(s, m)
        BY <2>4, <2>5, <3>1, <3>4
      <4> QED  BY <1>1, <3>1, <3>2, <3>4, <4>1, <4>2, FlagsSame DEF Stands
    <3> QED  BY <3>3, <3>4
  <2>7. NameInv(r)'
    <3>1. request'[r].name \in flags' => request'[r].name \in request'[r].raced
      BY <1>1, <1>3, <1>9, <2>2, <2>3 DEF NameInv
    <3>2. request'[r].wrote = request[r].wrote
      <4>1. request[r].wrote \in BOOLEAN /\ request'[r].wrote \in BOOLEAN
        BY <1>1, Flying DEF Works, RequestType
      <4> QED  BY <2>2, <4>1
    <3> QED  BY <1>1, <1>3, <1>9, <2>2, <2>3, <3>1, <3>2, RenameKnows
  <2>8. GoesNamed(r)
    <3>1. InDoubt(r) => InDoubt(r)'
      BY <1>1, <2>2 DEF InDoubt, NamesOf
    <3> QED  BY <2>2, <3>1 DEF GoesNamed
  <2>9. NamesMove
    <3>1. suspect' = suspect \cup (IF request[r].old \in request[r].raced THEN {request[r].old} ELSE {})
      BY <1>1, <1>3, <1>9, WroteIs DEF DropFlag
    <3>2. CASE request[r].old \in Names \ suspect'
      BY <2>6, <3>1, <3>2 DEF NamesMove
    <3>3. CASE request[r].old \notin Names \ suspect'
      BY <1>1, <2>6, <3>3 DEF NamesMove, NamesStand
    <3> QED  BY <3>2, <3>3
  <2> QED  BY <1>1, <1>7, <2>6, <2>7, <2>8, <2>9, NamesStep
<1> QED  BY <1>5, <1>8, <1>9

LEMMA SetFlagNames ==
    ASSUME CoreInv, NumbersInv, AllWroteInv, NamesInv, NEW r \in Requests, SetFlag(r)
    PROVE  NamesInv' /\ NamesMove
<1>1. /\ Works(r) /\ r \in InFlight /\ Same(r) /\ OthersKept(r) /\ Step(request[r]) = "flag"
      /\ flags' = flags \cup {request[r].name} /\ UNCHANGED settings
      /\ suspect' = suspect \cup ({request[r].name} \cap request[r].raced)
      /\ \A s \in InFlight \ {r} : request[r].name \in request'[s].raced
      /\ request'[r].call = request[r].call
  <2>1. /\ WritesOn(r) /\ Step(request[r]) = "flag"
        /\ flags' = flags \cup {request[r].name} /\ UNCHANGED settings
        /\ suspect' = suspect \cup ({request[r].name} \cap request[r].raced)
        /\ \A s \in InFlight \ {r} : request[r].name \in request'[s].raced
    BY SetFlagDoes
  <2>2. Works(r) /\ r \in InFlight /\ Same(r)
    BY <2>1 DEF WritesOn
  <2>3. OthersKept(r) /\ request'[r].call = request[r].call
    BY <2>2 DEF Works, Idle
  <2> QED  BY <2>1, <2>2, <2>3
<1>2. request'[r] = After(Wrote(r))
  BY <1>1 DEF SetFlag
<1>3. PICK op, n : op = request[r].call.op /\ n = Step(request'[r])
  OBVIOUS
<1>4. /\ <<"flag", n>> \in Follows[op] /\ op \in AllOps
      /\ request'[r].todo # <<>> => n # "none"
  BY <1>1, <1>2, <1>3, Proceeds, WroteIs, Flying
<1>5. \/ op \in Making /\ n \in {"charge", "keys"}
      \/ op = "rename" /\ n = "none"
  BY <1>4, Table DEF SigningUp, Making
<1>6. Tells(r) /\ suspect \subseteq suspect'
  BY <1>1 DEF Tells
<1>7. NameInv(r)
  BY <1>1 DEF NamesInv
<1>8. request[r].name \notin suspect' => request[r].name \notin flags
  BY <1>1, <1>7 DEF NameInv
<1>9. CASE op \in Making /\ n \in {"charge", "keys"}
  <2>1. request'[r].todo # <<>> /\ op \notin {"rename", "close"}
    BY <1>3, <1>9 DEF Step, Making
  <2>2. request'[r].name = request[r].name
    BY <1>1, <2>1 DEF Same
  <2>3. ASSUME NEW m \in Names \ suspect' PROVE FlagsAt(m)' /\ Stands(m)
    <3>1. FlagsAt(m)
      BY <1>6, <2>3 DEF NamesInv
    <3>2. \A s \in TeamIds : RowClaims(s, m)' <=> RowClaims(s, m)
      BY <1>1, <1>3, <2>1, RowsUntouched
    <3>3. \A q \in Requests \ {r} : MakerClaims(q, m)' <=> MakerClaims(q, m)
      BY <1>1, MakerFrame
    <3>4. ~MakerClaims(r, m) /\ (MakerClaims(r, m)' <=> request[r].name = m)
      BY <1>1, <1>3, <1>9, <2>2 DEF MakerClaims
    <3>5. Stands(m)
      BY <1>1, <3>2 DEF Stands
    <3>6. CASE m = request[r].name
      <4>1. m \notin flags /\ m \in flags' /\ MakerClaims(r, m)'
        BY <1>1, <1>8, <2>3, <3>4, <3>6
      <4> QED  BY <3>1, <3>2, <3>3, <3>5, <4>1, MakerTakesFlag
    <3>7. CASE m # request[r].name
      <4>1. /\ m \in flags' <=> m \in flags
            /\ \A q \in Requests : MakerClaims(q, m)' <=> MakerClaims(q, m)
        BY <1>1, <3>3, <3>4, <3>7
      <4> QED  BY <3>1, <3>2, <3>5, <4>1, FlagsSame
    <3> QED  BY <3>6, <3>7
  <2>4. GoesNamed(r)
    BY <1>3, <2>1 DEF GoesNamed
  <2>5. NameInv(r)'
    BY <1>1, <1>3, <1>9, <2>1 DEF NameInv
  <2> QED  BY <1>1, <1>6, <2>3, <2>4, <2>5, NamesStep DEF NamesMove, NamesStand
<1>10. CASE op = "rename" /\ n = "none"
  <2>1. request'[r].todo = <<>> /\ r \notin InFlight' /\ request[r].wrote /\ op \notin Making
    BY <1>1, <1>3, <1>4, <1>10 DEF InFlight, AllWroteInv, WroteInv, Making
  <2>2. ASSUME NEW m \in Names \ suspect, NEW s \in RowsOf(request[r].team)
        PROVE  ~RowClaims(s, m) /\ (RowClaims(s, m)' <=> request[r].name = m)
    <3>1. ~RowClaims(s, m)
      BY <1>1, <1>3, <1>10, <2>1, <2>2, RewriteClaims
    <3>2. RowClaims(s, m)' <=> request[r].name = m
      BY <1>1, <1>3, <1>10, <2>1, <2>2, RewriteLeft
    <3> QED  BY <3>1, <3>2
  <2>3. ASSUME NEW m, NEW s \in TeamIds, s \notin RowsOf(request[r].team)
        PROVE  RowClaims(s, m)' <=> RowClaims(s, m)
    BY <1>1, <1>3, <1>10, <2>1, <2>3, RowsElse DEF TeamStays
  <2>4. ASSUME NEW m \in Names \ suspect'
        PROVE  /\ FlagsAt(m)'
               /\ m # request[r].name => Stands(m)
               /\ m = request[r].name /\ UNCHANGED suspect => NameComes(m)
    <3>1. FlagsAt(m) /\ m \in Names \ suspect
      BY <1>6, <2>4 DEF NamesInv
    <3>2. \A q \in Requests : MakerClaims(q, m)' <=> MakerClaims(q, m)
      BY <1>1, <1>3, <2>1, MakersElse
    <3>3. CASE m = request[r].name
      <4>1. ~InDoubt(r)
        BY <1>1, <1>3, <1>10, <3>1, <3>3, RenameNames
      <4>2. PICK s0 : s0 \in RowsOf(request[r].team)
        BY <1>1, <1>3, <1>7, <1>10, <4>1 DEF NameInv
      <4>3. s0 \in TeamIds /\ RowClaims(s0, m)'
        BY <2>2, <3>1, <3>3, <4>2 DEF RowsOf
      <4>4. \A s \in TeamIds \ {s0} : RowClaims(s, m)' <=> RowClaims(s, m)
        BY <2>3, <4>2, SingleRow
      <4>5. m \notin flags /\ m \in flags'
        BY <1>1, <1>8, <2>4, <3>3
      <4>6. FlagsAt(m)'
        BY <3>1, <3>2, <4>3, <4>4, <4>5, RowTakesFlag
      <4>7. \A s \in TeamIds : ~RowClaims(s, m)
        BY <3>1, <4>5 DEF FlagsAt
      <4>8. ASSUME NEW s \in TeamIds, NEW k \in Names \ suspect, RowClaims(s, k)
            PROVE  settings[s].team # request[r].team
        <5>1. s \notin RowsOf(request[r].team) /\ IsRow(s)
          BY <2>2, <4>8 DEF RowClaims
        <5> QED  BY <5>1 DEF RowsOf
      <4>9. settings'[s0].team = request[r].team /\ request[r].team \in TeamIds
        BY <1>1, <1>3, <1>10, <4>2, RenameNames DEF RowsOf
      <4> QED  BY <3>3, <4>3, <4>6, <4>7, <4>8, <4>9 DEF NameComes
    <3>4. CASE m # request[r].name
      <4>1. m \in flags' <=> m \in flags
        BY <1>1, <3>4
      <4>2. \A s \in TeamIds : RowClaims(s, m)' <=> RowClaims(s, m)
        BY <2>2, <2>3, <3>1, <3>4
      <4> QED  BY <1>1, <3>1, <3>2, <3>4, <4>1, <4>2, FlagsSame DEF Stands
    <3> QED  BY <3>3, <3>4
  <2>5. GoesNamed(r)
    BY <2>1 DEF GoesNamed
  <2>6. NamesMove
    <3>1. CASE request[r].name \in Names \ suspect'
      <4>1. UNCHANGED suspect
        BY <1>1, <3>1
      <4> QED  BY <1>6, <2>4, <3>1, <4>1 DEF NamesMove
    <3>2. CASE request[r].name \notin Names \ suspect'
      BY <1>6, <2>4, <3>2 DEF NamesMove, NamesStand
    <3> QED  BY <3>1, <3>2
  <2> QED  BY <1>1, <1>6, <2>1, <2>4, <2>5, <2>6, NamesStep
<1> QED  BY <1>5, <1>9, <1>10

LEMMA ReadNames ==
    ASSUME CoreInv, NumbersInv, AllWroteInv, NamesInv, NEW r \in Requests, ReadName(r)
    PROVE  NamesInv' /\ NamesMove
<1>1. /\ Works(r) /\ r \in InFlight /\ Step(request[r]) = "read"
      /\ UNCHANGED <<settings, flags, suspect>>
  BY ReadDoes DEF Nothing, NoDoubt, observed
<1>2. PICK op, n : op = request[r].call.op /\ n = Step(request'[r])
  OBVIOUS
<1>3. op = "rename"
  <2>1. PICK m : <<"read", m>> \in Follows[op] /\ op \in AllOps
    BY <1>1, <1>2, Flying DEF Going
  <2> QED  BY <2>1, Table
<1>4. ~request[r].wrote
  BY <1>1, <1>2, <1>3 DEF AllWroteInv, WroteInv
<1>5. CASE request'[r].todo = <<>>
  BY <1>1, <1>4, <1>5, StopNames
<1>6. CASE request'[r].todo # <<>>
  <2>1. /\ RowsOf(request[r].team) # {}
        /\ request'[r].team = request[r].team /\ request'[r].name = request[r].name
        /\ request'[r].old = NameOf(request[r].team) /\ ~request'[r].wrote
    BY <1>4, <1>6, ReadDoes
  <2>2. /\ <<"read", n>> \in Follows[op] /\ op \in AllOps /\ request'[r].call = request[r].call
        /\ InFlight' = InFlight
    BY <1>1, <1>2, <1>6, Moves, GoesOnFlying
  <2>3. n = "row"
    BY <2>2, Table
  <2>4. \A s \in RowsOf(request[r].team) : settings[s].name = request'[r].old
    <3>1. PICK s0 : s0 \in RowsOf(request[r].team) /\ NameOf(request[r].team) = settings[s0].name
      BY <2>1 DEF NameOf
    <3> QED  BY <2>1, <3>1, SingleRow
  <2>5. ASSUME NEW m \in Names \ suspect' PROVE FlagsAt(m)' /\ Stands(m)
    <3>1. FlagsAt(m)
      BY <1>1, <2>5 DEF NamesInv
    <3>2. \A s \in TeamIds : RowClaims(s, m)' <=> RowClaims(s, m)
      BY <1>1, <1>4, <2>1, RowsUntouched
    <3>3. \A q \in Requests : MakerClaims(q, m)' <=> MakerClaims(q, m)
      BY <1>1, <1>2, <1>3, MakersElse DEF Making
    <3> QED  BY <1>1, <3>1, <3>2, <3>3, FlagsSame DEF Stands
  <2>6. NameInv(r)'
    <3>1. PICK p : p = request'[r]
      OBVIOUS
    <3>2. \A t : RowsOf(t)' = RowsOf(t)
      BY <1>1 DEF RowsOf, IsRow
    <3>3. RowsOf(p.team)' = RowsOf(request[r].team)
      BY <2>1, <3>1, <3>2
    <3>4. /\ RowsOf(p.team)' # {}
          /\ \A s \in RowsOf(p.team)' : settings'[s].name = (IF p.wrote THEN p.name ELSE p.old)
      BY <1>1, <2>1, <2>4, <3>1, <3>3
    <3>5. p.call.op = "rename" /\ Step(p) = "row"
      BY <1>2, <1>3, <2>2, <2>3, <3>1
    <3> QED  BY <3>1, <3>4, <3>5 DEF NameInv
  <2>7. GoesNamed(r)
    <3>1. ASSUME NEW s \in RowsOf(request[r].team), InDoubt(r), RowInDoubt(s)
          PROVE  InDoubt(r)'
      <4>1. request'[r].old \in suspect'
        BY <1>1, <2>4, <3>1 DEF RowInDoubt
      <4>2. {request[r].name} \ {NoName} \subseteq suspect'
        BY <1>1, <3>1 DEF InDoubt, NamesOf
      <4> QED  BY <2>1, <4>1, <4>2 DEF InDoubt, NamesOf
    <3> QED  BY <2>1, <3>1 DEF GoesNamed
  <2>8. Tells(r)
    BY <1>1 DEF Tells
  <2> QED  BY <1>1, <2>5, <2>6, <2>7, <2>8, NamesStep DEF NamesMove, NamesStand
<1> QED  BY <1>5, <1>6

LEMMA ReleaseNames ==
    ASSUME CoreInv, AllWroteInv, NamesInv, NEW r \in Requests, ReleaseRow(r)
    PROVE  NamesInv' /\ NamesMove
<1>1. /\ Works(r) /\ r \in InFlight /\ Step(request[r]) = "release"
      /\ request[r].call.op = "close" /\ UNCHANGED <<settings, flags, suspect>>
  BY ReleaseDoes DEF Nothing, NoDoubt, observed
<1>2. ~request[r].wrote
  BY <1>1 DEF AllWroteInv, WroteInv
<1>3. CASE request'[r].todo = <<>>
  BY <1>1, <1>2, <1>3, StopNames
<1>4. CASE request'[r].todo # <<>>
  <2>1. /\ request'[r].team = request[r].team /\ ~request'[r].wrote
        /\ request'[r].call = request[r].call
    BY <1>1, <1>2, <1>4, ReleaseDoes, GoesOnFlying
  <2>2. Step(request'[r]) = "unflag"
    <3>1. PICK op, n : op = request[r].call.op /\ n = Step(request'[r])
      OBVIOUS
    <3>2. <<"release", n>> \in Follows[op] /\ op \in AllOps
      BY <1>1, <1>4, <3>1, Moves
    <3> QED  BY <3>1, <3>2, Table
  <2>3. ASSUME NEW m \in Names \ suspect' PROVE FlagsAt(m)' /\ Stands(m)
    <3>1. FlagsAt(m)
      BY <1>1, <2>3 DEF NamesInv
    <3>2. \A s \in TeamIds : RowClaims(s, m)' <=> RowClaims(s, m)
      BY <1>1, <1>2, <2>1, RowsUntouched
    <3>3. \A q \in Requests : MakerClaims(q, m)' <=> MakerClaims(q, m)
      BY <1>1, MakersElse DEF Making
    <3> QED  BY <1>1, <3>1, <3>2, <3>3, FlagsSame DEF Stands
  <2>4. NameInv(r)'
    BY <1>1, <2>1, <2>2 DEF NameInv
  <2>5. GoesNamed(r) /\ Tells(r)
    BY <1>1, <2>1 DEF GoesNamed, Tells
  <2> QED  BY <1>1, <2>3, <2>4, <2>5, NamesStep DEF NamesMove, NamesStand
<1> QED  BY <1>3, <1>4

LEMMA UnflagGoesOn ==
    ASSUME CoreInv, NEW r \in Requests, Unflag(r)
    PROVE  request'[r].todo # <<>> /\ Step(request'[r]) \in {"unflag", "commitClose"}
<1>1. /\ r \in InFlight /\ Step(request[r]) = "unflag" /\ request[r].call.op = "close"
      /\ request[r].team \in TeamIds
  BY UnflagDoes
<1>2. PICK o : o = IF IsRow(request[r].team) THEN settings[request[r].team].name ELSE NoName
  OBVIOUS
<1>3. o \in Names \cup {NoName}
  BY <1>1, <1>2 DEF CoreInv, TypeOK, WorkspacesTypeOK, Rows, IsRow
<1>4. PICK q : q = [Wrote(r) EXCEPT !.old = o]
  OBVIOUS
<1>5. q \in RequestType /\ q.todo = request[r].todo
  <2>1. Wrote(r) \in RequestType /\ Wrote(r).todo = request[r].todo
    BY <1>1, WroteIs
  <2> QED  BY <1>3, <1>4, <2>1 DEF RequestType
<1>6. request' = [request EXCEPT ![r] = After(q)]
  BY <1>2, <1>4 DEF Unflag
<1>7. request'[r] = After(q)
  BY <1>1, <1>6, Becomes
<1>8. PICK n : n = Step(request'[r])
  OBVIOUS
<1>9. <<"unflag", n>> \in Follows["close"]
  BY <1>1, <1>5, <1>7, <1>8, Proceeds
<1>10. n \in {"unflag", "commitClose"}
  BY <1>9, Table DEF AllOps, Ops
<1> QED  BY <1>8, <1>10 DEF Step

LEMMA UnflagNames ==
    ASSUME CoreInv, NumbersInv, AllWroteInv, NamesInv, NEW r \in Requests, Unflag(r)
    PROVE  NamesInv' /\ NamesMove
<1>1. /\ Works(r) /\ r \in InFlight /\ Step(request[r]) = "unflag"
      /\ request[r].call.op = "close" /\ request[r].team \in TeamIds
      /\ flags' = flags \ (IF IsRow(request[r].team) THEN {settings[request[r].team].name} ELSE {})
      /\ UNCHANGED settings /\ suspect \subseteq suspect'
      /\ IsRow(request[r].team) /\ settings[request[r].team].name \in request[r].raced =>
            settings[request[r].team].name \in suspect'
  BY UnflagDoes
<1>2. PICK s0 : s0 = request[r].team
  OBVIOUS
<1>3. /\ request'[r].todo # <<>> /\ Step(request'[r]) \in {"unflag", "commitClose"}
      /\ request'[r].team = s0 /\ request'[r].wrote
      /\ request'[r].old = IF IsRow(s0) THEN settings[s0].name ELSE NoName
  BY <1>2, UnflagGoesOn, UnflagDoes
<1>4. InFlight' = InFlight /\ OthersKept(r) /\ request'[r].call = request[r].call
  BY <1>1, <1>3, GoesOnFlying
<1>5. \A m : ~RowClaims(s0, m)'
  BY <1>1, <1>3, <1>4 DEF RowClaims, Clears
<1>6. ASSUME NEW m, NEW s \in TeamIds \ {s0}
      PROVE  RowClaims(s, m)' <=> RowClaims(s, m)
  BY <1>1, <1>2, <1>3, <1>6, RowsElse DEF TeamStays
<1>7. \A q \in Requests, m \in Names : MakerClaims(q, m)' <=> MakerClaims(q, m)
  BY <1>1, MakersElse DEF Making
<1>8. NameInv(r)
  BY <1>1 DEF NamesInv
<1>9. ASSUME NEW m \in Names \ suspect'
      PROVE  /\ FlagsAt(m)'
             /\ \/ Stands(m)
                \/ NameGoes(m) /\ IsRow(s0) /\ m = settings[s0].name
  <2>1. FlagsAt(m) /\ m \in Names \ suspect
    BY <1>1, <1>9 DEF NamesInv
  <2>2. CASE request[r].wrote
    <3>1. ~RowClaims(s0, m)
      BY <1>1, <1>2, <2>2 DEF RowClaims, Clears
    <3>2. m \in flags' <=> m \in flags
      <4>1. IsRow(s0) /\ settings[s0].name = m => m \notin flags
        BY <1>1, <1>2, <1>8, <1>9, <2>2 DEF NameInv
      <4> QED  BY <1>1, <1>2, <4>1
    <3>3. \A s \in TeamIds : RowClaims(s, m)' <=> RowClaims(s, m)
      BY <1>5, <1>6, <3>1
    <3> QED  BY <1>1, <1>7, <2>1, <3>2, <3>3, FlagsSame DEF Stands
  <2>3. CASE ~request[r].wrote /\ IsRow(s0)
    <3>1. RowClaims(s0, m) <=> settings[s0].name = m
      BY <1>1, <1>2, <2>1, <2>3, CloseFirst
    <3>2. CASE settings[s0].name = m
      <4>1. m \notin flags' /\ s0 \in TeamIds
        BY <1>1, <1>2, <2>3, <3>2
      <4>2. FlagsAt(m)'
        BY <1>5, <1>6, <1>7, <2>1, <3>1, <3>2, <4>1, FlagGone
      <4>3. \A s \in TeamIds : ~RowClaims(s, m)'
        BY <1>5, <1>6, <2>1, <3>1, <3>2, <4>1 DEF FlagsAt
      <4> QED  BY <2>3, <3>1, <3>2, <4>1, <4>2, <4>3 DEF NameGoes
    <3>3. CASE settings[s0].name # m
      <4>1. m \in flags' <=> m \in flags
        BY <1>1, <1>2, <3>3
      <4>2. \A s \in TeamIds : RowClaims(s, m)' <=> RowClaims(s, m)
        BY <1>5, <1>6, <3>1, <3>3
      <4> QED  BY <1>1, <1>7, <2>1, <4>1, <4>2, FlagsSame DEF Stands
    <3> QED  BY <3>2, <3>3
  <2>4. CASE ~IsRow(s0)
    <3>1. ~RowClaims(s0, m) /\ (m \in flags' <=> m \in flags)
      BY <1>1, <1>2, <2>4 DEF RowClaims
    <3>2. \A s \in TeamIds : RowClaims(s, m)' <=> RowClaims(s, m)
      BY <1>5, <1>6, <3>1
    <3> QED  BY <1>1, <1>7, <2>1, <3>1, <3>2, FlagsSame DEF Stands
  <2> QED  BY <2>2, <2>3, <2>4
<1>10. NameInv(r)'
  <2>1. IsRow(s0)' <=> IsRow(s0)
    BY <1>1 DEF IsRow
  <2>2. request'[r].old \notin flags'
    <3>1. flags' \subseteq Names
      BY <1>1 DEF CoreInv, TypeOK, WorkspacesTypeOK
    <3> QED  BY <1>1, <1>2, <1>3, <3>1, WorkspacesAssumption
  <2> QED  BY <1>1, <1>3, <1>4, <2>1, <2>2 DEF NameInv
<1>11. GoesNamed(r) /\ Tells(r)
  BY <1>1, <1>2, <1>3 DEF GoesNamed, Tells
<1>12. NamesMove
  <2>1. suspect' = suspect \cup ((IF IsRow(s0) THEN {settings[s0].name} ELSE {}) \cap request[r].raced)
    BY <1>1, <1>2, WroteIs DEF Unflag
  <2>2. CASE NamesStand
    BY <1>1, <2>2 DEF NamesMove
  <2>3. CASE ~NamesStand
    <3>1. PICK m \in Names \ suspect' : ~Stands(m)
      BY <2>3 DEF NamesStand
    <3>2. NameGoes(m) /\ IsRow(s0) /\ m = settings[s0].name
      BY <1>9, <3>1
    <3>3. UNCHANGED suspect
      BY <2>1, <3>1, <3>2
    <3>4. \A n \in Names \ suspect : n # m => Stands(n)
      BY <1>9, <3>2, <3>3
    <3> QED  BY <3>1, <3>2, <3>3, <3>4 DEF NamesMove
  <2> QED  BY <2>2, <2>3
<1> QED  BY <1>1, <1>9, <1>10, <1>11, <1>12, NamesStep

(* A rename writes the row.                                                  *)
LEMMA WriteOn ==
    ASSUME CoreInv, AllWroteInv, NEW r \in Requests, WriteName(r)
    PROVE  /\ Works(r) /\ r \in InFlight /\ request[r].call.op = "rename"
           /\ Step(request[r]) = "row" /\ ~request[r].wrote
           /\ request'[r].todo # <<>> /\ Step(request'[r]) = "check" /\ request'[r].wrote
           /\ request'[r].team = request[r].team /\ request'[r].name = request[r].name
           /\ request'[r].old = request[r].old /\ request'[r].call = request[r].call
           /\ InFlight' = InFlight /\ OthersKept(r)
           /\ request[r].team \in TeamIds /\ request[r].name \in Names
           /\ \A s \in RowsOf(request[r].team) :
                 ~Locked(s) /\ settings'[s] = Row(request[r].team, request[r].name)
           /\ \A s \in TeamIds \ RowsOf(request[r].team) : settings'[s] = settings[s]
           /\ UNCHANGED <<flags, suspect>>
<1>1. /\ WritesOn(r) /\ Step(request[r]) = "row" /\ NoDoubt /\ UNCHANGED flags
      /\ request[r].team \in TeamIds /\ request[r].name \in Names
      /\ \A s \in RowsOf(request[r].team) :
            ~Locked(s) /\ settings'[s] = Row(request[r].team, request[r].name)
      /\ \A s \in TeamIds \ RowsOf(request[r].team) : settings'[s] = settings[s]
  BY WriteDoes
<1>2. /\ Works(r) /\ r \in InFlight /\ Same(r) /\ UNCHANGED suspect
      /\ request'[r].todo # <<>> => request'[r].wrote
  BY <1>1 DEF WritesOn, NoDoubt, observed
<1>3. request' = [request EXCEPT ![r] = After(Wrote(r))]
  BY DEF WriteName, Advance
<1>4. PICK op, n : op = request[r].call.op /\ n = Step(request'[r])
  OBVIOUS
<1>5. <<"row", n>> \in Follows[op] /\ op \in AllOps
  BY <1>1, <1>2, <1>3, <1>4, WrotesProceeds, Flying
<1>6. op = "rename" /\ n = "check"
  BY <1>5, Table
<1>7. request'[r].todo # <<>>
  BY <1>4, <1>6 DEF Step
<1>8. /\ request'[r].team = request[r].team /\ request'[r].name = request[r].name
      /\ request'[r].old = request[r].old
  BY <1>2, <1>7 DEF Same
<1>9. ~request[r].wrote
  BY <1>1, <1>2, <1>4, <1>6 DEF AllWroteInv, WroteInv
<1>10. InFlight' = InFlight /\ OthersKept(r) /\ request'[r].call = request[r].call
  BY <1>2, <1>7, GoesOnFlying
<1> QED  BY <1>1, <1>2, <1>4, <1>6, <1>7, <1>8, <1>9, <1>10

LEMMA RowIs ==
    ASSUME NEW t \in TeamIds, NEW n \in Names
    PROVE  /\ Row(t, n) \notin {Unused, Released}
           /\ Row(t, n).team = t /\ Row(t, n).name = n
<1>1. Row(t, n) \in [team : TeamIds, name : Names]
  BY DEF Row
<1> QED  BY <1>1, WorkspacesAssumption DEF Row

LEMMA WriteRows ==
    ASSUME CoreInv, AllWroteInv, NEW r \in Requests, WriteName(r)
    PROVE  /\ \A s \in RowsOf(request[r].team) :
                 /\ IsRow(s) /\ IsRow(s)' /\ s \in TeamIds
                 /\ settings[s].team = request[r].team /\ settings'[s].team = request[r].team
                 /\ settings'[s].name = request[r].name
           /\ \A s \in TeamIds : IsRow(s)' <=> IsRow(s)
           /\ \A t : RowsOf(t)' = RowsOf(t)
<1>1. \A s \in RowsOf(request[r].team) :
         /\ IsRow(s) /\ IsRow(s)' /\ s \in TeamIds
         /\ settings[s].team = request[r].team /\ settings'[s].team = request[r].team
         /\ settings'[s].name = request[r].name
  BY WriteOn, RowIs DEF RowsOf, IsRow
<1>2. \A s \in TeamIds : IsRow(s)' <=> IsRow(s)
  BY <1>1, WriteOn DEF IsRow
<1>3. \A s \in TeamIds : IsRow(s) => settings'[s].team = settings[s].team
  BY <1>1, WriteOn
<1> QED  BY <1>1, <1>2, <1>3 DEF RowsOf

LEMMA WriteClaims ==
    ASSUME CoreInv, AllWroteInv, NamesInv, NEW r \in Requests, WriteName(r),
           NEW s \in TeamIds, NEW n \in Names \ suspect
    PROVE  RowClaims(s, n)' <=> RowClaims(s, n)
<1>1. CASE s \notin RowsOf(request[r].team)
  BY <1>1, WriteOn, RowsElse DEF TeamStays
<1>2. CASE s \in RowsOf(request[r].team)
  <2>1. PICK t : t = request[r].team
    OBVIOUS
  <2>2. /\ r \in InFlight /\ InFlight' = InFlight /\ OthersKept(r)
        /\ request[r].call.op = "rename" /\ request'[r].call = request[r].call
        /\ Step(request[r]) = "row" /\ Step(request'[r]) = "check"
        /\ request'[r].team = t /\ request'[r].wrote /\ request'[r].old = request[r].old
        /\ settings[s].team = t /\ settings'[s].team = t /\ IsRow(s)'
    BY <1>2, <2>1, WriteOn, WriteRows
  <2>3. RowClaims(s, n) <=> request[r].old = n
    BY <1>2, <2>2, OldClaims
  <2>4. Rewrites(r, settings[s].team)'
    BY <2>2 DEF Rewrites
  <2>5. ASSUME NEW q \in InFlight \ {r}
        PROVE  /\ Rewrites(q, settings[s].team)' <=> Rewrites(q, settings[s].team)
               /\ Clears(q, s)' <=> Clears(q, s)
               /\ request'[q].old = request[q].old
    <3>1. Kept(q)
      BY <2>2, <2>5 DEF OthersKept, InFlight
    <3> QED  BY <2>2, <3>1 DEF Kept, Rewrites, Clears
  <2>6. ASSUME RowClaims(s, n)' PROVE request[r].old = n
    <3>1. PICK q \in InFlight' : Rewrites(q, settings[s].team)' /\ request'[q].old = n
      BY <2>2, <2>4, <2>6 DEF RowClaims
    <3>2. CASE q = r
      BY <2>2, <3>1, <3>2
    <3>3. CASE q # r
      BY <1>2, <2>2, <2>5, <3>1, <3>3, RenamesAlone
    <3> QED  BY <3>2, <3>3
  <2>7. ASSUME request[r].old = n PROVE RowClaims(s, n)'
    <3>1. \A c \in InFlight : ~Clears(c, s)
      BY <1>2, <2>2, <2>7, RenamesAlone
    <3>2. ~Clears(r, s)'
      BY <2>2 DEF Clears
    <3>3. \A c \in InFlight' : ~Clears(c, s)'
      BY <2>2, <2>5, <3>1, <3>2
    <3> QED  BY <2>2, <2>4, <2>7, <3>3 DEF RowClaims
  <2> QED  BY <2>3, <2>6, <2>7
<1> QED  BY <1>1, <1>2

LEMMA WriteDoubts ==
    ASSUME CoreInv, AllWroteInv, NamesInv, NEW r \in Requests, WriteName(r),
           NEW q \in InFlight, request[q].call.op = "rename", NEW s \in RowsOf(request[q].team),
           InDoubt(q), RowInDoubt(s)
    PROVE  InDoubt(q)' /\ RowInDoubt(s)'
<1>1. InDoubt(q)'
  <2>1. request'[q].name = request[q].name /\ request'[q].old = request[q].old
    BY WriteOn DEF OthersKept, Kept, InFlight
  <2> QED  BY <2>1, WriteOn DEF InDoubt, NamesOf
<1>2. RowInDoubt(s)'
  <2>1. CASE s \notin RowsOf(request[r].team)
    BY <2>1, WriteOn DEF RowInDoubt, RowsOf
  <2>2. CASE s \in RowsOf(request[r].team)
    <3>1. request[q].team = request[r].team /\ r \in InFlight /\ request[r].call.op = "rename"
      BY <2>2, WriteOn DEF RowsOf
    <3>2. InDoubt(r)
      <4>1. CASE q = r
        BY <4>1
      <4>2. CASE q # r
        <5>1. Overlap(r, q)
          BY <3>1 DEF NamesInv
        <5> QED  BY <2>2, <3>1, <4>2, <5>1 DEF Overlap, RowsOf
      <4> QED  BY <4>1, <4>2
    <3>3. request[r].name \in suspect
      BY <3>1, <3>2, RenameNames
    <3> QED  BY <2>2, <3>3, WriteOn, WriteRows DEF RowInDoubt
  <2> QED  BY <2>1, <2>2
<1> QED  BY <1>1, <1>2

LEMMA WriteOverlap ==
    ASSUME CoreInv, AllWroteInv, NamesInv, NEW r \in Requests, WriteName(r),
           NEW q \in InFlight', NEW c \in InFlight'
    PROVE  Overlap(q, c)'
<1>1. /\ q \in InFlight /\ c \in InFlight
      /\ request'[q].call = request[q].call /\ request'[q].team = request[q].team
      /\ request'[c].call = request[c].call /\ request'[c].team = request[c].team
  BY WriteOn DEF OthersKept, Kept, InFlight
<1>2. PICK t, u : t = request[q].team /\ u = request[c].team
  OBVIOUS
<1>3. \A x : RowsOf(x)' = RowsOf(x)
  BY WriteRows
<1>4. PICK p : p = request'[q]
  OBVIOUS
<1>5. ASSUME NEW s \in TeamIds, q # c, request[q].call.op = "rename", s \in RowsOf(t),
             \/ request[c].call.op = "rename" /\ u = t
             \/ request[c].call.op = "close" /\ u = s
      PROVE  InDoubt(q)' /\ RowInDoubt(s)'
  <2>1. Overlap(q, c)
    BY <1>1 DEF NamesInv
  <2>2. InDoubt(q) /\ RowInDoubt(s)
    BY <1>2, <1>5, <2>1 DEF Overlap
  <2> QED  BY <1>1, <1>2, <1>5, <2>2, WriteDoubts
<1>6. RowsOf(p.team)' = RowsOf(t)
  <2>1. p.team = t
    BY <1>1, <1>2, <1>4
  <2> QED  BY <1>3, <2>1
<1> QED  BY <1>1, <1>2, <1>4, <1>5, <1>6 DEF Overlap

LEMMA WriteOther ==
    ASSUME CoreInv, AllWroteInv, NamesInv, NEW r \in Requests, WriteName(r),
           NEW q \in InFlight, q # r
    PROVE  NameInv(q)'
<1>1. Kept(q) /\ NameInv(q)
  BY WriteOn DEF OthersKept, InFlight, NamesInv
<1>2. PICK o, p : o = request[q] /\ p = request'[q]
  OBVIOUS
<1>3. /\ p.call = o.call /\ p.team = o.team /\ p.name = o.name /\ p.old = o.old
      /\ p.wrote = o.wrote /\ o.raced \subseteq p.raced /\ Step(p) = Step(o)
  BY <1>1, <1>2 DEF Kept, Step
<1>4. UNCHANGED <<flags, suspect>>
  BY WriteOn
<1>5. ASSUME o.call.op = "rename", Step(o) # "read"
      PROVE  /\ RowsOf(p.team)' = {} => InDoubt(q)'
             /\ \A s \in RowsOf(p.team)' :
                   \/ settings'[s].name = (IF p.wrote THEN p.name ELSE p.old)
                   \/ InDoubt(q)' /\ RowInDoubt(s)'
  <2>1. RowsOf(p.team)' = RowsOf(o.team)
    <3>1. \A x : RowsOf(x)' = RowsOf(x)
      BY WriteRows
    <3> QED  BY <1>3, <3>1
  <2>2. /\ RowsOf(o.team) = {} => InDoubt(q)
        /\ \A s \in RowsOf(o.team) :
              \/ settings[s].name = (IF o.wrote THEN o.name ELSE o.old)
              \/ InDoubt(q) /\ RowInDoubt(s)
    BY <1>1, <1>2, <1>5 DEF NameInv
  <2>3. InDoubt(q) => InDoubt(q)'
    BY <1>2, <1>3, <1>4 DEF InDoubt, NamesOf
  <2>4. ASSUME NEW s \in RowsOf(o.team)
        PROVE  \/ settings'[s].name = (IF p.wrote THEN p.name ELSE p.old)
               \/ InDoubt(q)' /\ RowInDoubt(s)'
    <3>1. CASE InDoubt(q) /\ RowInDoubt(s)
      BY <1>2, <1>5, <2>4, <3>1, WriteDoubts
    <3>2. CASE settings[s].name = (IF o.wrote THEN o.name ELSE o.old) /\ s \notin RowsOf(request[r].team)
      BY <1>3, <2>4, <3>2, WriteOn DEF RowsOf
    <3>3. CASE s \in RowsOf(request[r].team)
      <4>1. Overlap(q, r) /\ request[r].call.op = "rename" /\ request[r].team = o.team
        BY <2>4, <3>3, WriteOn DEF NamesInv, RowsOf
      <4>2. s \in TeamIds
        BY <2>4 DEF RowsOf
      <4>3. InDoubt(q) /\ RowInDoubt(s)
        BY <1>2, <1>5, <2>4, <4>1, <4>2 DEF Overlap
      <4> QED  BY <3>1, <4>3
    <3> QED  BY <2>2, <2>4, <3>1, <3>2, <3>3
  <2> QED  BY <2>1, <2>2, <2>3, <2>4
<1>6. ASSUME o.call.op = "close", o.wrote, IsRow(p.team)'
      PROVE  settings'[p.team].name = p.old
  <2>1. o.team \in TeamIds /\ Step(o) # "release"
    BY <1>2, <1>6, Flying DEF WellFormed, HasTeam, AllWroteInv, WroteInv
  <2>2. Locked(o.team)
    BY <1>2, <1>6, <2>1, AtStep DEF Locked, Doing, InFlight, Step
  <2>3. o.team \notin RowsOf(request[r].team)
    BY <2>2, WriteOn
  <2>4. settings'[o.team] = settings[o.team]
    BY <2>1, <2>3, WriteOn
  <2>5. IsRow(o.team) /\ settings[o.team].name = o.old
    BY <1>1, <1>2, <1>3, <1>6, <2>4 DEF NameInv, IsRow
  <2> QED  BY <1>3, <2>4, <2>5
<1>7. /\ o.call.op = "close" /\ o.wrote => (o.old \in flags => o.old \in o.raced)
      /\ Step(o) = "flag" \/ (o.call.op = "rename" /\ Step(o) = "drop") =>
            (o.name \in flags => o.name \in o.raced)
  BY <1>1, <1>2 DEF NameInv
<1> QED  BY <1>2, <1>3, <1>4, <1>5, <1>6, <1>7 DEF NameInv

LEMMA WriteNames ==
    ASSUME CoreInv, AllWroteInv, NamesInv, NEW r \in Requests, WriteName(r)
    PROVE  NamesInv' /\ NamesMove
<1>1. ASSUME NEW m \in Names \ suspect' PROVE FlagsAt(m)' /\ Stands(m)
  <2>1. FlagsAt(m) /\ (m \in flags' <=> m \in flags) /\ m \in Names \ suspect
    BY <1>1, WriteOn DEF NamesInv
  <2>2. \A q \in Requests : MakerClaims(q, m)' <=> MakerClaims(q, m)
    BY WriteOn, MakersElse DEF Making
  <2>3. \A s \in TeamIds : RowClaims(s, m)' <=> RowClaims(s, m)
    BY <2>1, WriteClaims
  <2>4. ASSUME NEW s \in TeamIds, RowClaims(s, m) PROVE settings'[s].team = settings[s].team
    <3>1. CASE s \in RowsOf(request[r].team)
      BY <3>1, WriteRows
    <3>2. CASE s \notin RowsOf(request[r].team)
      BY <3>2, WriteOn
    <3> QED  BY <3>1, <3>2
  <2> QED  BY <2>1, <2>2, <2>3, <2>4, FlagsSame DEF Stands
<1>2. ASSUME NEW q \in InFlight' PROVE NameInv(q)'
  <2>1. CASE q # r
    BY <1>2, <2>1, WriteOn, WriteOther
  <2>2. CASE q = r
    <3>1. PICK p, o : p = request'[r] /\ o = request[r]
      OBVIOUS
    <3>2. /\ p.call = o.call /\ p.team = o.team /\ p.name = o.name /\ p.old = o.old /\ p.wrote
          /\ p.call.op = "rename" /\ Step(p) = "check" /\ Step(o) = "row" /\ UNCHANGED suspect
      BY <3>1, WriteOn
    <3>3. RowsOf(p.team)' = RowsOf(o.team)
      <4>1. \A x : RowsOf(x)' = RowsOf(x)
        BY WriteRows
      <4> QED  BY <3>2, <4>1
    <3>4. RowsOf(o.team) = {} => InDoubt(r)
      <4>1. NameInv(r)
        BY WriteOn DEF NamesInv
      <4> QED  BY <3>1, <3>2, <4>1 DEF NameInv
    <3>5. InDoubt(r) => InDoubt(r)'
      BY <3>1, <3>2 DEF InDoubt, NamesOf
    <3>6. \A s \in RowsOf(p.team)' : settings'[s].name = p.name
      BY <3>1, <3>2, <3>3, WriteRows
    <3> QED  BY <2>2, <3>1, <3>2, <3>3, <3>4, <3>5, <3>6 DEF NameInv
  <2> QED  BY <2>1, <2>2
<1>3. NamesMove
  BY <1>1, WriteOn DEF NamesMove, NamesStand
<1> QED  BY <1>1, <1>2, <1>3, WriteOverlap DEF NamesInv

(* What another handler knows, of a step that changes one settings row.      *)
LEMMA OtherRow ==
    ASSUME CoreInv, NamesInv, NEW r, OthersKept(r), UNCHANGED <<flags, suspect>>,
           NEW s0, \A s \in TeamIds \ {s0} : settings'[s] = settings[s],
           NEW q \in InFlight, q # r, NEW t, t = request[q].team,
           request[q].call.op = "rename" =>
              s0 \notin RowsOf(t)' /\ (s0 \in RowsOf(t) => InDoubt(q)),
           request[q].call.op = "close" /\ request[q].wrote /\ t = s0 => ~IsRow(s0)'
    PROVE  NameInv(q)' /\ \A c \in InFlight' : c # r => Overlap(q, c)'
<1>1. Kept(q) /\ NameInv(q) /\ q \in InFlight
  BY DEF OthersKept, InFlight, NamesInv
<1>2. PICK o, p : o = request[q] /\ p = request'[q]
  OBVIOUS
<1>3. /\ p.call = o.call /\ p.team = t /\ o.team = t /\ p.name = o.name /\ p.old = o.old
      /\ p.wrote = o.wrote /\ o.raced \subseteq p.raced /\ Step(p) = Step(o)
  BY <1>1, <1>2 DEF Kept, Step
<1>4. InDoubt(q)' <=> InDoubt(q)
  BY <1>2, <1>3 DEF InDoubt, NamesOf
<1>5. \A s \in TeamIds \ {s0} :
         /\ IsRow(s)' <=> IsRow(s)
         /\ RowInDoubt(s)' <=> RowInDoubt(s)
         /\ s \in RowsOf(t)' <=> s \in RowsOf(t)
  BY DEF IsRow, RowInDoubt, RowsOf
<1>6. RowsOf(p.team)' = RowsOf(t)'
  BY <1>3 DEF RowsOf
<1>7. ASSUME o.call.op = "rename"
      PROVE  RowsOf(t)' = RowsOf(t) \ {s0} /\ \A s \in RowsOf(t)' : s \in TeamIds \ {s0}
  BY <1>2, <1>5, <1>7 DEF RowsOf
<1>8. ASSUME o.call.op = "rename", Step(o) # "read"
      PROVE  /\ RowsOf(p.team)' = {} => InDoubt(q)'
             /\ \A s \in RowsOf(p.team)' :
                   \/ settings'[s].name = (IF p.wrote THEN p.name ELSE p.old)
                   \/ InDoubt(q)' /\ RowInDoubt(s)'
  <2>1. /\ RowsOf(t) = {} => InDoubt(q)
        /\ \A s \in RowsOf(t) :
              \/ settings[s].name = (IF o.wrote THEN o.name ELSE o.old)
              \/ InDoubt(q) /\ RowInDoubt(s)
    BY <1>1, <1>2, <1>3, <1>8 DEF NameInv
  <2>2. RowsOf(t)' = {} => InDoubt(q)'
    BY <1>2, <1>4, <1>7, <1>8, <2>1
  <2>3. \A s \in RowsOf(t)' :
           \/ settings'[s].name = (IF p.wrote THEN p.name ELSE p.old)
           \/ InDoubt(q)' /\ RowInDoubt(s)'
    BY <1>3, <1>4, <1>5, <1>7, <1>8, <2>1
  <2> QED  BY <1>6, <2>2, <2>3
<1>9. ASSUME o.call.op = "close", o.wrote, IsRow(t)'
      PROVE  settings'[t].name = p.old
  <2>1. t \in TeamIds \ {s0}
    BY <1>2, <1>3, <1>9, Flying DEF WellFormed, HasTeam
  <2>2. IsRow(t) /\ settings[t].name = o.old
    BY <1>1, <1>2, <1>3, <1>5, <1>9, <2>1 DEF NameInv
  <2> QED  BY <1>3, <2>1, <2>2
<1>10. /\ o.call.op = "close" /\ o.wrote => (o.old \in flags => o.old \in o.raced)
       /\ Step(o) = "flag" \/ (o.call.op = "rename" /\ Step(o) = "drop") =>
             (o.name \in flags => o.name \in o.raced)
  BY <1>1, <1>2 DEF NameInv
<1>11. NameInv(q)'
  BY <1>2, <1>3, <1>8, <1>9, <1>10 DEF NameInv
<1>12. ASSUME NEW c \in InFlight', c # r PROVE Overlap(q, c)'
  <2>1. c \in InFlight /\ request'[c].call = request[c].call /\ request'[c].team = request[c].team
    BY <1>12, OthersStand DEF Kept
  <2>2. ASSUME NEW s \in TeamIds, q # c, o.call.op = "rename", s \in RowsOf(p.team)',
               \/ request'[c].call.op = "rename" /\ request'[c].team = p.team
               \/ request'[c].call.op = "close" /\ request'[c].team = s
        PROVE  InDoubt(q)' /\ RowInDoubt(s)'
    <3>1. s \in RowsOf(t) /\ s \in TeamIds \ {s0}
      BY <1>6, <1>7, <2>2
    <3>2. Overlap(q, c)
      BY <2>1 DEF NamesInv
    <3>3. InDoubt(q) /\ RowInDoubt(s)
      BY <1>2, <1>3, <2>1, <2>2, <3>1, <3>2 DEF Overlap
    <3> QED  BY <1>4, <1>5, <3>1, <3>3
  <2> QED  BY <1>2, <1>3, <2>2 DEF Overlap
<1> QED  BY <1>11, <1>12

LEMMA CommitCloseNames ==
    ASSUME CoreInv, AllWroteInv, NamesInv, NEW r \in Requests, CommitClose(r)
    PROVE  NamesInv' /\ NamesMove
<1>1. /\ Works(r) /\ r \in InFlight /\ OthersKept(r) /\ Step(request[r]) = "commitClose"
      /\ request[r].call.op = "close" /\ request[r].wrote /\ request[r].team \in TeamIds
      /\ settings' = [settings EXCEPT ![request[r].team] = Released]
      /\ UNCHANGED <<flags, suspect>>
  BY CommitCloseDoes DEF AllWroteInv, WroteInv, NoDoubt, observed, Works
<1>2. PICK s0 : s0 = request[r].team
  OBVIOUS
<1>3. /\ \A s \in TeamIds \ {s0} : settings'[s] = settings[s]
      /\ s0 \in TeamIds /\ ~IsRow(s0)'
  BY <1>1, <1>2 DEF CoreInv, TypeOK, WorkspacesTypeOK, IsRow
<1>4. r \notin InFlight'
  <2> SUFFICES ASSUME r \in InFlight' PROVE FALSE
    OBVIOUS
  <2>1. PICK op, n : op = request[r].call.op /\ n = Step(request'[r])
    OBVIOUS
  <2>2. request'[r].todo # <<>>
    BY DEF InFlight
  <2>3. <<"commitClose", n>> \in Follows[op] /\ n # "none" /\ op \in AllOps
    BY <1>1, <2>1, <2>2, Moves
  <2> QED  BY <2>3, Table
<1>5. ASSUME NEW m \in Names \ suspect' PROVE FlagsAt(m)' /\ Stands(m)
  <2>1. FlagsAt(m) /\ (m \in flags' <=> m \in flags)
    BY <1>1, <1>5 DEF NamesInv
  <2>2. \A q \in Requests : MakerClaims(q, m)' <=> MakerClaims(q, m)
    BY <1>1, MakersElse DEF Making
  <2>3. ~RowClaims(s0, m) /\ ~RowClaims(s0, m)'
    BY <1>1, <1>2, <1>3 DEF RowClaims, Clears
  <2>4. ASSUME NEW s \in TeamIds \ {s0} PROVE RowClaims(s, m)' <=> RowClaims(s, m)
    <3>1. TeamStays(r)
      BY <1>1, CommitCloseDoes DEF TeamStays, Same
    <3> QED  BY <1>1, <1>2, <1>3, <2>4, <3>1, RowsElse
  <2>5. FlagsAt(m)'
    BY <2>1, <2>2, <2>3, <2>4, FlagsSame
  <2> QED  BY <1>3, <2>3, <2>4, <2>5 DEF Stands
<1>6. ASSUME NEW q \in InFlight'
      PROVE  NameInv(q)' /\ \A c \in InFlight' : Overlap(q, c)'
  <2>1. q # r /\ q \in InFlight
    BY <1>1, <1>4, <1>6, OthersStand
  <2>2. PICK t : t = request[q].team
    OBVIOUS
  <2>3. s0 \notin RowsOf(t)'
    BY <1>3 DEF RowsOf
  <2>4. request[q].call.op = "rename" /\ s0 \in RowsOf(t) => InDoubt(q)
    <3>1. Overlap(q, r)
      BY <1>1, <2>1 DEF NamesInv
    <3> QED  BY <1>1, <1>2, <1>3, <2>1, <2>2, <3>1 DEF Overlap
  <2>5. NameInv(q)' /\ \A c \in InFlight' : c # r => Overlap(q, c)'
    BY <1>1, <1>3, <2>1, <2>2, <2>3, <2>4, OtherRow
  <2> QED  BY <1>4, <2>5
<1>7. NamesMove
  BY <1>1, <1>5 DEF NamesMove, NamesStand
<1> QED  BY <1>5, <1>6, <1>7 DEF NamesInv

LEMMA ShowNames ==
    ASSUME CoreInv, NumbersInv, AllWroteInv, NamesInv, NEW r \in Requests,
           Doing(r, "commit") \/ Doing(r, "commitUser"), ShowTeam(r)
    PROVE  NamesInv' /\ NamesMove
<1>1. /\ WritesOn(r) /\ NoDoubt /\ request[r].call.op \in Making
      /\ Step(request[r]) \in {"commit", "commitUser"}
      /\ request'[r].todo # <<>> => Step(request'[r]) = "invite"
      /\ request[r].team \in TeamIds /\ request[r].row \in TeamIds
      /\ teams[request[r].team] = "unused" /\ settings[request[r].row] = Unused
      /\ request[r].name \in Names
      /\ settings' = [settings EXCEPT ![request[r].row] = Row(request[r].team, request[r].name)]
      /\ UNCHANGED flags
  BY ShowDoes
<1>2. /\ Works(r) /\ r \in InFlight /\ OthersKept(r) /\ TeamStays(r) /\ UNCHANGED suspect
      /\ request'[r].call = request[r].call
  <2>1. Works(r) /\ r \in InFlight /\ Same(r)
    BY <1>1 DEF WritesOn
  <2> QED  BY <1>1, <2>1 DEF Works, Idle, Same, TeamStays, NoDoubt, observed
<1>3. PICK s0, t0, n0, op : /\ s0 = request[r].row /\ t0 = request[r].team
                            /\ n0 = request[r].name /\ op = request[r].call.op
  OBVIOUS
<1>4. /\ s0 \in TeamIds /\ t0 \in TeamIds /\ n0 \in Names /\ ~IsRow(s0) /\ settings[s0] = Unused
      /\ \A s \in TeamIds \ {s0} : settings'[s] = settings[s]
      /\ settings'[s0] = Row(t0, n0) /\ teams[t0] = "unused"
  BY <1>1, <1>3 DEF CoreInv, TypeOK, WorkspacesTypeOK, IsRow
<1>5. IsRow(s0)' /\ settings'[s0].team = t0 /\ settings'[s0].name = n0
  BY <1>4, RowIs DEF IsRow
<1>6. op \notin {"rename", "close", "leave"}
  BY <1>1, <1>3 DEF Making
<1>7. ASSUME NEW q \in InFlight, request[q].call.op = "rename"
      PROVE  request[q].team # t0
  <2>1. TeamInv(q) /\ OldTeam(request[q])
    BY <1>7 DEF NumbersInv, OldTeam
  <2> QED  BY <1>4, <2>1 DEF TeamInv
<1>8. ASSUME NEW q \in InFlight, request[q].call.op = "close", request[q].wrote
      PROVE  request[q].team # s0
  <2>1. TeamInv(q) /\ Closing(request[q])
    BY <1>8 DEF NumbersInv, Closing, AllWroteInv, WroteInv
  <2> QED  BY <1>4, <2>1 DEF TeamInv
<1>9. ASSUME NEW m \in Names \ suspect'
      PROVE  FlagsAt(m)' /\ (m # n0 => Stands(m)) /\ (m = n0 => NameComes(m))
  <2>1. FlagsAt(m) /\ (m \in flags' <=> m \in flags)
    BY <1>1, <1>2, <1>9 DEF NamesInv
  <2>2. \A s \in TeamIds \ {s0} : RowClaims(s, m)' <=> RowClaims(s, m)
    BY <1>2, <1>3, <1>4, <1>6, RowsElse
  <2>3. \A q \in Requests \ {r} : MakerClaims(q, m)' <=> MakerClaims(q, m)
    BY <1>2, MakerFrame
  <2>4. MakerClaims(r, m) <=> n0 = m
    BY <1>1, <1>3 DEF MakerClaims
  <2>5. ~MakerClaims(r, m)'
    BY <1>1 DEF MakerClaims, Step
  <2>6. ~RowClaims(s0, m)
    BY <1>4 DEF RowClaims
  <2>7. RowClaims(s0, m)' <=> n0 = m
    <3>1. ASSUME NEW q \in InFlight'
          PROVE  ~Rewrites(q, settings[s0].team)' /\ ~Clears(q, s0)'
      <4>1. CASE q = r
        BY <1>2, <1>3, <1>6, <4>1 DEF Rewrites, Clears
      <4>2. CASE q # r
        <5>1. q \in InFlight /\ Kept(q)
          BY <1>2, <3>1, <4>2, OthersStand
        <5> QED  BY <1>5, <1>7, <1>8, <5>1 DEF Kept, Rewrites, Clears
      <4> QED  BY <4>1, <4>2
    <3> QED  BY <1>5, <3>1 DEF RowClaims
  <2>8. CASE m = n0
    <3>1. FlagsAt(m)'
      BY <1>2, <1>4, <2>1, <2>2, <2>3, <2>4, <2>5, <2>7, <2>8, FlagPasses
    <3>2. \A s \in TeamIds : ~RowClaims(s, m)
      BY <1>2, <2>1, <2>4, <2>8 DEF FlagsAt, InFlight
    <3>3. ASSUME NEW s \in TeamIds, NEW k, RowClaims(s, k) PROVE settings[s].team # t0
      <4>1. IsRow(s)
        BY <3>3 DEF RowClaims
      <4> QED  BY <1>4, <4>1 DEF NumbersInv, CountersInv
    <3> QED  BY <1>4, <1>5, <2>7, <2>8, <3>1, <3>2, <3>3 DEF NameComes
  <2>9. CASE m # n0
    <3>1. \A s \in TeamIds : RowClaims(s, m)' <=> RowClaims(s, m)
      BY <2>2, <2>6, <2>7, <2>9
    <3>2. \A q \in Requests : MakerClaims(q, m)' <=> MakerClaims(q, m)
      BY <2>3, <2>4, <2>5, <2>9
    <3>3. \A s \in TeamIds : RowClaims(s, m) => settings'[s] = settings[s]
      BY <1>4, <2>6
    <3> QED  BY <2>1, <2>9, <3>1, <3>2, <3>3, FlagsSame DEF Stands
  <2> QED  BY <2>8, <2>9
<1>10. ASSUME NEW q \in InFlight'
       PROVE  NameInv(q)' /\ \A c \in InFlight' : Overlap(q, c)'
  <2>1. CASE q = r
    <3>1. request'[r].call.op = op /\ Step(request'[r]) = "invite"
      BY <1>1, <1>2, <1>3, <1>10, <2>1 DEF InFlight
    <3> QED  BY <1>6, <2>1, <3>1 DEF NameInv, Overlap
  <2>2. CASE q # r
    <3>1. q \in InFlight
      BY <1>2, <1>10, <2>2, OthersStand
    <3>2. PICK t : t = request[q].team
      OBVIOUS
    <3>3. request[q].call.op = "rename" => s0 \notin RowsOf(t)' /\ s0 \notin RowsOf(t)
      BY <1>4, <1>5, <1>7, <3>1, <3>2 DEF RowsOf
    <3>4. ~(request[q].call.op = "close" /\ request[q].wrote /\ t = s0)
      BY <1>8, <3>1, <3>2
    <3>5. NameInv(q)' /\ \A c \in InFlight' : c # r => Overlap(q, c)'
      BY <1>1, <1>2, <1>4, <2>2, <3>1, <3>2, <3>3, <3>4, OtherRow
    <3>6. Overlap(q, r)'
      BY <1>2, <1>3, <1>6 DEF Overlap
    <3> QED  BY <3>5, <3>6
  <2> QED  BY <2>1, <2>2
<1>11. NamesMove
  <2>1. CASE n0 \in suspect
    BY <1>2, <1>9, <2>1 DEF NamesMove, NamesStand
  <2>2. CASE n0 \notin suspect
    BY <1>2, <1>4, <1>9, <2>2 DEF NamesMove
  <2> QED  BY <2>1, <2>2
<1> QED  BY <1>9, <1>10, <1>11 DEF NamesInv

(* A request that comes in, and those it meets.                              *)
LEMMA BeginDoubts ==
    ASSUME NEW r, NEW call, NEW todo, NEW t, NEW n, Begin(r, call, todo, t, n)
    PROVE  /\ suspect \subseteq suspect'
           /\ \A s \in Meets(call, t) :
                 /\ NamesOf(request[s]) \subseteq suspect'
                 /\ {n} \ {NoName} \subseteq suspect'
                 /\ \A x \in RowsFor(call, t) : settings[x].name \in suspect'
<1>1. PICK others : others = Meets(call, t)
  OBVIOUS
<1>2. \/ others = {} /\ UNCHANGED suspect
      \/ suspect' = suspect \cup ({n} \ {NoName})
                       \cup {settings[s].name : s \in RowsFor(call, t)}
                       \cup UNION {NamesOf(request[s]) : s \in others}
  BY <1>1 DEF Begin, NoDoubt, observed
<1>3. CASE others = {} /\ UNCHANGED suspect
  BY <1>1, <1>3
<1>4. CASE suspect' = suspect \cup ({n} \ {NoName})
                       \cup {settings[s].name : s \in RowsFor(call, t)}
                       \cup UNION {NamesOf(request[s]) : s \in others}
  <2>1. \A s \in others : NamesOf(request[s]) \subseteq suspect'
    BY <1>4
  <2>2. \A x \in RowsFor(call, t) : settings[x].name \in suspect'
    BY <1>4
  <2> QED  BY <1>1, <1>4, <2>1, <2>2
<1> QED  BY <1>2, <1>3, <1>4

LEMMA ComesDoubts ==
    ASSUME CoreInv, NEW r \in Requests, NEW call \in Calls, Receive(r, call) \/ ReceiveAccount(r, call),
           NEW t, t = request'[r].team
    PROVE  /\ suspect \subseteq suspect' /\ request'[r].old = NoName
           /\ \A s \in Meets(call, t) :
                 /\ NamesOf(request[s]) \subseteq suspect'
                 /\ {request'[r].name} \ {NoName} \subseteq suspect'
                 /\ \A x \in RowsFor(call, t) : settings[x].name \in suspect'
<1>1. PICK todo, u, n : Begin(r, call, todo, u, n)
  BY DEF Receive, ReceiveAccount
<1>2. request'[r].team = u /\ request'[r].name = n /\ request'[r].old = NoName
  <2>1. request' = [request EXCEPT ![r] = [Idle(call) EXCEPT !.todo = todo, !.team = u, !.name = n]]
    BY <1>1 DEF Begin
  <2> QED  BY <2>1, Requesting DEF Idle
<1> QED  BY <1>1, <1>2, BeginDoubts

LEMMA ComesFlags ==
    ASSUME CoreInv, NamesInv, NEW r \in Requests, NEW call \in Calls, Comes(r, call),
           UNCHANGED <<settings, flags>>, NEW n \in Names \ suspect
    PROVE  FlagsAt(n)' /\ Stands(n)
<1>1. /\ OthersKept(r) /\ r \notin InFlight /\ ~request'[r].wrote /\ request'[r].call = call
      /\ Step(request'[r]) = Start[call.op] /\ call.op \in AllOps
  BY ComesOthers, CallFacts DEF Comes
<1>2. FlagsAt(n)
  BY DEF NamesInv
<1>3. ASSUME NEW s \in TeamIds PROVE RowClaims(s, n)' <=> RowClaims(s, n)
  <2>1. PICK t : t = settings[s].team
    OBVIOUS
  <2>2. ~Rewrites(r, t)' /\ ~Clears(r, s)'
    BY <1>1 DEF Rewrites, Clears
  <2> QED  BY <1>1, <2>1, <2>2, RowFrame
<1>4. ASSUME NEW q \in Requests PROVE MakerClaims(q, n)' <=> MakerClaims(q, n)
  <2>1. CASE q = r
    <3>1. ~MakerClaims(r, n)
      BY <1>1 DEF MakerClaims, Step, InFlight
    <3>2. Start[call.op] \notin {"charge", "keys", "commit", "commitUser"}
      BY <1>1 DEF Start, AllOps, Ops, AccountOps
    <3> QED  BY <1>1, <2>1, <3>1, <3>2 DEF MakerClaims
  <2>2. CASE q # r
    BY <1>1, <2>2, MakerFrame
  <2> QED  BY <2>1, <2>2
<1> QED  BY <1>2, <1>3, <1>4, FlagsSame DEF Stands

LEMMA ComesNames ==
    ASSUME CoreInv, NamesInv, NEW r \in Requests, NEW call \in Calls, Comes(r, call), KnowsTeam(r, call),
           Nothing, Receive(r, call) \/ ReceiveAccount(r, call)
    PROVE  NamesInv' /\ NamesMove
<1>1. /\ OthersKept(r) /\ r \notin InFlight /\ ~request'[r].wrote /\ request'[r].call = call
      /\ Step(request'[r]) = Start[call.op] /\ call.op \in AllOps
      /\ UNCHANGED <<settings, flags>>
  BY ComesOthers, CallFacts DEF Comes, Nothing
<1>2. PICK t : t = request'[r].team
  OBVIOUS
<1>3. /\ suspect \subseteq suspect' /\ request'[r].old = NoName
      /\ \A s \in Meets(call, t) :
            /\ NamesOf(request[s]) \subseteq suspect'
            /\ {request'[r].name} \ {NoName} \subseteq suspect'
            /\ \A x \in RowsFor(call, t) : settings[x].name \in suspect'
  BY <1>2, ComesDoubts
<1>4. \A n \in Names \ suspect' : FlagsAt(n)' /\ Stands(n)
  BY <1>1, <1>3, ComesFlags
<1>5. ASSUME NEW q \in InFlight', q # r
      PROVE  q \in InFlight /\ Kept(q)
  BY <1>1, <1>5, OthersStand
<1>6. ASSUME NEW q \in InFlight' PROVE NameInv(q)'
  <2>1. CASE q # r
    <3>1. NameInv(q) /\ Tells(r)
      BY <1>1, <1>5, <1>6, <2>1 DEF NamesInv, Tells
    <3> QED  BY <1>1, <1>3, <1>6, <2>1, <3>1, OtherName
  <2>2. CASE q = r
    <3>1. /\ call.op = "rename" => Step(request'[r]) = "read"
          /\ Step(request'[r]) # "flag"
      BY <1>1 DEF Start, AllOps, Ops, AccountOps
    <3> QED  BY <1>1, <2>2, <3>1 DEF NameInv
  <2> QED  BY <2>1, <2>2
<1>7. ASSUME NEW x \in TeamIds PROVE IsRow(x)' <=> IsRow(x)
  BY <1>1 DEF IsRow
<1>8. ASSUME NEW q \in InFlight, q # r
      PROVE  InDoubt(q)' <=> NamesOf(request[q]) \subseteq suspect'
  BY <1>1, <1>8 DEF OthersKept, InFlight, Kept, InDoubt, NamesOf
<1>9. ASSUME NEW s \in Meets(call, t)
      PROVE  InDoubt(r)' /\ NamesOf(request[s]) \subseteq suspect'
             /\ \A x \in RowsFor(call, t) : RowInDoubt(x)'
  BY <1>1, <1>3 DEF InDoubt, NamesOf, RowInDoubt
<1>10. call.op \in {"rename", "close"} => t \in TeamIds /\ t # NoTeam
  BY <1>2, WorkspacesAssumption DEF KnowsTeam
<1>11. ASSUME NEW q \in InFlight', NEW c \in InFlight', NEW x \in TeamIds, q # c,
              request'[q].call.op = "rename", NEW u, u = request'[q].team, IsRow(x),
              settings[x].team = u,
              \/ request'[c].call.op = "rename" /\ request'[c].team = u
              \/ request'[c].call.op = "close" /\ request'[c].team = x
       PROVE  InDoubt(q)' /\ RowInDoubt(x)'
  <2>1. CASE q = r
    <3>1. c \in InFlight /\ Kept(c) /\ c # r /\ u = t /\ call.op = "rename"
      BY <1>1, <1>2, <1>5, <1>11, <2>1
    <3>2. x \in RowsFor(call, t)
      BY <1>11, <3>1 DEF RowsFor
    <3>3. c \in Meets(call, t)
      <4>1. CASE request'[c].call.op = "rename" /\ request'[c].team = u
        BY <1>10, <3>1, <4>1 DEF Meets, Kept
      <4>2. CASE request'[c].call.op = "close" /\ request'[c].team = x
        <5>1. x \in RowsFor(request[c].call, request[c].team)
          BY <1>11, <3>1, <4>2 DEF RowsFor, Kept
        <5> QED  BY <1>10, <3>1, <3>2, <5>1 DEF Meets
      <4> QED  BY <1>11, <4>1, <4>2
    <3> QED  BY <1>9, <2>1, <3>2, <3>3
  <2>2. CASE c = r
    <3>1. q \in InFlight /\ Kept(q) /\ q # r /\ request[q].team = u /\ call.op \in {"rename", "close"}
      BY <1>1, <1>5, <1>11, <2>2 DEF Kept
    <3>2. x \in RowsFor(call, t) /\ x \in RowsFor(request[q].call, request[q].team)
      BY <1>1, <1>2, <1>11, <2>2, <3>1 DEF RowsFor
    <3>3. q \in Meets(call, t)
      BY <1>10, <3>1, <3>2 DEF Meets
    <3> QED  BY <1>8, <1>9, <3>1, <3>2, <3>3
  <2>3. CASE q # r /\ c # r
    <3>1. q \in InFlight /\ Kept(q) /\ c \in InFlight /\ Kept(c)
      BY <1>5, <1>11, <2>3
    <3>2. Overlap(q, c)
      BY <3>1 DEF NamesInv
    <3>3. InDoubt(q) /\ RowInDoubt(x)
      BY <1>11, <3>1, <3>2 DEF Overlap, RowsOf, Kept
    <3>4. InDoubt(q)'
      BY <1>3, <1>8, <2>3, <3>1, <3>3 DEF InDoubt
    <3> QED  BY <1>1, <1>3, <3>3, <3>4 DEF RowInDoubt
  <2> QED  BY <2>1, <2>2, <2>3
<1>12. \A q, c \in InFlight' : Overlap(q, c)'
  BY <1>1, <1>7, <1>11 DEF Overlap, RowsOf
<1>13. NamesMove
  BY <1>3, <1>4 DEF NamesMove, NamesStand
<1> QED  BY <1>4, <1>6, <1>12, <1>13 DEF NamesInv

LEMMA StutterNames == NamesInv /\ UNCHANGED wsVars => NamesInv' /\ NamesMove
<1> SUFFICES ASSUME NamesInv, UNCHANGED wsVars PROVE NamesInv' /\ NamesMove
  OBVIOUS
<1>1. UNCHANGED <<settings, flags, suspect, request>> /\ InFlight' = InFlight
  BY DEF wsVars, InFlight
<1>2. \A s, n : RowClaims(s, n)' <=> RowClaims(s, n)
  BY <1>1 DEF RowClaims, IsRow, Clears, Rewrites
<1>3. \A q, n : MakerClaims(q, n)' <=> MakerClaims(q, n)
  BY <1>1 DEF MakerClaims
<1>4. \A n : FlagsAt(n) => FlagsAt(n)'
  BY <1>1, <1>2, <1>3 DEF FlagsAt
<1>5. \A q : NameInv(q) => NameInv(q)'
  BY <1>1 DEF NameInv, RowsOf, IsRow, InDoubt, RowInDoubt
<1>6. \A q, c : Overlap(q, c) => Overlap(q, c)'
  BY <1>1 DEF Overlap, RowsOf, IsRow, InDoubt, RowInDoubt
<1>7. NamesMove
  BY <1>1, <1>2 DEF NamesMove, NamesStand, Stands
<1> QED  BY <1>1, <1>4, <1>5, <1>6, <1>7 DEF NamesInv

LEMMA NextNames ==
    CoreInv /\ NumbersInv /\ AllWroteInv /\ NamesInv /\ [Next]_vars => NamesInv' /\ NamesMove
<1> SUFFICES ASSUME CoreInv, NumbersInv, AllWroteInv, NamesInv, [Next]_vars
             PROVE  NamesInv' /\ NamesMove
  OBVIOUS
<1>1. ASSUME NEW r \in Requests, NEW call \in Calls, Receive(r, call) /\ Keeps
      PROVE  NamesInv' /\ NamesMove
  <2>1. Comes(r, call) /\ KnowsTeam(r, call) /\ Nothing
    BY <1>1, ReceiveCore, ReceiveGiven
  <2> QED  BY <1>1, <2>1, ComesNames
<1>2. ASSUME NEW r \in Requests, NEW call \in Calls, ReceiveAccount(r, call)
      PROVE  NamesInv' /\ NamesMove
  <2>1. Comes(r, call) /\ KnowsTeam(r, call) /\ Nothing
    BY <1>2, AccountCore, AccountGiven DEF NumbersInv
  <2> QED  BY <1>2, <2>1, ComesNames
<1>3. ASSUME NEW r \in Requests,
             (WorkspacesStep(r) /\ Keeps) \/ AccountStep(r) \/ FailAccount(r)
      PROVE  NamesInv' /\ NamesMove
  <2>1. CASE CommitSignUp(r) \/ CommitTeam(r)
    BY <2>1, ShowNames DEF CommitTeam, CommitSignUp
  <2> QED  BY <1>3, <2>1, StepsAll, QuietNames, FailNames, CheckNames, DropNames, SetFlagNames,
              ChargeNames, SetKeysNames, ReadNames, WriteNames, ReleaseNames, UnflagNames,
              CommitCloseNames
<1>4. ASSUME NEW a \in Addresses, Expire(a) PROVE NamesInv' /\ NamesMove
  BY <1>4, StutterNames DEF Expire
<1>5. CASE UNCHANGED vars
  BY <1>5, StutterNames DEF vars
<1> QED  BY <1>1, <1>2, <1>3, <1>4, <1>5 DEF Next

LEMMA InitNames == Init => NamesInv
<1> SUFFICES ASSUME Init PROVE NamesInv
  OBVIOUS
<1>1. InFlight = {}
  BY InitTeams DEF Init
<1>2. /\ settings = [t \in TeamIds |-> IF IsGiven(t) THEN Row(t, Given[t]) ELSE Unused]
      /\ flags = {Given[t] : t \in Made}
      /\ \A r \in Requests : Step(request[r]) = "none"
  BY DEF Init, WorkspacesInit, Idle, Step
<1>3. ASSUME NEW s \in TeamIds, NEW n \in Names
      PROVE  RowClaims(s, n) <=> s \in Made /\ Given[s] = n
  <2>1. CASE IsGiven(s)
    <3>1. Given[s] \in Names
      BY <2>1, WorkspacesAssumption DEF IsGiven
    <3>2. settings[s].name = Given[s] /\ IsRow(s)
      BY <1>2, <2>1, <3>1, RowIs DEF IsRow
    <3> QED  BY <1>1, <2>1, <3>2 DEF RowClaims, Made
  <2>2. CASE ~IsGiven(s)
    BY <1>2, <2>2 DEF RowClaims, Made, IsRow
  <2> QED  BY <2>1, <2>2
<1>4. \A r \in Requests : \A n : ~MakerClaims(r, n)
  BY <1>2 DEF MakerClaims
<1>5. ASSUME NEW n \in Names PROVE FlagsAt(n)
  <2>1. n \in flags <=> \E s \in TeamIds : s \in Made /\ Given[s] = n
    BY <1>2 DEF Made
  <2>2. \A i, j \in TeamIds : i \in Made /\ j \in Made /\ Given[i] = n /\ Given[j] = n => i = j
    BY WorkspacesAssumption DEF Made, IsGiven
  <2> QED  BY <1>3, <1>4, <2>1, <2>2 DEF FlagsAt
<1> QED  BY <1>1, <1>5 DEF NamesInv

LEMMA FlagsOfNames == CoreInv /\ AllWroteInv /\ NamesInv => FlagsFollowNames
<1> SUFFICES ASSUME CoreInv, AllWroteInv, NamesInv, NEW n \in Settled
             PROVE  Cardinality(Holders(n)) = IF n \in flags THEN 1 ELSE 0
  BY DEF FlagsFollowNames
<1>1. n \in Names \ suspect /\ \A r \in InFlight : n \notin NamesOf(request[r])
  BY DEF Settled, InFlightNames
<1>2. FlagsAt(n)
  BY <1>1 DEF NamesInv
<1>3. \A r \in InFlight : n # request[r].name /\ n # request[r].old
  BY <1>1, WorkspacesAssumption DEF NamesOf
<1>4. \A r \in Requests : ~MakerClaims(r, n)
  <2> SUFFICES ASSUME NEW r \in Requests, MakerClaims(r, n) PROVE FALSE
    OBVIOUS
  <2>1. r \in InFlight
    BY DEF MakerClaims, Step, InFlight
  <2> QED  BY <1>3, <2>1 DEF MakerClaims
<1>5. ASSUME NEW s \in TeamIds PROVE RowClaims(s, n) <=> s \in Holders(n)
  <2>1. ASSUME RowClaims(s, n) PROVE s \in Holders(n)
    BY <1>3, <2>1 DEF RowClaims, Holders
  <2>2. ASSUME s \in Holders(n) PROVE RowClaims(s, n)
    <3>1. IsRow(s) /\ settings[s].name = n
      BY <2>2 DEF Holders
    <3>2. ASSUME NEW c \in InFlight, Clears(c, s) PROVE FALSE
      <4>1. NameInv(c)
        BY <3>2 DEF NamesInv
      <4> QED  BY <1>3, <3>1, <3>2, <4>1 DEF NameInv, Clears
    <3>3. ASSUME NEW r \in InFlight, Rewrites(r, settings[s].team) PROVE FALSE
      <4>1. NameInv(r) /\ WroteInv(r)
        BY <3>3 DEF NamesInv, AllWroteInv
      <4>2. s \in RowsOf(request[r].team) /\ request[r].call.op = "rename" /\ request[r].wrote
        BY <3>1, <3>3 DEF Rewrites, RowsOf
      <4>3. settings[s].name = request[r].name \/ RowInDoubt(s)
        BY <4>1, <4>2 DEF NameInv, WroteInv
      <4> QED  BY <1>1, <1>3, <3>1, <4>3 DEF RowInDoubt
    <3> QED  BY <3>1, <3>2, <3>3 DEF RowClaims
  <2> QED  BY <2>1, <2>2
<1>6. CASE n \in flags
  <2>1. PICK s \in TeamIds : RowClaims(s, n)
    BY <1>2, <1>4, <1>6 DEF FlagsAt
  <2>2. Holders(n) = {s}
    BY <1>2, <1>5, <2>1 DEF FlagsAt, Holders
  <2> QED  BY <1>6, <2>2, FS_Singleton
<1>7. CASE n \notin flags
  <2>1. Holders(n) = {}
    BY <1>2, <1>5, <1>7 DEF FlagsAt, Holders
  <2> QED  BY <1>7, <2>1, FS_EmptySet
<1> QED  BY <1>6, <1>7

(* The name of a workspace leads to one team, and is flagged if and only if  *)
(* it does, whatever requests take and give up names at the same time and    *)
(* wherever they break off: a name for which it may be otherwise is one that *)
(* a race, a failure or a refusal is known to have touched.                  *)
THEOREM FlagsCorrect == Spec => []FlagsFollowNames
<1> DEFINE Inv == CoreInv /\ NumbersInv /\ AllWroteInv /\ LeaveInv /\ NamesInv
<1>1. Init => Inv
  BY InitCore, InitNumbers, InitWrote, InitNames
<1>2. Inv /\ [Next]_vars => Inv'
  BY NextCore, NextNumbers, NextWrote, NextNames
<1>3. Inv => FlagsFollowNames
  BY FlagsOfNames
<1> QED  BY <1>1, <1>2, <1>3, PTL DEF Spec

-----------------------------------------------------------------------------
(* The register of names, as it is read off the state: a name leads to the   *)
(* team of the row that claims it.                                           *)
ClaimsAre ==
    \A n \in Names \ suspect, t \in TeamIds :
        t \in Keepers(n) <=> \E s \in TeamIds : RowClaims(s, n) /\ settings[s].team = t
OneClaim ==
    \A n \in Names \ suspect : \A s1, s2 \in TeamIds :
        RowClaims(s1, n) /\ RowClaims(s2, n) => s1 = s2 /\ settings[s1].team \in TeamIds

(* A rename that overlaps with another one has its names in doubt.           *)
LEMMA RenamesMeet ==
    ASSUME CoreInv, AllWroteInv, NamesInv, NEW t, NEW s \in RowsOf(t),
           NEW q \in Renaming(t), NEW r \in Renaming(t), q # r
    PROVE  request[q].old \in suspect
<1>1. /\ q \in InFlight /\ r \in InFlight /\ request[q].wrote
      /\ request[q].call.op = "rename" /\ request[q].team = t
      /\ request[r].call.op = "rename" /\ request[r].team = t
  BY DEF Renaming
<1>2. Step(request[q]) # "read"
  BY <1>1 DEF AllWroteInv, WroteInv
<1>3. Overlap(q, r)
  BY <1>1 DEF NamesInv
<1>4. InDoubt(q)
  BY <1>1, <1>3 DEF Overlap, RowsOf
<1> QED  BY <1>1, <1>2, <1>4, RenameNames

(* The name in force is the one that the row claims.                         *)
LEMMA InForce ==
    ASSUME CoreInv, NumbersInv, AllWroteInv, NamesInv, NEW t \in TeamIds, NEW s \in RowsOf(t),
           \A c \in InFlight : ~Clears(c, s), NEW n \in Names \ suspect
    PROVE  NameInForce(t) = n <=> RowClaims(s, n)
<1>1. s \in TeamIds /\ IsRow(s) /\ settings[s].team = t
  BY DEF RowsOf
<1>2. \A r \in InFlight : Rewrites(r, t) <=> r \in Renaming(t)
  BY DEF Rewrites, Renaming
<1>3. RowClaims(s, n) <=>
         \/ settings[s].name = n /\ Renaming(t) = {}
         \/ \E r \in Renaming(t) : Step(request[r]) \in {"check", "drop"} /\ request[r].old = n
  <2>1. Renaming(t) \subseteq InFlight
    BY DEF Renaming
  <2> QED  BY <1>1, <1>2, <2>1 DEF RowClaims
<1>4. CASE Renaming(t) = {}
  <2>1. NameOf(t) = settings[s].name
    <3>1. PICK x \in RowsOf(t) : NameOf(t) = settings[x].name
      BY DEF NameOf
    <3> QED  BY <3>1, SingleRow
  <2> QED  BY <1>3, <1>4, <2>1 DEF NameInForce
<1>5. CASE Renaming(t) # {}
  <2>1. PICK r \in Renaming(t) :
           NameInForce(t) = IF Doing(r, "flag") THEN NoName ELSE request[r].old
    BY <1>5 DEF NameInForce
  <2>2. \A q \in Renaming(t) : Step(request[q]) \in {"check", "drop", "flag"}
    BY DEF Renaming, AllWroteInv, WroteInv
  <2>3. Doing(r, "flag") <=> Step(request[r]) = "flag"
    <3>1. request[r].todo # <<>>
      BY <2>1 DEF Renaming, InFlight
    <3> QED  BY <3>1 DEF Doing, Step
  <2>4. CASE Renaming(t) = {r}
    BY <1>3, <2>1, <2>2, <2>3, <2>4, WorkspacesAssumption
  <2>5. CASE Renaming(t) # {r}
    <3>1. \A q \in Renaming(t) : request[q].old \in suspect
      BY <2>1, <2>5, RenamesMeet
    <3>2. NameInForce(t) # n
      BY <2>1, <3>1, WorkspacesAssumption
    <3> QED  BY <1>3, <1>5, <3>1, <3>2
  <2> QED  BY <2>4, <2>5
<1> QED  BY <1>4, <1>5

LEMMA ClaimsOfNames ==
    CoreInv /\ NumbersInv /\ AllWroteInv /\ NamesInv => ClaimsAre /\ OneClaim
<1> SUFFICES ASSUME CoreInv, NumbersInv, AllWroteInv, NamesInv
             PROVE  ClaimsAre /\ OneClaim
  OBVIOUS
<1>1. \A s : GivenUp(s) <=> \E c \in InFlight : Clears(c, s)
  BY DEF GivenUp, Clears
<1>2. ASSUME NEW n \in Names \ suspect, NEW t \in TeamIds, t \in Keepers(n)
      PROVE  \E s \in TeamIds : RowClaims(s, n) /\ settings[s].team = t
  <2>1. PICK s \in RowsOf(t) : ~GivenUp(s) /\ NameInForce(t) = n
    BY <1>2 DEF Keepers
  <2>2. RowClaims(s, n)
    BY <1>1, <1>2, <2>1, InForce
  <2> QED  BY <2>2 DEF RowsOf
<1>3. ASSUME NEW n \in Names \ suspect, NEW t \in TeamIds, NEW s \in TeamIds,
             RowClaims(s, n), settings[s].team = t
      PROVE  t \in Keepers(n)
  <2>1. IsRow(s) /\ \A c \in InFlight : ~Clears(c, s)
    BY <1>3 DEF RowClaims
  <2>2. s \in RowsOf(t)
    BY <1>3, <2>1 DEF RowsOf
  <2>3. NameInForce(t) = n
    BY <1>3, <2>1, <2>2, InForce
  <2> QED  BY <1>1, <1>3, <2>1, <2>2, <2>3 DEF Keepers
<1>4. OneClaim
  <2>1. \A s \in TeamIds : IsRow(s) => settings[s].team \in TeamIds
    BY DEF CoreInv, TypeOK, WorkspacesTypeOK, Rows, IsRow
  <2> QED  BY <2>1 DEF OneClaim, NamesInv, FlagsAt, RowClaims
<1> QED  BY <1>2, <1>3, <1>4 DEF ClaimsAre

Leads ==
    [n \in Names |->
        IF n \in suspect THEN Disputed
        ELSE IF Keepers(n) = {} THEN Free ELSE CHOOSE t \in Keepers(n) : TRUE]
(* What a name that is not suspect leads to.                                 *)
LeadsWell ==
    \A n \in Names :
        /\ n \in suspect => Leads[n] = Disputed
        /\ n \notin suspect =>
              /\ Leads[n] \in TeamIds \cup {Free}
              /\ \A s \in TeamIds : RowClaims(s, n) => settings[s].team \in TeamIds
              /\ \A t \in TeamIds : Leads[n] = t <=>
                    \E s \in TeamIds : RowClaims(s, n) /\ settings[s].team = t

LEMMA LeadsAre == ClaimsAre /\ OneClaim => LeadsWell
<1> SUFFICES ASSUME ClaimsAre, OneClaim, NEW n \in Names
             PROVE  /\ n \in suspect => Leads[n] = Disputed
                    /\ n \notin suspect =>
                          /\ Leads[n] \in TeamIds \cup {Free}
                          /\ \A s \in TeamIds : RowClaims(s, n) => settings[s].team \in TeamIds
                          /\ \A t \in TeamIds : Leads[n] = t <=>
                                \E s \in TeamIds : RowClaims(s, n) /\ settings[s].team = t
  BY DEF LeadsWell
<1>1. CASE n \in suspect
  BY <1>1 DEF Leads
<1>2. n \notin suspect => \A s \in TeamIds : RowClaims(s, n) => settings[s].team \in TeamIds
  BY DEF OneClaim
<1>3. CASE n \notin suspect /\ Keepers(n) = {}
  <2>1. Leads[n] = Free
    BY <1>3 DEF Leads
  <2>2. \A t \in TeamIds : ~\E s \in TeamIds : RowClaims(s, n) /\ settings[s].team = t
    BY <1>3 DEF ClaimsAre
  <2> QED  BY <1>3, <1>2, <2>1, <2>2, RegisterAssumption
<1>4. CASE n \notin suspect /\ Keepers(n) # {}
  <2>1. PICK k \in Keepers(n) : Leads[n] = k
    BY <1>4 DEF Leads
  <2>2. k \in TeamIds
    BY <2>1 DEF Keepers
  <2>3. PICK s0 \in TeamIds : RowClaims(s0, n) /\ settings[s0].team = k
    BY <1>4, <2>1, <2>2 DEF ClaimsAre
  <2>4. \A s \in TeamIds : RowClaims(s, n) => s = s0
    BY <1>4, <2>3 DEF OneClaim
  <2> QED  BY <1>4, <1>2, <2>1, <2>2, <2>3, <2>4
<1> QED  BY <1>1, <1>3, <1>4

(* A name that stands leads to the team it led to.                           *)
LEMMA LeadsOn ==
    ASSUME LeadsWell, LeadsWell', NEW n \in Names \ suspect', n \notin suspect, Stands(n)
    PROVE  Leads'[n] = Leads[n]
<1>1. \A t \in TeamIds : (Leads'[n] = t) <=> Leads[n] = t
  <2>1. \A t \in TeamIds :
           /\ Leads[n] = t <=> \E s \in TeamIds : RowClaims(s, n) /\ settings[s].team = t
           /\ Leads'[n] = t <=> \E s \in TeamIds : RowClaims(s, n)' /\ settings'[s].team = t
    BY DEF LeadsWell
  <2> QED  BY <2>1 DEF Stands
<1>2. Leads[n] \in TeamIds \cup {Free} /\ Leads'[n] \in TeamIds \cup {Free}
  BY DEF LeadsWell
<1> QED  BY <1>1, <1>2, RegisterAssumption

LEMMA LeadsMove ==
    LeadsWell /\ LeadsWell' /\ NamesMove =>
        \/ \A n \in Names : Leads'[n] \in {Leads[n], Disputed}
        \/ \E m \in Names : /\ Leads[m] \in TeamIds
                            /\ Leads' = [Leads EXCEPT ![m] = Free]
        \/ \E m \in Names, t \in TeamIds :
              /\ Leads[m] = Free /\ {n \in Names : Leads[n] = t} = {}
              /\ Leads' = [Leads EXCEPT ![m] = t]
<1> SUFFICES ASSUME LeadsWell, LeadsWell', NamesMove
             PROVE  \/ \A n \in Names : Leads'[n] \in {Leads[n], Disputed}
                    \/ \E m \in Names : /\ Leads[m] \in TeamIds
                                        /\ Leads' = [Leads EXCEPT ![m] = Free]
                    \/ \E m \in Names, t \in TeamIds :
                          /\ Leads[m] = Free /\ {n \in Names : Leads[n] = t} = {}
                          /\ Leads' = [Leads EXCEPT ![m] = t]
  OBVIOUS
<1>1. CASE NamesStand
  <2>1. ASSUME NEW n \in Names PROVE Leads'[n] \in {Leads[n], Disputed}
    <3>1. CASE n \in suspect'
      BY <3>1 DEF LeadsWell
    <3>2. CASE n \notin suspect'
      BY <1>1, <3>2, LeadsOn DEF NamesStand, NamesMove
    <3> QED  BY <3>1, <3>2
  <2> QED  BY <2>1
<1>2. ASSUME UNCHANGED suspect, NEW m \in Names \ suspect,
             \A n \in Names \ suspect : n # m => Stands(n), NEW k, Leads'[m] = k
      PROVE  Leads' = [Leads EXCEPT ![m] = k]
  <2>1. ASSUME NEW n \in Names, n # m PROVE Leads'[n] = Leads[n]
    <3>1. CASE n \in suspect
      BY <1>2, <3>1 DEF LeadsWell
    <3>2. CASE n \notin suspect
      BY <1>2, <2>1, <3>2, LeadsOn
    <3> QED  BY <3>1, <3>2
  <2>2. /\ Leads = [n \in Names |-> Leads[n]]
        /\ Leads' = [n \in Names |-> Leads'[n]]
    BY DEF Leads
  <2> QED  BY <1>2, <2>1, <2>2
<1>3. ASSUME UNCHANGED suspect, NEW m \in Names \ suspect, NameGoes(m),
             \A n \in Names \ suspect : n # m => Stands(n)
      PROVE  Leads[m] \in TeamIds /\ Leads' = [Leads EXCEPT ![m] = Free]
  <2>1. Leads[m] \in TeamIds
    BY <1>3 DEF LeadsWell, NameGoes
  <2>2. Leads'[m] = Free
    BY <1>3 DEF LeadsWell, NameGoes
  <2> QED  BY <1>2, <1>3, <2>1, <2>2
<1>4. ASSUME UNCHANGED suspect, NEW m \in Names \ suspect, NameComes(m),
             \A n \in Names \ suspect : n # m => Stands(n)
      PROVE  \E t \in TeamIds :
                /\ Leads[m] = Free /\ {n \in Names : Leads[n] = t} = {}
                /\ Leads' = [Leads EXCEPT ![m] = t]
  <2>1. PICK t \in TeamIds :
           /\ \E s \in TeamIds : RowClaims(s, m)' /\ settings'[s].team = t
           /\ \A s \in TeamIds : ~RowClaims(s, m)
           /\ \A s \in TeamIds, n \in Names \ suspect : RowClaims(s, n) => settings[s].team # t
    BY <1>4 DEF NameComes
  <2>2. Leads[m] = Free
    BY <1>4, <2>1 DEF LeadsWell
  <2>3. Leads'[m] = t
    BY <1>4, <2>1 DEF LeadsWell
  <2>4. ASSUME NEW n \in Names PROVE Leads[n] # t
    <3>1. CASE n \in suspect
      BY <3>1, RegisterAssumption DEF LeadsWell
    <3>2. CASE n \notin suspect
      BY <2>1, <3>2 DEF LeadsWell
    <3> QED  BY <3>1, <3>2
  <2> QED  BY <1>2, <1>4, <2>2, <2>3, <2>4
<1> QED  BY <1>1, <1>3, <1>4 DEF NamesMove

(* Teams and sign-ups keep to the register of names: a name that is not      *)
(* suspect leads to one team, a team takes a free one when it has none, and  *)
(* keeps it until a rename or its end gives it up, wherever handlers are.    *)
THEOREM RegisterCorrect == Spec => KeepsRegister
<1> DEFINE Inv == CoreInv /\ NumbersInv /\ AllWroteInv /\ LeaveInv /\ NamesInv
<1>1. Init => Inv
  BY InitCore, InitNumbers, InitWrote, InitNames
<1>2. Inv /\ [Next]_vars => Inv' /\ NamesMove
  BY NextCore, NextNumbers, NextWrote, NextNames
<1>3. Inv => LeadsWell
  BY ClaimsOfNames, LeadsAre
<1>4. Init => Register!Init
  <2> SUFFICES ASSUME Init PROVE Register!Init
    OBVIOUS
  <2>1. LeadsWell
    BY <1>1, <1>3
  <2>2. suspect = {}
    BY DEF Init, WorkspacesInit
  <2>3. Leads \in [Names -> TeamIds \cup {Free}]
    BY <2>1, <2>2 DEF LeadsWell, Leads
  <2>4. InFlight = {}
    BY InitTeams DEF Init
  <2>5. ASSUME NEW m \in Names, NEW n \in Names, NEW t \in TeamIds, Leads[m] = t, Leads[n] = t
        PROVE  m = n
    <3>1. PICK s1 \in TeamIds, s2 \in TeamIds :
             /\ RowClaims(s1, m) /\ settings[s1].team = t
             /\ RowClaims(s2, n) /\ settings[s2].team = t
      BY <2>1, <2>2, <2>5 DEF LeadsWell
    <3>2. /\ IsRow(s1) /\ settings[s1].name = m
          /\ IsRow(s2) /\ settings[s2].name = n
      BY <2>4, <3>1 DEF RowClaims
    <3>3. s1 = s2
      BY <1>1, <3>1, <3>2 DEF NumbersInv, CountersInv
    <3> QED  BY <3>2, <3>3
  <2> QED  BY <2>3, <2>5 DEF Register!Init, Leads
<1>5. LeadsWell /\ LeadsWell' /\ NamesMove => [Register!Next]_Leads
  <2> SUFFICES ASSUME LeadsWell, LeadsWell', NamesMove PROVE Register!Next
    OBVIOUS
  <2>1. CASE \A n \in Names : Leads'[n] \in {Leads[n], Disputed}
    BY <2>1 DEF Register!Next, Register!Dispute, Leads
  <2>2. ASSUME NEW m \in Names, Leads[m] \in TeamIds, Leads' = [Leads EXCEPT ![m] = Free]
        PROVE  Register!GiveUp(m)
    BY <2>2 DEF Register!GiveUp, Leads
  <2>3. ASSUME NEW m \in Names, NEW t \in TeamIds, Leads[m] = Free,
               {n \in Names : Leads[n] = t} = {}, Leads' = [Leads EXCEPT ![m] = t]
        PROVE  Register!Take(m, t)
    BY <2>3 DEF Register!Take, Register!Holds, Leads
  <2> QED  BY <2>1, <2>2, <2>3, LeadsMove DEF Register!Next
<1> QED  BY <1>1, <1>2, <1>3, <1>4, <1>5, PTL DEF Spec, KeepsRegister, Register!Spec, Leads

(* No team ever has two names that are not suspect, whatever it and others   *)
(* do at once: a rename gives up the old name before it takes the new one.   *)
THEOREM OneNameCorrect == Spec => []Register!OneName
<1>1. Register!Init => Register!OneName
  BY DEF Register!Init, Register!OneName, Register!Holds
<1>2. Register!OneName /\ [Register!Next]_Leads => Register!OneName'
  <2> SUFFICES ASSUME Register!OneName, [Register!Next]_Leads,
                      NEW t \in TeamIds, NEW m \in Names, NEW n \in Names,
                      Leads'[m] = t, Leads'[n] = t
               PROVE  m = n
    BY DEF Register!OneName, Register!Holds, Leads
  <2>1. \A x, y \in Names : Leads[x] = t /\ Leads[y] = t => x = y
    BY DEF Register!OneName, Register!Holds, Leads
  <2>2. CASE Register!Dispute
    BY <2>1, <2>2, RegisterAssumption DEF Register!Dispute, Leads
  <2>3. CASE \E x \in Names, u \in TeamIds : Register!Take(x, u)
    BY <2>1, <2>3 DEF Register!Take, Register!Holds, Leads
  <2>4. CASE \E x \in Names : Register!GiveUp(x)
    BY <2>1, <2>4, RegisterAssumption DEF Register!GiveUp, Leads
  <2>5. CASE UNCHANGED Leads
    BY <2>1, <2>5
  <2> QED  BY <2>2, <2>3, <2>4, <2>5 DEF Register!Next
<1> QED  BY <1>1, <1>2, RegisterCorrect, PTL DEF KeepsRegister, Register!Spec, Leads

=============================================================================
