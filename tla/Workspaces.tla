----------------------------- MODULE Workspaces -----------------------------
(***************************************************************************)
(* Teams and the names of their workspaces: TeamSettingService, and what     *)
(* TeamService does to make and to close a team.                             *)
(*                                                                         *)
(* A team is a row in MySQL with a row of settings, which has the name of    *)
(* the workspace; a flag in Redis says that a name is in use.  A team is     *)
(* made and closed in a transaction, whose rows are seen when it commits,    *)
(* but flags, other keys of Redis and charges of a payment method are not    *)
(* taken back.  The two rows have counters of their own, and a team is       *)
(* closed by the settings with its number.                                   *)
(*                                                                         *)
(* Accounts extends this module: a sign-up makes a team as well.             *)
(***************************************************************************)
EXTENDS Integers, Sequences, FiniteSets

CONSTANTS
    TeamIds,         \* numbers of teams and of settings, counted up
    Names, NoName,
    Numbers,         \* the random suffixes of a default name
    WithNumber,      \* Names \X Numbers -> Names
    Unused, Released,
    NoTeam,
    Given,           \* TeamIds -> Names or Unused: the teams made earlier
    Persons,         \* what a request says of people
    Steps,           \* what handlers have to do, those of Accounts as well
    Requests, Calls, NoCall

Ops == {"newTeam", "rename", "close"}
TeamSteps ==
    {"look", "team", "setting", "check", "flag", "charge", "keys", "commit", "invite",
     "read", "row", "drop", "release", "unflag", "commitClose"}
TeamKeys == {"availability", "event", "plan"}
KeyOrder == <<"availability", "event", "plan">>

ASSUME WorkspacesAssumption ==
    /\ IsFiniteSet(TeamIds) /\ TeamIds = 1..Cardinality(TeamIds)
    /\ NoName \notin Names /\ NoTeam \notin TeamIds
    /\ WithNumber \in [Names \X Numbers -> Names]
    /\ Unused # Released
    /\ {Unused, Released} \cap [team : TeamIds, name : Names] = {}
    /\ Unused \notin Names
    /\ Given \in [TeamIds -> Names \cup {Unused}]
    /\ \A i, j \in TeamIds :
          /\ Given[i] = Given[j] /\ Given[i] # Unused => i = j
          /\ i < j /\ Given[j] # Unused => Given[i] # Unused
    /\ NoCall \notin Calls
    /\ \A c \in Calls :
          /\ c.op \in {"newTeam", "rename"} => c.name \in Names
          /\ c.op \in {"rename", "close"} => c.team \in TeamIds
    /\ TeamSteps \subseteq Steps

VARIABLES
    teams,         \* MySQL: the state of each team
    settings,      \* MySQL: the team and the name of each settings row
    lastTeam, lastSetting,  \* MySQL: the counters of the two tables
    flags,         \* Redis: the names in use
    keys,          \* Redis: what else it has of each team
    charges,       \* payment gateway: the teams a method was charged for
    request,       \* the local state of the handler of each request
    (* observed only by the properties *)
    suspect,       \* names that a race, a failure or a refusal touched
    torn,          \* teams that overlapping requests or a failure touched
    skewed         \* a team's settings have had another number than the team

redis == <<flags, keys>>
observed == <<suspect, torn, skewed>>
wsVars == <<teams, settings, lastTeam, lastSetting, flags, keys, charges,
            request, suspect, torn, skewed>>

-----------------------------------------------------------------------------
(* What each handler has to do, in the order of the code.                   *)
NewTeamSteps ==
    <<"look", "team", "setting", "check", "flag", "charge", "keys", "commit", "invite">>

(* Faulty: the flag of the name that is given up is kept.                   *)
RenameStepsKeep == <<"read", "row", "check", "flag">>

RenameSteps == <<"read", "row", "check", "drop", "flag">>
CloseSteps == <<"release", "unflag", "unflag", "commitClose">>

Row(t, n) == [team |-> t, name |-> n]
Rows == [team : TeamIds, name : Names]
IsRow(s) == settings[s] \notin {Unused, Released}
RowsOf(t) == {s \in TeamIds : IsRow(s) /\ settings[s].team = t}
NameOf(t) == settings[CHOOSE s \in RowsOf(t) : TRUE].name

RequestType ==
    [call : Calls \cup {NoCall},
     todo : Seq(Steps),
     team : TeamIds \cup {NoTeam},    \* the team it makes or changes
     row : TeamIds \cup {NoTeam},     \* the settings it makes
     name : Names \cup {NoName},      \* the name it takes
     old : Names \cup {NoName},       \* the name it gives up
     wrote : BOOLEAN,                 \* observed: it has written for good,
     raced : SUBSET Names]            \*   names others took meanwhile

WorkspacesTypeOK ==
    /\ teams \in [TeamIds -> {"unused", "open", "closed", "left"}]
    /\ settings \in [TeamIds -> Rows \cup {Unused, Released}]
    /\ lastTeam \in TeamIds \cup {0} /\ lastSetting \in TeamIds \cup {0}
    /\ flags \subseteq Names
    /\ keys \in [TeamIds -> SUBSET (TeamKeys \cup {"invitations"})]
    /\ charges \subseteq TeamIds
    /\ request \in [Requests -> RequestType]
    /\ suspect \subseteq Names /\ torn \subseteq TeamIds /\ skewed \in BOOLEAN

Idle(call) ==
    [call |-> call, todo |-> <<>>, team |-> NoTeam, row |-> NoTeam,
     name |-> NoName, old |-> NoName, wrote |-> FALSE, raced |-> {}]

IsGiven(t) == Given[t] # Unused
Made == {t \in TeamIds : IsGiven(t)}

WorkspacesInit ==
    /\ teams = [t \in TeamIds |-> IF IsGiven(t) THEN "open" ELSE "unused"]
    /\ settings = [t \in TeamIds |-> IF IsGiven(t) THEN Row(t, Given[t]) ELSE Unused]
    /\ lastTeam = Cardinality(Made) /\ lastSetting = Cardinality(Made)
    /\ flags = {Given[t] : t \in Made}
    /\ keys = [t \in TeamIds |-> IF IsGiven(t) THEN TeamKeys ELSE {}]
    /\ charges = {}
    /\ request = [r \in Requests |-> Idle(NoCall)]
    /\ suspect = {} /\ torn = {} /\ skewed = FALSE

-----------------------------------------------------------------------------
Doing(r, step) == request[r].todo # <<>> /\ Head(request[r].todo) = step
InFlight == {r \in Requests : request[r].todo # <<>>}
NamesOf(q) == {q.name, q.old} \ {NoName}

Doubts(q) ==
    /\ suspect' = suspect \cup NamesOf(q)
    /\ torn' = torn \cup ({q.team} \ {NoTeam})
    /\ UNCHANGED skewed
NoDoubt == UNCHANGED observed

(* The handler has done a step that leaves it with local state q.           *)
After(q) ==
    IF Tail(q.todo) = <<>> THEN Idle(q.call) ELSE [q EXCEPT !.todo = Tail(@)]
Advance(r, q) ==
    /\ request' = [request EXCEPT ![r] = After(q)]
    /\ NoDoubt

Wrote(r) == [request[r] EXCEPT !.wrote = TRUE]

(* The handler refuses or throws; its transaction, if any, is rolled back.  *)
Stop(r) == request' = [request EXCEPT ![r] = Idle(@.call)]
Refuse(r) == Stop(r) /\ NoDoubt
Nothing == UNCHANGED <<teams, settings, lastTeam, lastSetting, flags, keys, charges>>

(* The settings a request is about: those of its team, and for a team to    *)
(* close also those with its number.                                        *)
RowsFor(call, t) ==
    {s \in TeamIds : IsRow(s) /\ (settings[s].team = t \/ (call.op = "close" /\ s = t))}

Meets(call, t) ==
    {s \in InFlight :
        /\ t # NoTeam
        /\ \/ request[s].team = t
           \/ RowsFor(request[s].call, request[s].team) \cap RowsFor(call, t) # {}}

(* A request comes in with what it has to do, on team t if it has one yet,  *)
(* to take the name n.  Two at once on one team, or on the settings of one, *)
(* cast doubt on their names.                                               *)
Begin(r, call, todo, t, n) ==
    LET others == Meets(call, t) IN
    /\ request[r].call = NoCall
    /\ request' = [request EXCEPT ![r] =
          [Idle(call) EXCEPT !.todo = todo, !.team = t, !.name = n]]
    /\ IF others = {} THEN NoDoubt
       ELSE /\ suspect' = suspect \cup ({n} \ {NoName})
                           \cup {settings[s].name : s \in RowsFor(call, t)}
                           \cup UNION {NamesOf(request[s]) : s \in others}
            /\ torn' = torn \cup {t}
            /\ UNCHANGED skewed

(* TeamController, TeamSettingController: the token names the team.         *)
Receive(r, call) ==
    /\ \/ call.op = "newTeam" /\ Begin(r, call, NewTeamSteps, NoTeam, call.name)
       \/ call.op = "rename" /\ teams[call.team] # "unused"
                             /\ Begin(r, call, RenameSteps, call.team, call.name)
       \/ call.op = "close" /\ teams[call.team] = "open"
                            /\ Begin(r, call, CloseSteps, call.team, NoName)
    /\ Nothing

(* getDefaultTeamWorkspace: a random number follows a name that is in use.  *)
DefaultName(n, k) == IF n \in flags THEN WithNumber[n, k] ELSE n

(* fetchTeamWorkspaceStatus: create refuses a name in use, before all else. *)
Look(r) ==
    /\ Doing(r, "look")
    /\ IF request[r].call.op = "newTeam"
       THEN IF request[r].name \in flags
            THEN Refuse(r) ELSE Advance(r, request[r])
       ELSE \E k \in Numbers :
               Advance(r, [request[r] EXCEPT !.name = DefaultName(@, k)])
    /\ Nothing

(* TeamService._create: two INSERTs.  Their counters are not rolled back.   *)
InsertTeam(r) ==
    /\ Doing(r, "team")
    /\ lastTeam + 1 \in TeamIds
    /\ lastTeam' = lastTeam + 1
    /\ Advance(r, [request[r] EXCEPT !.team = lastTeam + 1])
    /\ UNCHANGED <<teams, settings, lastSetting, flags, keys, charges>>

InsertSetting(r) ==
    /\ Doing(r, "setting")
    /\ lastSetting + 1 \in TeamIds
    /\ lastSetting' = lastSetting + 1
    /\ request' = [request EXCEPT ![r] = After([@ EXCEPT !.row = lastSetting + 1])]
    /\ skewed' = (skewed \/ lastSetting + 1 # request[r].team)
    /\ UNCHANGED <<teams, settings, lastTeam, flags, keys, charges, suspect, torn>>

(* Faulty: the name is not looked up again.                                 *)
InUseNever(n) == FALSE

(* _updateTeamWorkspaceRecord: the flag is read, the old one deleted and    *)
(* the new one set by a call each.  A rename that is refused here has       *)
(* written its row already.                                                 *)
InUse(n) == n \in flags
CheckFlag(r) ==
    /\ Doing(r, "check")
    /\ IF InUse(request[r].name)
       THEN /\ Stop(r)
            /\ IF request[r].wrote /\ request[r].name # request[r].old
               THEN Doubts(request[r]) ELSE NoDoubt
       ELSE Advance(r, [request[r] EXCEPT !.raced = @ \ {request[r].name}])
    /\ Nothing

(* A flag that another request has set meanwhile goes as well.              *)
DropFlag(r) ==
    LET q == Wrote(r)
        left == q.call.op = "leave" IN
    /\ Doing(r, "drop")
    /\ flags' = flags \ {q.old}
    /\ request' = [request EXCEPT ![r] = After(q)]
    /\ suspect' = suspect \cup (IF q.old \in q.raced \/ left THEN {q.old} ELSE {})
    /\ UNCHANGED <<teams, settings, lastTeam, lastSetting, keys, charges, torn, skewed>>

(* SET answers nothing of a flag that was there.                            *)
SetFlag(r) ==
    LET q == Wrote(r)
        n == q.name IN
    /\ Doing(r, "flag")
    /\ flags' = flags \cup {n}
    /\ request' = [s \in Requests |->
          IF s = r THEN After(q)
          ELSE IF s \in InFlight
               THEN [request[s] EXCEPT !.raced = @ \cup {n}] ELSE request[s]]
    /\ suspect' = suspect \cup ({n} \cap q.raced)
    /\ UNCHANGED <<teams, settings, lastTeam, lastSetting, keys, charges, torn, skewed>>

(* create: the method is registered and charged within the transaction.     *)
Charge(r) ==
    /\ Doing(r, "charge")
    /\ charges' = charges \cup {request[r].team}
    /\ Advance(r, Wrote(r))
    /\ UNCHANGED <<teams, settings, lastTeam, lastSetting, flags, keys>>

(* The keys of the first availability and event, the member count and the   *)
(* plan, in this order, or some of them before the handler breaks off.      *)
SetKeys(r) ==
    /\ Doing(r, "keys")
    /\ \E k \in 0..Len(KeyOrder) :
          /\ keys' = [keys EXCEPT ![request[r].team] = @ \cup {KeyOrder[i] : i \in 1..k}]
          /\ IF k = Len(KeyOrder)
             THEN Advance(r, Wrote(r)) ELSE Stop(r) /\ Doubts(request[r])
    /\ UNCHANGED <<teams, settings, lastTeam, lastSetting, flags, charges>>

(* The rows of a new team, and its settings, are there for others to see.   *)
ShowTeam(r) ==
    LET q == Wrote(r) IN
    /\ teams' = [teams EXCEPT ![q.team] = "open"]
    /\ settings' = [settings EXCEPT ![q.row] = Row(q.team, q.name)]
    /\ Advance(r, q)
    /\ UNCHANGED <<lastTeam, lastSetting, flags, keys, charges>>

CommitTeam(r) == Doing(r, "commit") /\ ShowTeam(r)

(* create: people without an account are invited after the commit.          *)
SaveInvitations(r) ==
    /\ Doing(r, "invite")
    /\ keys' = [keys EXCEPT ![request[r].team] = @ \cup {"invitations"}]
    /\ Advance(r, request[r])
    /\ UNCHANGED <<teams, settings, lastTeam, lastSetting, flags, charges>>

(* updateTeamWorkspace: the settings of the team, or an error without them. *)
ReadName(r) ==
    /\ Doing(r, "read")
    /\ IF RowsOf(request[r].team) = {}
       THEN Refuse(r)
       ELSE Advance(r, [request[r] EXCEPT !.old = NameOf(request[r].team)])
    /\ Nothing

(* A row that a closing transaction has written is locked until it ends; a  *)
(* settings row that has been deleted takes the name, and nobody sees it.   *)
Locked(s) ==
    \E c \in InFlight : /\ request[c].call.op = "close" /\ request[c].team = s
                        /\ ~Doing(c, "release")
WriteName(r) ==
    LET q == Wrote(r) IN
    /\ Doing(r, "row")
    /\ \A s \in RowsOf(q.team) : ~Locked(s)
    /\ settings' = [s \in TeamIds |->
          IF s \in RowsOf(q.team) THEN Row(q.team, q.name) ELSE settings[s]]
    /\ Advance(r, q)
    /\ UNCHANGED <<teams, lastTeam, lastSetting, flags, keys, charges>>

(* TeamSettingService._delete: the settings with the number of the team.    *)
ReleaseRow(r) ==
    /\ Doing(r, "release")
    /\ ~Locked(request[r].team)
    /\ IF settings[request[r].team] = Unused
       THEN Refuse(r)
       ELSE Advance(r, request[r])
    /\ Nothing

(* Twice, each for one of the two results before it: the row is read as it  *)
(* was before the transaction, so its name is the one in use, and goes.     *)
Unflag(r) ==
    LET s == request[r].team
        q == Wrote(r)
        gone == IF IsRow(s) THEN {settings[s].name} ELSE {} IN
    /\ Doing(r, "unflag")
    /\ flags' = flags \ gone
    /\ request' = [request EXCEPT ![r] =
          After([q EXCEPT !.old = IF IsRow(s) THEN settings[s].name ELSE NoName])]
    /\ suspect' = suspect \cup (gone \cap q.raced)
    /\ UNCHANGED <<teams, settings, lastTeam, lastSetting, keys, charges, torn, skewed>>

(* Faulty: the settings of a closed team stay.                              *)
CommitCloseOnly(r) ==
    /\ Doing(r, "commitClose")
    /\ teams' = [teams EXCEPT ![request[r].team] = "closed"]
    /\ Advance(r, request[r])
    /\ UNCHANGED <<settings, lastTeam, lastSetting, flags, keys, charges>>

CommitClose(r) ==
    LET q == request[r] IN
    /\ Doing(r, "commitClose")
    /\ teams' = [teams EXCEPT ![q.team] = "closed"]
    /\ settings' = [settings EXCEPT ![q.team] = Released]
    /\ Advance(r, q)
    /\ UNCHANGED <<lastTeam, lastSetting, flags, keys, charges>>

(* A store, the gateway or the worker fails: the transaction is rolled      *)
(* back, and what is written elsewhere stays.                               *)
Fail(r) ==
    /\ r \in InFlight
    /\ Stop(r)
    /\ IF request[r].wrote THEN Doubts(request[r]) ELSE NoDoubt
    /\ Nothing

WorkspacesStep(r) ==
    \/ Look(r)
    \/ InsertTeam(r)
    \/ InsertSetting(r)
    \/ CheckFlag(r)
    \/ DropFlag(r)
    \/ SetFlag(r)
    \/ Charge(r)
    \/ SetKeys(r)
    \/ CommitTeam(r)
    \/ SaveInvitations(r)
    \/ ReadName(r)
    \/ WriteName(r)
    \/ ReleaseRow(r)
    \/ Unflag(r)
    \/ CommitClose(r)

-----------------------------------------------------------------------------
InFlightNames == UNION {NamesOf(request[r]) : r \in InFlight}
Settled == (Names \ suspect) \ InFlightNames
Holders(n) == {s \in TeamIds : IsRow(s) /\ settings[s].name = n}

(* The name of a workspace leads to one team, as findByWorkspace assumes,   *)
(* and is flagged in Redis if and only if it does.  It is otherwise only if *)
(* requests raced to take it, one of them broke off, a rename was refused   *)
(* after it had written its row, or the people of the team have left.       *)
FlagsFollowNames ==
    \A n \in Settled : Cardinality(Holders(n)) = IF n \in flags THEN 1 ELSE 0

(* Every open team can be found by a name, and a closed one by none, unless *)
(* the numbers of teams and of their settings have drifted apart.           *)
TeamsHaveNames ==
    ~skewed => \A t \in TeamIds :
        /\ teams[t] = "open" => Cardinality(RowsOf(t)) = 1
        /\ teams[t] = "closed" => RowsOf(t) = {}

(* What Redis and the gateway have of a team follows its row, unless the    *)
(* request that made it, or one that overlapped with it, broke off.  A team *)
(* that is closed keeps its keys; its settings may have outlived it when    *)
(* the numbers have drifted apart, and the people who leave take keys of it.*)
Whole(t) == t \notin torn \cup {request[r].team : r \in InFlight}
KeysFollowTeams ==
    \A t \in TeamIds : Whole(t) =>
        /\ teams[t] = "unused" => keys[t] = {}
        /\ teams[t] = "open" \/ (teams[t] = "closed" /\ ~skewed) => TeamKeys \subseteq keys[t]
        /\ teams[t] = "left" => keys[t] \cap {"availability", "event"} = {}
        /\ t \in charges <=> "invitations" \in keys[t]

(* All a team consists of, spread over MySQL, Redis and the gateway by one  *)
(* request, is there or gone with it.                                       *)
TeamsWhole == TeamsHaveNames /\ KeysFollowTeams

(* The names are kept as in NameRegister.  A rename gives a name up with    *)
(* its flag and takes one with its flag, whatever the row has meanwhile, and *)
(* a closing team gives its name up with the first flag that goes.          *)
Renaming(t) ==
    {r \in InFlight : /\ request[r].call.op = "rename" /\ request[r].team = t
                      /\ request[r].wrote}
NameInForce(t) ==
    IF Renaming(t) = {} THEN NameOf(t)
    ELSE LET r == CHOOSE q \in Renaming(t) : TRUE IN
         IF Doing(r, "flag") THEN NoName ELSE request[r].old
GivenUp(s) ==
    \E r \in InFlight : /\ request[r].call.op = "close" /\ request[r].team = s
                        /\ request[r].wrote
Keepers(n) ==
    {t \in TeamIds : /\ RowsOf(t) # {} /\ NameInForce(t) = n
                     /\ \E s \in RowsOf(t) : ~GivenUp(s)}
CONSTANTS Free, Disputed
ASSUME RegisterAssumption ==
    Free # Disputed /\ {Free, Disputed} \cap TeamIds = {}
Register == INSTANCE NameRegister WITH
    Teams <- TeamIds,
    holder <- [n \in Names |->
        IF n \in suspect THEN Disputed
        ELSE IF Keepers(n) = {} THEN Free ELSE CHOOSE t \in Keepers(n) : TRUE]
KeepsRegister == Register!Spec
=============================================================================
