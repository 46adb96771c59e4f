--------------------------- MODULE MCAvailability ---------------------------
(***************************************************************************)
(* Instances of Availability for TLC.  The team has the members 1 and 11:   *)
(* the hash fields of 11 contain the digit of 1.  Events 1 and 2 are hosted *)
(* by member 1, event 2 by member 11 as well.                               *)
(***************************************************************************)
EXTENDS Availability, TLC

CONSTANTS r1, r2

MCLinkEvent == (1 :> 2) @@ (2 :> 1) @@ (3 :> 2)
MCLinkProfile == (1 :> 11) @@ (2 :> 1) @@ (3 :> 1)
MCContaining == (1 :> Keys) @@ (11 :> {11} \X Ids)

(* Availabilities a1, a2 are of member 1, a3 of member 11.                  *)
CONSTANTS a1, a2, a3, a4, a5
MCGivenRows ==
    [i \in Ids |->
        CASE i = a1 -> [profile |-> 1, default |-> TRUE]
          [] i = a2 -> [profile |-> 1, default |-> FALSE]
          [] i = a3 -> [profile |-> 11, default |-> TRUE]
          [] OTHER -> Unused]
MCSymmetry == Permutations(Requests)

MCGivenLinks == (1 :> a3) @@ (2 :> a2) @@ (3 :> a1)

MakeCall(op, profile, id) ==
    [op |-> op, profile |-> profile, id |-> id, default |-> Absent,
     details |-> FALSE, availableTimes |-> Absent, overrides |-> Absent,
     events |-> {}]
Body(call) == [call EXCEPT !.availableTimes = {"noon"}, !.overrides = {"past", "coming"}]
Defaulting(call, flag) == [call EXCEPT !.default = flag]
Naming(call) == [call EXCEPT !.details = TRUE]
About(call, events) == [call EXCEPT !.events = events]

Creates(p, i) == {Body(MakeCall("create", p, i))}
Patches(p, i) ==
    {Defaulting(MakeCall("patch", p, i), TRUE), Defaulting(MakeCall("patch", p, i), FALSE),
     Naming(MakeCall("patch", p, i)), Body(MakeCall("patch", p, i))}
Puts(p, i) == {Body(Defaulting(MakeCall("update", p, i), flag)) : flag \in BOOLEAN}
Removes(p, i) == {MakeCall("remove", p, i)}
Clones(p, i) == {MakeCall("clone", p, i)}
PatchAlls(p) ==
    {MakeCall("patchAll", p, a1), Body(MakeCall("patchAll", p, a1)),
     [Body(MakeCall("patchAll", p, a1)) EXCEPT !.overrides = Absent],
     [Body(MakeCall("patchAll", p, a1)) EXCEPT !.availableTimes = Absent]}
Unlinks(p, i) == {MakeCall("unlink", p, i)}
LinksOne(p, i) == {About(MakeCall("linkEvent", p, i), {e}) : e \in EventIds}
LinksMany(p, i) == {About(MakeCall("linkEvents", p, i), es) : es \in SUBSET EventIds}

(* The operations of member 1 on his own rows, of member 11, and of a       *)
(* manager on the rows of a member.                                         *)
MCCalls ==
    UNION {Creates(p, i) \cup Patches(p, i) \cup Puts(p, i) \cup Removes(p, i)
           \cup Clones(p, i) \cup PatchAlls(p) \cup LinksOne(p, i)
           \cup LinksMany(p, i) \cup Unlinks(p, i) :
           <<p, i>> \in {<<1, a1>>, <<1, a2>>, <<11, a3>>, <<11, a2>>}}

MCRenames == {Naming(MakeCall("patch", 1, a2)),
              Defaulting(MakeCall("patch", 1, a2), TRUE)}
=============================================================================
