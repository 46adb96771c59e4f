---------------------------- MODULE MCEventLinks ----------------------------
(***************************************************************************)
(* A team with two events, one of which was created and never renamed, and  *)
(* three requests: with two, no link is freed and taken again under a third. *)
(***************************************************************************)
EXTENDS EventLinks, TLC

CONSTANTS r1, r2, r3

MCNew == <<"new-event-type">>
MCIntro == <<"intro">>
MCLinks == {MCNew, MCIntro} \X {<<>>, <<1>>, <<1, 1>>, <<1, 1, 1>>}
MCBase(l) == <<l, <<>>>>
(* With three requests at most two numbers follow a link that is cloned.    *)
MCWithNumber ==
    [p \in MCLinks \X {1} |->
        <<p[1][1], IF Len(p[1][2]) = 3 THEN p[1][2] ELSE Append(p[1][2], 1)>>]
MCNewEventType == MCBase(MCNew)
MCGiven ==
    [i \in Ids |-> CASE i = 1 -> MCBase(MCNew) [] i = 2 -> MCBase(MCIntro)
                     [] OTHER -> Unused]

Ask(op, i, l) == [op |-> op, id |-> i, link |-> l, parts |-> {}]
(* The link of event 1, and the one that a clone of event 2 would get.      *)
MCWanted == {MCBase(MCNew), <<MCIntro, <<1>>>>}
MCCalls ==
    {Ask("create", NoId, NoLink), Ask("clone", 2, NoLink)}
    \cup {Ask("remove", 1, NoLink)}
    \cup {Ask("patch", i, l) : i \in {1, 2}, l \in MCWanted}
    \cup {Ask("patch", 1, NoLink)}
    \cup {Ask("update", i, l) : i \in {1, 2}, l \in MCWanted}
    \cup {[Ask("details", 1, NoLink) EXCEPT !.parts = {"hostQuestions"}]}
MCSymmetry == Permutations(Requests)
=============================================================================
